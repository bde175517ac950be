----------------------------- MODULE IntegerText -----------------------------
(***************************************************************************)
(* integer_chars.cpp: reading and writing wide integers, beside the fixed- *)
(* point values of TextConversion.  The digits are read in chunks of as    *)
(* many as fit a word, the first of them shorter, and the sum is checked   *)
(* against the limit before it is made.                                    *)
(***************************************************************************)
EXTENDS TextConversion

\* Here pos is where the next chunk begins and index its length.

CallInteger ==
  /\ textStage = "idle"
  /\ \/ textRequest' \in ET!IntegerParses
     \/ \E t \in IntegerTypes : textRequest' \in ET!IntegerFormats(t)
  /\ textStage' = "begin"
  /\ UNCHANGED <<textAnswer, scan, keep, loop>>

-----------------------------------------------------------------------------
(* parse_signed, parse_unsigned, unsigned_digits.                          *)

ParsingInteger ==
  textStage = "begin" /\ textRequest.op \in {"parse_signed", "parse_unsigned"}

Signs == IF textRequest.op = "parse_signed" THEN {ET!Minus, ET!Plus} ELSE {ET!Plus}
NegativeInteger == textRequest.op = "parse_signed" /\ text[1] = ET!Minus
IntegerBody == IF text[1] \in Signs THEN Tail(text) ELSE text

WellSigned ==
  IntegerBody # <<>> /\ (textRequest.op = "parse_unsigned" => IntegerBody[1] # ET!Minus)

IntegerLimit ==
  IF textRequest.op = "parse_unsigned" THEN 2 ^ bits - 1 ELSE TypeLimit(NegativeInteger)

RejectEmptyInteger == ParsingInteger /\ text = <<>> /\ Refused("empty")

RejectSign ==
  /\ ParsingInteger /\ text # <<>> /\ ~WellSigned
  /\ Refused("invalid")

StartInteger ==
  /\ ParsingInteger /\ text # <<>> /\ WellSigned
  /\ textStage' = "chunk"
  /\ pos' = 1 /\ accumulator' = 0
  /\ index' = IF Len(IntegerBody) % Chunk = 0 THEN Chunk ELSE Len(IntegerBody) % Chunk
  /\ UNCHANGED <<textRequest, textAnswer, scan, keep, first, discarded, tail_nonzero>>

AtChunk == textStage = "chunk" /\ pos <= Len(IntegerBody)
ChunkText == SubSeq(IntegerBody, pos, pos + index - 1)
ChunkIsNumber == \A k \in DOMAIN ChunkText : Character(ChunkText[k])
ChunkValue == FoldLeft(LAMBDA v, c : v * DigitBase + c, 0, ChunkText)

\* Mutant: the product is checked, the sum is not.
ChunkUnchecked == accumulator > IntegerLimit \div DigitBase ^ Chunk

\* The product's upper limbs are looked at too, though they are zero by then.
ChunkOverflows ==
  LET product == accumulator * DigitBase ^ Chunk
  IN \/ accumulator > IntegerLimit \div DigitBase ^ Chunk
     \/ product \div 2 ^ bits # 0
     \/ product % 2 ^ bits > IntegerLimit - ChunkValue

RejectChunk == AtChunk /\ ~ChunkIsNumber /\ Refused("invalid")
RejectIntegerRange == AtChunk /\ ChunkIsNumber /\ ChunkOverflows /\ Refused("overflow")

TakeChunk ==
  /\ AtChunk /\ ChunkIsNumber /\ ~ChunkOverflows
  /\ accumulator' = accumulator * DigitBase ^ Chunk + ChunkValue
  /\ pos' = pos + index /\ index' = Chunk
  /\ UNCHANGED <<textRequest, textAnswer, textStage, scan, keep,
                 first, discarded, tail_nonzero>>

IntegerRead ==
  /\ textStage = "chunk" /\ pos > Len(IntegerBody)
  /\ Replied("none", IF NegativeInteger THEN -accumulator ELSE accumulator, <<>>)
  /\ UNCHANGED <<textRequest, scan, keep, loop>>

-----------------------------------------------------------------------------
(* format_integer.                                                         *)

WriteInteger ==
  /\ textStage = "begin" /\ textRequest.op = "format_integer"
  /\ LET t == (IF textRequest.raw < 0 THEN <<ET!Minus>> ELSE <<>>)
                \o IntegerDigits(RT!Magnitude(textRequest.raw))
     IN IF textRequest.options.capacity < Len(t)
          THEN Replied("buffer_too_small", 0, <<>>) ELSE Replied("none", 0, t)
  /\ UNCHANGED <<textRequest, scan, keep, loop>>

IntegerNext ==
  \/ TextNext
  \/ CallInteger \/ RejectEmptyInteger \/ RejectSign \/ StartInteger
  \/ RejectChunk \/ RejectIntegerRange \/ TakeChunk \/ IntegerRead
  \/ WriteInteger

TextSpec == TextInit /\ [][IntegerNext]_textVars

\* ImplementsExactText, checked of TextSpec, is about integers too: whatever the
\* chunks are, the number read is the text's or its error is.
=============================================================================
