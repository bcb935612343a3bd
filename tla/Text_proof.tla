----------------------------- MODULE Text_proof ------------------------------
(***************************************************************************)
(* Proofs about the texts: the reader of transactions stays within its     *)
(* buffers, and an amount on the screen within its own; numbers, amounts,  *)
(* fees, lengths, validities and origins are what is shown of them; for    *)
(* all texts, fields, widths and sizes.                                    *)
(***************************************************************************)
EXTENDS TextProperties, SequenceTheorems, WellFoundedInduction, TLAPS

(***************************************************************************)
(* The reader.  The value is empty before it begins, so that what is read  *)
(* of it is its own.                                                       *)
(***************************************************************************)
ReaderInv ==
    /\ BuffersHold
    /\ status = "JSON_EXPECTING_VALUE" => current_value_len = 0 /\ current_value = << >>
    /\ text \in Seq(Char) /\ pos \in Nat

(* The characters that are there are characters.                           *)
LEMMA NextCharacter ==
    ASSUME ReaderInv, pos < Len(text)
    PROVE  text[pos + 1] \in Char
<1>1. Len(text) \in Nat /\ pos \in Nat
  BY LenProperties DEF ReaderInv
<1>2. pos + 1 \in 1 .. Len(text)
  BY <1>1
<1>3. QED
  BY <1>2, ElementOfSeq DEF ReaderInv

(* A name of the length of the name of the data that is a prefix of it is  *)
(* that name.                                                              *)
LEMMA OnlyDataIsCounted ==
    ASSUME BuffersHold, MayOnlyCount
    PROVE  name_read = DATA_FIELD
<1>1. DATA_FIELD \in Seq(Char) /\ Len(DATA_FIELD) \in Nat
  BY JsonTextAssumption, LenProperties
<1>2. current_field \in Seq(Char) /\ Len(current_field) = MAX_FIELD_LEN
  BY IsASeq, LenProperties, JsonTextAssumption DEF BuffersHold
<1>3. Len(name_read) = current_field_len /\ name_read \in Seq(Char)
  BY <1>2, SubSeqProperties, JsonTextAssumption DEF name_read, BuffersHold
<1>4. SubSeq(name_read, 1, Len(name_read)) = SubSeq(DATA_FIELD, 1, Len(name_read))
  BY DEF MayOnlyCount, is_data_field, IsPrefix
<1>5. Len(name_read) = Len(DATA_FIELD)
  BY <1>3 DEF MayOnlyCount
<1>6. QED
  BY <1>1, <1>3, <1>4, <1>5, SubSeqFull

NameOK ==
    /\ current_field \in [1 .. MAX_FIELD_LEN -> Char]
    /\ current_field_len \in 0 .. MAX_FIELD_LEN
ValueOK ==
    /\ current_value \in Seq(Char) /\ current_value_len \in Nat
    /\ Len(current_value) =
          IF current_value_len < MAX_VALUE_LEN THEN current_value_len ELSE MAX_VALUE_LEN
OnlyDataIsLonger == current_value_len > MAX_VALUE_LEN => name_read = DATA_FIELD

(* A character is written where there is room for it.                      *)
LEMMA ValueGrows ==
    ASSUME ValueOK, NEW c \in Char, current_value_len < MAX_VALUE_LEN,
           current_value' = Append(current_value, c), current_value_len' = current_value_len + 1
    PROVE  ValueOK' /\ current_value_len' <= MAX_VALUE_LEN
<1>1. MAX_VALUE_LEN \in Nat /\ current_value_len \in Nat /\ Len(current_value) = current_value_len
  BY JsonTextAssumption DEF ValueOK
<1>2. current_value' \in Seq(Char) /\ Len(current_value') = Len(current_value) + 1
  BY AppendProperties DEF ValueOK
<1>3. current_value_len' <= MAX_VALUE_LEN /\ current_value_len' \in Nat
  BY <1>1
<1>4. Len(current_value') = IF current_value_len' < MAX_VALUE_LEN THEN current_value_len'
                            ELSE MAX_VALUE_LEN
  BY <1>1, <1>2, <1>3
<1>5. QED
  BY <1>2, <1>3, <1>4 DEF ValueOK

(* process_field ends the value with a zero if there is room for it.       *)
LEMMA FieldProcessed ==
    ASSUME ValueOK, NEW next, NEW refused, process_field(next, refused)
    PROVE  /\ ValueOK'
           /\ current_value_len' = current_value_len \/ current_value_len' <= MAX_VALUE_LEN
           /\ status' \in {next, refused}
<1>1. Zero \in Char
  BY JsonTextAssumption
<1>2. CASE KeepValue
  BY <1>2 DEF KeepValue, ValueOK, process_field, Go
<1>3. CASE ~KeepValue
  <2>1. TerminateValue
    BY <1>3 DEF process_field
  <2>2. ValueOK' /\ current_value_len' <= MAX_VALUE_LEN
    BY <1>1, <1>3, <2>1, ValueGrows DEF TerminateValue
  <2>3. QED
    BY <2>2 DEF process_field, Go
<1>4. QED
  BY <1>2, <1>3

(* Punctuation moves on or refuses.                                        *)
LEMMA PunctuationMoves ==
    ASSUME NEW from, NEW sign, NEW to, Punctuation(from, sign, to)
    PROVE  status = from /\ status' \in {from, to}
BY DEF Punctuation, Go, Refuse

(* Every character handled stays within the buffers (parse_data).          *)
LEMMA CharacterHolds ==
    ASSUME ReaderInv, Character
    PROVE  ReaderInv'
<1> DEFINE c == text[pos + 1]
           Holds == /\ NameOK' /\ ValueOK'
                    /\ status' \in ReadingValue => OnlyDataIsLonger'
                    /\ status' = "JSON_EXPECTING_VALUE" =>
                          current_value_len' = 0 /\ current_value' = << >>
<1>0. SUFFICES Holds
  <2>1. text' = text /\ pos' = pos + 1
    BY DEF Character
  <2>2. QED
    BY <2>1 DEF ReaderInv, BuffersHold, NameOK, ValueOK, OnlyDataIsLonger
<1>1. c \in Char
  BY NextCharacter DEF Character
<1>2. NameOK /\ ValueOK /\ BuffersHold
  BY DEF ReaderInv, BuffersHold, NameOK, ValueOK
<1>3. MAX_FIELD_LEN \in Nat \ {0} /\ MAX_VALUE_LEN \in Nat \ {0}
  BY JsonTextAssumption
<1>4. ASSUME KeepName
      PROVE  NameOK' /\ name_read' = name_read
  BY <1>2, <1>4 DEF KeepName, NameOK, name_read
<1>5. ASSUME KeepValue
      PROVE  ValueOK' /\ current_value_len' = current_value_len /\ current_value' = current_value
  BY <1>2, <1>5 DEF KeepValue, ValueOK
<1>6. current_value_len' \in Nat /\ current_value_len' <= MAX_VALUE_LEN => OnlyDataIsLonger'
  BY <1>3 DEF OnlyDataIsLonger
<1>7. status \in ReadingValue => OnlyDataIsLonger
  BY <1>2 DEF BuffersHold, OnlyDataIsLonger
<1> HIDE DEF c
<1>8. CASE Idle
  <2>1. KeepName /\ KeepValue /\ status' \in {"JSON_IDLE", "JSON_EXPECTING_FIELD"}
    BY <1>8, PunctuationMoves DEF Idle
  <2>2. QED
    BY <1>4, <1>5, <2>1 DEF ReadingValue
<1>9. CASE ExpectingField
  <2>1. NameOK'
    BY <1>2, <1>3, <1>9 DEF ExpectingField, NameOK
  <2>2. QED
    BY <1>5, <1>9, <2>1, PunctuationMoves DEF ExpectingField, ReadingValue
<1>10. CASE ExpectingColon
  <2>1. CASE c = ":"
    <3>1. current_value' = << >> /\ current_value_len' = 0
      BY <1>10, <2>1 DEF ExpectingColon, c
    <3>2. ValueOK'
      BY <1>3, <3>1, EmptySeq DEF ValueOK
    <3>3. QED
      BY <1>4, <1>6, <1>10, <3>1, <3>2, <1>3, PunctuationMoves DEF ExpectingColon
  <2>2. CASE c # ":"
    <3>1. KeepValue /\ status' = "JSON_EXPECTING_COLON"
      BY <1>10, <2>2 DEF ExpectingColon, Punctuation, Refuse, c
    <3>2. QED
      BY <1>4, <1>5, <1>10, <3>1 DEF ExpectingColon, ReadingValue
  <2>3. QED
    BY <2>1, <2>2
<1>11. CASE ProcessingField
  <2>1. ValueOK' /\ status' \in {"JSON_PROCESSING_FIELD", "JSON_EXPECTING_COLON"}
    BY <1>5, <1>11 DEF ProcessingField, Go, Refuse
  <2>2. CASE KeepName
    BY <1>4, <2>1, <2>2 DEF ReadingValue
  <2>3. CASE ~KeepName
    <3>1. /\ current_field_len < MAX_FIELD_LEN
          /\ current_field' = [current_field EXCEPT ![current_field_len + 1] = c]
          /\ current_field_len' = current_field_len + 1
      BY <1>11, <2>3 DEF ProcessingField, c
    <3>2. NameOK'
      BY <1>1, <1>2, <1>3, <3>1 DEF NameOK
    <3>3. QED
      BY <2>1, <3>2 DEF ReadingValue
  <2>4. QED
    BY <2>2, <2>3
<1>12. CASE ExpectingValue
  <2>1. NameOK' /\ current_value_len = 0
    BY <1>4, <1>12 DEF ExpectingValue, ReaderInv
  <2>2. CASE KeepValue
    BY <1>3, <1>5, <1>6, <2>1, <2>2, <1>12 DEF ReaderInv, ExpectingValue
  <2>3. CASE ~KeepValue
    <3>1. AppendToValue(c) /\ status' = "JSON_PROCESSING_NUMERIC_VALUE"
      BY <1>12, <2>3 DEF ExpectingValue, c
    <3>2. ValueOK' /\ current_value_len' <= MAX_VALUE_LEN
      BY <1>1, <1>2, <1>3, <2>1, <3>1, ValueGrows DEF AppendToValue
    <3>3. QED
      BY <1>6, <2>1, <3>1, <3>2 DEF ValueOK
  <2>4. QED
    BY <2>2, <2>3
<1>13. ASSUME status \in ReadingValue, KeepName, AppendToValue(c), UNCHANGED status,
              current_value_len < MAX_VALUE_LEN
       PROVE  Holds
  BY <1>1, <1>2, <1>4, <1>6, <1>13, ValueGrows DEF AppendToValue, ReadingValue, ValueOK
<1>14. ASSUME NEW next, NEW refused, process_field(next, refused), KeepName,
              status \in ReadingValue, next # "JSON_EXPECTING_VALUE",
              refused # "JSON_EXPECTING_VALUE"
       PROVE  Holds
  <2>1. /\ ValueOK'
        /\ current_value_len' = current_value_len \/ current_value_len' <= MAX_VALUE_LEN
        /\ status' \in {next, refused}
    BY <1>2, <1>14, FieldProcessed
  <2>2. OnlyDataIsLonger'
    BY <1>4, <1>6, <1>7, <1>14, <2>1 DEF OnlyDataIsLonger, ValueOK
  <2>3. QED
    BY <1>4, <1>14, <2>1, <2>2
<1>15. ASSUME status \in ReadingValue, KeepName, KeepValue, Refuse
       PROVE  Holds
  BY <1>4, <1>5, <1>7, <1>15 DEF Refuse, OnlyDataIsLonger, ReadingValue
<1>16. CASE ProcessingStringValue
  <2>1. KeepName /\ status \in ReadingValue /\ status # "JSON_EXPECTING_VALUE"
    BY <1>16 DEF ProcessingStringValue, ReadingValue
  <2>2. CASE process_field("JSON_EXPECTING_COMMA", status)
    BY <1>14, <2>1, <2>2
  <2>3. CASE AppendToValue(c) /\ UNCHANGED status /\ current_value_len < MAX_VALUE_LEN
    BY <1>13, <2>1, <2>3
  <2>4. CASE /\ current_value_len >= MAX_VALUE_LEN /\ MayOnlyCount
             /\ current_value_len' = current_value_len + 1
             /\ UNCHANGED <<ret, status, stored, current_value>>
    <3>1. OnlyDataIsLonger'
      BY <1>2, <1>4, <2>1, <2>4, OnlyDataIsCounted DEF OnlyDataIsLonger
    <3>2. ValueOK'
      BY <1>2, <1>3, <2>4 DEF ValueOK
    <3>3. QED
      BY <1>4, <2>1, <2>4, <3>1, <3>2
  <2>5. CASE Refuse /\ KeepValue
    BY <1>15, <2>1, <2>5
  <2>6. QED
    BY <1>16, <2>2, <2>3, <2>4, <2>5 DEF ProcessingStringValue, c
<1>17. CASE ProcessingNumericValue
  <2>1. KeepName /\ status \in ReadingValue /\ status # "JSON_EXPECTING_VALUE"
    BY <1>17 DEF ProcessingNumericValue, ReadingValue
  <2>2. CASE process_field("JSON_IDLE", "JSON_IDLE")
    BY <1>14, <2>1, <2>2
  <2>3. CASE process_field("JSON_EXPECTING_FIELD", status)
    BY <1>14, <2>1, <2>3
  <2>4. CASE AppendToValue(c) /\ UNCHANGED status /\ current_value_len < MAX_VALUE_LEN
    BY <1>13, <2>1, <2>4
  <2>5. CASE Refuse /\ KeepValue
    BY <1>15, <2>1, <2>5
  <2>6. QED
    BY <1>17, <2>2, <2>3, <2>4, <2>5 DEF ProcessingNumericValue, c
<1>18. CASE ExpectingComma
  <2>1. status' \in {"JSON_EXPECTING_COMMA", "JSON_IDLE", "JSON_EXPECTING_FIELD"} /\ Keep
    BY <1>18 DEF ExpectingComma, Go, Refuse
  <2>2. QED
    BY <1>4, <1>5, <2>1 DEF Keep, ReadingValue
<1>19. QED
  BY <1>8, <1>9, <1>10, <1>11, <1>12, <1>16, <1>17, <1>18 DEF Character

(* The reader of transactions stays within its buffers, and only of data   *)
(* is more counted than kept, for all texts and all ways to cut them       *)
(* (parse_data, process_field).                                            *)
THEOREM ReaderStaysInBuffers == TextSpec => []BuffersHold
<1>1. TextInit => ReaderInv
  BY JsonTextAssumption, EmptySeq
     DEF TextInit, JsonInit, ReaderInv, BuffersHold, Zero, ReadingValue
<1>2. ASSUME ReaderInv, [TextNext]_tvars
      PROVE  ReaderInv'
  <2>1. CASE Character
    BY <1>2, <2>1, CharacterHolds
  <2>2. CASE NextChunk \/ UNCHANGED tvars
    BY <1>2, <2>2 DEF NextChunk, KeepName, KeepValue, tvars, jvars, ReaderInv, BuffersHold,
                      name_read
  <2>3. ASSUME NEW d \in Document, StartText(d)
        PROVE  ReaderInv'
    <3>1. d.text \in Seq(Char)
      BY DocumentAssumption, JsonTextAssumption
    <3>2. QED
      BY <1>2, <2>3, <3>1, EmptySeq, JsonTextAssumption
         DEF StartText, FirstChunk, ReaderInv, BuffersHold, ReadingValue
  <2>4. QED
    BY <1>2, <2>1, <2>2, <2>3 DEF TextNext, ReadOn, Computed
<1>3. ReaderInv => BuffersHold
  BY DEF ReaderInv
<1>4. QED
  BY <1>1, <1>2, <1>3, PTL DEF TextSpec

(***************************************************************************)
(* Amounts on the screen.                                                  *)
(***************************************************************************)
(* A set of naturals with a bound has a largest member.                    *)
LEMMA LargestMember ==
    ASSUME NEW n \in Nat, NEW I, I \subseteq 0 .. n, I # {}
    PROVE  Max(I) \in I /\ \A i \in I : Max(I) >= i
<1> DEFINE T == {n - i : i \in I}
           R == OpToRel(<, Nat)
<1>1. T \subseteq Nat /\ T # {}
  <2>1. \A i \in I : n - i \in Nat
    OBVIOUS
  <2>2. PICK i \in I : TRUE
    OBVIOUS
  <2>3. n - i \in T
    OBVIOUS
  <2>4. QED
    BY <2>1, <2>3
<1>2. PICK x \in T : \A y \in T : <<y, x>> \notin R
  <2> HIDE DEF T, R
  <2>1. IsWellFoundedOn(R, Nat)
    BY NatLessThanWellFounded DEF R
  <2>2. QED
    BY <1>1, <2>1, WFMin
<1>3. \A y \in T : ~(y < x)
  BY <1>1, <1>2 DEF OpToRel
<1>4. PICK m \in I : x = n - m
  BY <1>2
<1>5. \A i \in I : m >= i
  <2>1. ASSUME NEW i \in I
        PROVE  m >= i
    <3>1. n - i \in T /\ ~(n - i < n - m)
      BY <1>3, <1>4
    <3>2. QED
      BY <3>1
  <2>2. QED
    BY <2>1
<1>6. QED
  BY <1>5 DEF Max

(* A piece of a text is as long as its ends are apart.                     *)
LEMMA PieceLengths ==
    ASSUME NEW written \in Seq(Nat), NEW n \in 0 .. Len(written), NEW m \in 0 .. n
    PROVE  SubSeq(written, m + 1, n) \in Seq(Nat) /\ Len(SubSeq(written, m + 1, n)) = n - m
<1>1. Len(written) \in Nat /\ m + 1 \in Int /\ n \in Int /\ m \in Nat /\ n \in Nat
  BY LenProperties
<1>2. \A i \in m + 1 .. n : written[i] \in Nat
  BY <1>1, ElementOfSeq
<1>3. (IF m + 1 <= n THEN n - (m + 1) + 1 ELSE 0) = n - m
  BY <1>1
<1>4. QED
  BY <1>1, <1>2, <1>3, SubSeqProperties

(* Zeros and a dot are taken away, nothing is added.                       *)
LEMMA TrimmedIsShorter ==
    ASSUME NEW written \in Seq(Nat)
    PROVE  Len(TrimDot(TrimZeros(written))) \in Nat /\ Len(TrimDot(TrimZeros(written))) <= Len(written)
<1> DEFINE I == {i \in 1 .. Len(written) : written[i] # 0}
           k == IF I # {} THEN Max(I) ELSE 0
           trimmed == SubSeq(written, 1, k)
<1>1. Len(written) \in Nat
  BY LenProperties
<1>2. k \in 0 .. Len(written)
  <2>1. I \subseteq 0 .. Len(written)
    BY <1>1
  <2> HIDE DEF I
  <2>2. CASE I = {}
    BY <1>1, <2>2
  <2>3. CASE I # {}
    <3>1. Max(I) \in I
      BY <1>1, <2>1, <2>3, LargestMember
    <3>2. QED
      BY <2>1, <2>3, <3>1
  <2>4. QED
    BY <2>2, <2>3
<1>3. LastNot(0, written) = k
  BY DEF LastNot, SelectLastInSeq
<1> HIDE DEF k
<1>4. k \in Nat /\ 0 + 1 = 1 /\ 0 \in 0 .. k /\ k - 0 = k
  BY <1>1, <1>2
<1>5. trimmed \in Seq(Nat) /\ Len(trimmed) = k
  BY <1>2, <1>4, PieceLengths
<1>6. TrimZeros(written) = trimmed
  BY <1>3 DEF TrimZeros
<1> HIDE DEF trimmed
<1>7. Len(Front(trimmed)) \in Nat /\ Len(Front(trimmed)) <= k
  <2>1. CASE k = 0
    <3>1. Front(trimmed) = << >>
      BY <1>5, <2>1, SubSeqEmpty DEF Front
    <3>2. QED
      BY <2>1, <3>1, EmptySeq
  <2>2. CASE k # 0
    <3>1. k - 1 \in 0 .. Len(trimmed) /\ 0 \in 0 .. k - 1 /\ k - 1 - 0 = k - 1 /\ k - 1 <= k
      BY <1>4, <1>5, <2>2
    <3>2. Len(SubSeq(trimmed, 0 + 1, k - 1)) = k - 1 - 0
      BY <1>5, <3>1, PieceLengths
    <3>3. QED
      BY <1>4, <1>5, <3>1, <3>2 DEF Front
  <2>3. QED
    BY <2>1, <2>2
<1>8. QED
  BY <1>1, <1>2, <1>5, <1>6, <1>7 DEF TrimDot

(* A text after another: the two lengths are added.                        *)
LEMMA JoinedLength ==
    ASSUME NEW left \in Seq(Nat), NEW right \in Seq(Nat)
    PROVE  left \o right \in Seq(Nat) /\ Len(left \o right) = Len(left) + Len(right)
  BY ConcatProperties

(* The dot is one character more, wherever it stands among the digits.     *)
LEMMA DottedLength ==
    ASSUME NEW digits \in Seq(Nat), NEW decimals \in Nat, decimals <= Len(digits)
    PROVE  WithDot(digits, decimals) \in Seq(Nat)
           /\ Len(WithDot(digits, decimals)) = Len(digits) + 1
<1> DEFINE dotPos == Len(digits) - decimals
           whole == SubSeq(digits, 1, dotPos)
           decimal == SubSeq(digits, dotPos + 1, Len(digits))
           front == whole \o <<Dot>>
<1>1. /\ Len(digits) \in Nat /\ dotPos \in 0 .. Len(digits) /\ 0 \in 0 .. dotPos
      /\ Len(digits) \in 0 .. Len(digits) /\ Len(digits) - dotPos = decimals
      /\ dotPos \in Nat /\ dotPos + 1 + decimals = Len(digits) + 1
  BY LenProperties
<1>2. WithDot(digits, decimals) = front \o decimal
  BY DEF WithDot
<1> HIDE DEF dotPos
<1>3. whole \in Seq(Nat) /\ Len(whole) = dotPos
  <2>1. 0 + 1 = 1 /\ dotPos - 0 = dotPos
    BY <1>1
  <2>2. QED
    BY <1>1, <2>1, PieceLengths
<1>4. decimal \in Seq(Nat) /\ Len(decimal) = decimals
  BY <1>1, PieceLengths
<1>5. <<Dot>> \in Seq(Nat) /\ Len(<<Dot>>) = 1
  BY DEF Dot
<1> HIDE DEF whole, decimal
<1>6. front \in Seq(Nat) /\ Len(front) = dotPos + 1
  BY <1>3, <1>5, JoinedLength
<1> HIDE DEF front
<1>7. front \o decimal \in Seq(Nat) /\ Len(front \o decimal) = dotPos + 1 + decimals
  <2>1. /\ front \o decimal \in Seq(Nat)
        /\ Len(front \o decimal) = Len(front) + Len(decimal)
    BY <1>4, <1>6, JoinedLength
  <2>2. QED
    BY <1>4, <1>6, <2>1
<1>8. QED
  BY <1>1, <1>2, <1>7

(* What a text of make_amount_pretty takes: the digits, those added in     *)
(* front of them and the dot, then the final zero or the space, the ticker *)
(* and the final zero.                                                     *)
LEMMA PrettySize ==
    ASSUME NEW amount \in Seq(Nat), NEW max_size \in Nat, NEW ticker_len \in Nat,
           NEW decimals \in Nat, make_amount_pretty(amount, max_size, ticker_len, decimals).ok
    PROVE  /\ Len(amount) + PRETTY_SIZE < max_size
           /\ make_amount_pretty(amount, max_size, ticker_len, decimals).size \in Nat
           /\ make_amount_pretty(amount, max_size, ticker_len, decimals).size
                 <= (IF decimals + 1 > Len(amount) THEN decimals + 1 ELSE Len(amount))
                       + 3 + ticker_len
<1> DEFINE missing == Missing(Len(amount), decimals)
           padded == Zeros(missing) \o amount
           untrimmed == WithDot(padded, decimals)
           written == TrimDot(TrimZeros(untrimmed))
           length == IF decimals + 1 > Len(amount) THEN decimals + 1 ELSE Len(amount)
<1>1. Len(amount) \in Nat /\ PRETTY_SIZE \in Nat
  BY LenProperties, NumbersAssumption
<1>2. missing \in Nat /\ missing + Len(amount) = length
  BY <1>1 DEF Missing
<1>3. Zeros(missing) \in Seq(Nat) /\ Len(Zeros(missing)) = missing
  <2>1. Zeros(missing) \in [1 .. missing -> Nat]
    BY DEF Zeros
  <2> HIDE DEF missing
  <2>2. QED
    BY <1>2, <2>1, IsASeq, LenProperties
<1> HIDE DEF missing
<1>4. padded \in Seq(Nat) /\ Len(padded) = length
  BY <1>1, <1>2, <1>3, ConcatProperties
<1> HIDE DEF padded
<1>5. length \in Nat /\ decimals <= length
  BY <1>1
<1> HIDE DEF length
<1>6. WithDot(padded, decimals) \in Seq(Nat) /\ Len(WithDot(padded, decimals)) = length + 1
  BY <1>4, <1>5, DottedLength
<1>7. Len(written) \in Nat /\ Len(written) <= length + 1
  BY <1>6, TrimmedIsShorter
<1>8. /\ ~TooBig(Len(amount), max_size)
      /\ make_amount_pretty(amount, max_size, ticker_len, decimals).size
            = Longer(Len(untrimmed) + 1, Len(written) + 1 + ticker_len + 1)
  BY DEF make_amount_pretty, written, untrimmed, missing, padded
<1> HIDE DEF written
<1>9. Len(untrimmed) = length + 1
  BY <1>6
<1> HIDE DEF untrimmed
<1>10. QED
  BY <1>1, <1>5, <1>7, <1>8, <1>9 DEF TooBig, Longer, length

(* An amount that make_amount_pretty accepts stays in its buffer, whatever *)
(* the sizes of the buffer and of suffix: with any ticker that suffix has  *)
(* room for, and any decimals that leave the room PRETTY_SIZE stands for.  *)
(* Both conditions are part of PrettyFits; neither holds of every ticker   *)
(* and all decimals that esdt_info takes.                                  *)
THEOREM AmountStaysInBuffer ==
    ASSUME AmountSize \in Nat, NoInput.kind # "pretty",
           \A i \in Input : i.kind = "pretty" =>
               /\ i.amount \in Seq(Nat) /\ i.decimals \in Nat
               /\ i.ticker_len \in Nat
    PROVE  TextSpec => []PrettyFits
<1> DEFINE InputOK == input \in Input \cup {NoInput}
<1>1. InputOK => PrettyFits
  <2>1. SUFFICES ASSUME InputOK, Is("pretty"), PrettyInput.ok, ~PrettyInput.overrun,
                        input.decimals <= AmountSize - PRETTY_SIZE - 2
                 PROVE  PrettyInput.size <= AmountSize
    BY DEF PrettyFits
  <2>2. /\ input.amount \in Seq(Nat) /\ input.decimals \in Nat
        /\ input.ticker_len \in Nat /\ input.ticker_len + 2 <= PRETTY_SIZE
    <3>1. /\ input.amount \in Seq(Nat) /\ input.decimals \in Nat
          /\ input.ticker_len \in Nat
      BY <2>1 DEF Is
    <3>2. ~OverrunsSuffix(input.ticker_len)
      BY <2>1 DEF PrettyInput, make_amount_pretty
    <3>3. QED
      BY <3>1, <3>2, NumbersAssumption DEF OverrunsSuffix
  <2> DEFINE length == IF input.decimals + 1 > Len(input.amount) THEN input.decimals + 1
                       ELSE Len(input.amount)
  <2>3. /\ Len(input.amount) + PRETTY_SIZE < AmountSize
        /\ PrettyInput.size <= length + 3 + input.ticker_len
    BY <2>1, <2>2, PrettySize DEF PrettyInput
  <2>4. Len(input.amount) \in Nat /\ PRETTY_SIZE \in Nat
    BY <2>2, LenProperties, NumbersAssumption
  <2>5. length + 1 + PRETTY_SIZE <= AmountSize
    BY <2>1, <2>2, <2>3, <2>4
  <2>6. PrettyInput.size \in Nat
    BY <2>1, <2>2, PrettySize DEF PrettyInput
  <2>7. length \in Nat
    BY <2>2, <2>4
  <2> HIDE DEF length
  <2>8. QED
    BY <2>2, <2>3, <2>4, <2>5, <2>6, <2>7
<1>2. TextInit => InputOK
  BY DEF TextInit
<1>3. InputOK /\ [TextNext]_tvars => InputOK'
  BY DEF TextNext, Computed, tvars
<1> HIDE DEF InputOK
<1>4. QED
  BY <1>1, <1>2, <1>3, PTL DEF TextSpec

(***************************************************************************)
(* Numbers.                                                                *)
(***************************************************************************)
(* A set that holds zero and the successor of each of its numbers holds    *)
(* all natural numbers.                                                    *)
LEMMA NatSetInduction ==
    ASSUME NEW S, 0 \in S, \A n \in Nat : n \in S => n + 1 \in S
    PROVE  \A n \in Nat : n \in S
<1> DEFINE T == {n \in Nat : n \notin S}
           R == OpToRel(<, Nat)
<1>1. CASE T # {}
  <2>1. PICK x \in T : \A y \in T : <<y, x>> \notin R
    <3> HIDE DEF R
    <3>1. IsWellFoundedOn(R, Nat)
      BY NatLessThanWellFounded DEF R
    <3>2. T \subseteq Nat
      OBVIOUS
    <3> HIDE DEF T
    <3>3. QED
      BY <1>1, <3>1, <3>2, WFMin
  <2>2. x \in Nat /\ x # 0 /\ x \notin S
    OBVIOUS
  <2>3. x - 1 \in Nat /\ x - 1 < x /\ (x - 1) + 1 = x
    BY <2>2
  <2>4. x - 1 \notin T
    BY <2>1, <2>2, <2>3 DEF OpToRel
  <2>5. QED
    BY <2>2, <2>3, <2>4
<1>2. QED
  BY <1>1

(* The values of what starts with one and takes a step for each item.      *)
HasValues(State, first, n, step) ==
    \E d \in [0 .. n -> State] :
        d[0] = first /\ \A k \in 1 .. n : d[k] = step[k][d[k - 1]]

(* What is made of a text item by item has a value after each item.        *)
LEMMA ItemByItem ==
    ASSUME NEW State, NEW first \in State, NEW n \in Nat,
           NEW step \in [1 .. n -> [State -> State]]
    PROVE  HasValues(State, first, n, step)
<1> DEFINE Good(m, d) == /\ d[0] = first
                         /\ \A k \in 1 .. n : k <= m => d[k] = step[k][d[k - 1]]
           S == {m \in Nat : \E d \in [0 .. n -> State] : Good(m, d)}
<1>1. 0 \in S
  <2>1. [k \in 0 .. n |-> first] \in [0 .. n -> State] /\ Good(0, [k \in 0 .. n |-> first])
    OBVIOUS
  <2>2. QED
    BY <2>1
<1>2. ASSUME NEW m \in Nat, m \in S
      PROVE  m + 1 \in S
  <2>1. PICK d \in [0 .. n -> State] : Good(m, d)
    BY <1>2
  <2>2. CASE m + 1 \in 1 .. n
    <3> DEFINE e == [d EXCEPT ![m + 1] = step[m + 1][d[m]]]
    <3>1. d[m] \in State /\ step[m + 1][d[m]] \in State
      BY <2>2
    <3>2. /\ e \in [0 .. n -> State] /\ e[m + 1] = step[m + 1][d[m]]
          /\ \A k \in 0 .. n : k # m + 1 => e[k] = d[k]
      BY <2>2, <3>1
    <3> HIDE DEF e
    <3>3. Good(m + 1, e)
      <4>1. e[0] = first
        BY <2>1, <2>2, <3>2
      <4>2. ASSUME NEW k \in 1 .. n, k <= m + 1
            PROVE  e[k] = step[k][e[k - 1]]
        <5>1. k - 1 \in 0 .. n /\ k - 1 # m + 1 /\ k \in 0 .. n
          BY <4>2
        <5>2. e[k - 1] = d[k - 1]
          BY <3>2, <5>1
        <5>3. CASE k = m + 1
          <6>1. k - 1 = m
            BY <5>3
          <6>2. QED
            BY <3>2, <5>2, <5>3, <6>1
        <5>4. CASE k # m + 1
          <6>1. e[k] = d[k] /\ k <= m
            BY <3>2, <4>2, <5>1, <5>4
          <6>2. QED
            BY <2>1, <5>2, <6>1
        <5>5. QED
          BY <5>3, <5>4
      <4>3. QED
        BY <4>1, <4>2
    <3>4. QED
      BY <3>2, <3>3
  <2>3. CASE m + 1 \notin 1 .. n
    <3>1. Good(m + 1, d)
      BY <2>1, <2>3
    <3>2. QED
      BY <3>1
  <2>4. QED
    BY <2>2, <2>3
<1>3. n \in S
  <2> HIDE DEF S
  <2>1. QED
    BY <1>1, <1>2, NatSetInduction
<1>4. PICK d \in [0 .. n -> State] : Good(n, d)
  BY <1>3
<1>5. QED
  BY <1>4 DEF HasValues

(* The numbers that the beginnings of a sequence of digits write.          *)
LEMMA NumberSteps ==
    ASSUME NEW digits \in Seq(Nat), NEW base \in Nat
    PROVE  LET f == NumbersOf(digits, base)
           IN  /\ f \in [0 .. Len(digits) -> Nat] /\ f[0] = 0
               /\ \A k \in 1 .. Len(digits) : f[k] = f[k - 1] * base + digits[k]
<1> DEFINE step == [k \in 1 .. Len(digits) |-> [n \in Nat |-> n * base + digits[k]]]
           Is1(d) == d = [k \in 0 .. Len(digits) |-> IF k = 0 THEN 0 ELSE d[k - 1] * base + digits[k]]
<1>1. Len(digits) \in Nat /\ \A k \in 1 .. Len(digits) : digits[k] \in Nat
  BY LenProperties, ElementOfSeq
<1>2. step \in [1 .. Len(digits) -> [Nat -> Nat]]
  BY <1>1
<1>3. \A n \in Nat, k \in 1 .. Len(digits) : step[k][n] = n * base + digits[k]
  OBVIOUS
<1> HIDE DEF step
<1>4. PICK d \in [0 .. Len(digits) -> Nat] :
          d[0] = 0 /\ \A k \in 1 .. Len(digits) : d[k] = step[k][d[k - 1]]
  <2>1. 0 \in Nat /\ Len(digits) \in Nat
    BY <1>1
  <2>2. HasValues(Nat, 0, Len(digits), step)
    BY <1>2, <2>1, ItemByItem
  <2>3. QED
    BY <2>2 DEF HasValues
<1>5. ASSUME NEW k \in 1 .. Len(digits)
      PROVE  d[k] = d[k - 1] * base + digits[k]
  <2>1. k - 1 \in 0 .. Len(digits)
    BY <1>1
  <2>2. d[k] = step[k][d[k - 1]] /\ d[k - 1] \in Nat
    BY <1>4, <2>1
  <2>3. QED
    BY <1>3, <2>2
<1>6. d[0] = 0
  BY <1>4
<1>7. Is1(d)
  <2>1. d = [k \in 0 .. Len(digits) |-> d[k]]
    BY <1>4
  <2>2. ASSUME NEW k \in 0 .. Len(digits)
        PROVE  d[k] = IF k = 0 THEN 0 ELSE d[k - 1] * base + digits[k]
    BY <1>1, <1>5, <1>6
  <2>3. QED
    BY <2>1, <2>2
<1>8. Is1(NumbersOf(digits, base))
  BY <1>7 DEF NumbersOf
<1> DEFINE f == NumbersOf(digits, base)
           S == {k \in Nat : k <= Len(digits) => f[k] \in Nat}
<1>9. f[0] = 0 /\ \A k \in 1 .. Len(digits) : f[k] = f[k - 1] * base + digits[k]
  <2>1. 0 \in 0 .. Len(digits) /\ \A k \in 1 .. Len(digits) : k \in 0 .. Len(digits) /\ k # 0
    BY <1>1
  <2>2. QED
    BY <1>8, <2>1
<1>10. f = [k \in 0 .. Len(digits) |-> f[k]]
  BY <1>8
<1> HIDE DEF f
<1>11. 0 \in S
  BY <1>9
<1>12. ASSUME NEW k \in Nat, k \in S
       PROVE  k + 1 \in S
  <2>1. SUFFICES ASSUME k + 1 <= Len(digits)
                 PROVE  f[k + 1] \in Nat
    OBVIOUS
  <2>2. k + 1 \in 1 .. Len(digits) /\ k <= Len(digits) /\ (k + 1) - 1 = k
    BY <1>1, <2>1
  <2>3. f[k] \in Nat /\ f[k + 1] = f[k] * base + digits[k + 1] /\ digits[k + 1] \in Nat
    BY <1>1, <1>9, <1>12, <2>2
  <2>4. \A a, c \in Nat : a * base + c \in Nat
    OBVIOUS
  <2>5. QED
    BY <2>3, <2>4
<1>13. \A k \in Nat : k \in S
  <2> HIDE DEF S
  <2>1. QED
    BY <1>11, <1>12, NatSetInduction
<1>14. f \in [0 .. Len(digits) -> Nat]
  <2>1. \A k \in 0 .. Len(digits) : f[k] \in Nat
    BY <1>1, <1>13
  <2>2. QED
    BY <1>10, <2>1
<1>15. QED
  BY <1>9, <1>14 DEF f

Outcome == [ok : BOOLEAN, n : Nat]

(* What parse_int knows after each character.                              *)
LEMMA IntSteps ==
    ASSUME NEW str \in Seq(Nat)
    PROVE  LET r == IntReadAfter(str)
           IN  r[0] = Read(0) /\ \A k \in 1 .. Len(str) : r[k] = ReadDigit(r[k - 1], str[k])
<1> DEFINE step == [k \in 1 .. Len(str) |-> [p \in Outcome |-> ReadDigit(p, str[k])]]
           Is1(d) == d = [k \in 0 .. Len(str) |-> IF k = 0 THEN Read(0) ELSE ReadDigit(d[k - 1], str[k])]
<1>1. Len(str) \in Nat /\ \A k \in 1 .. Len(str) : str[k] \in Nat
  BY LenProperties, ElementOfSeq
<1>2. step \in [1 .. Len(str) -> [Outcome -> Outcome]]
  <2>1. ASSUME NEW p \in Outcome, NEW c \in Nat
        PROVE  ReadDigit(p, c) \in Outcome
    <3>1. (p.n * 10 + c) % W64 \in Nat
      <4>1. W64 \in Nat /\ W64 > 0 /\ p.n \in Nat
        BY NumbersAssumption DEF Outcome
      <4>2. p.n * 10 + c \in Nat
        BY <4>1
      <4>3. \A m \in Nat : m % W64 \in Nat
        BY <4>1
      <4>4. QED
        BY <4>2, <4>3
    <3>2. QED
      BY <3>1 DEF ReadDigit, Read, Refused, Outcome
  <2>2. QED
    BY <1>1, <2>1
<1>3. \A p \in Outcome, k \in 1 .. Len(str) : step[k][p] = ReadDigit(p, str[k])
  OBVIOUS
<1> HIDE DEF step
<1>4. PICK d \in [0 .. Len(str) -> Outcome] :
          d[0] = Read(0) /\ \A k \in 1 .. Len(str) : d[k] = step[k][d[k - 1]]
  <2>1. Read(0) \in Outcome /\ Len(str) \in Nat
    BY <1>1 DEF Read, Outcome
  <2>2. HasValues(Outcome, Read(0), Len(str), step)
    BY <1>2, <2>1, ItemByItem
  <2>3. QED
    BY <2>2 DEF HasValues
<1>5. ASSUME NEW k \in 1 .. Len(str)
      PROVE  d[k] = ReadDigit(d[k - 1], str[k])
  <2>1. k - 1 \in 0 .. Len(str)
    BY <1>1
  <2>2. d[k] = step[k][d[k - 1]] /\ d[k - 1] \in Outcome
    BY <1>4, <2>1
  <2>3. QED
    BY <1>3, <2>2
<1>6. Is1(d)
  <2>1. d = [k \in 0 .. Len(str) |-> d[k]]
    BY <1>4
  <2>2. ASSUME NEW k \in 0 .. Len(str)
        PROVE  d[k] = IF k = 0 THEN Read(0) ELSE ReadDigit(d[k - 1], str[k])
    <3>1. CASE k = 0
      BY <1>4, <3>1
    <3>2. CASE k # 0
      <4>1. k \in 1 .. Len(str)
        BY <1>1, <3>2
      <4>2. QED
        BY <1>5, <3>2, <4>1
    <3>3. QED
      BY <3>1, <3>2
  <2>3. QED
    BY <2>1, <2>2
<1>7. Is1(IntReadAfter(str))
  BY <1>6 DEF IntReadAfter
<1> DEFINE r == IntReadAfter(str)
<1> HIDE DEF r
<1>8. r = [k \in 0 .. Len(str) |-> IF k = 0 THEN Read(0) ELSE ReadDigit(r[k - 1], str[k])]
  BY <1>7 DEF r
<1>9. 0 \in 0 .. Len(str) /\ \A k \in 1 .. Len(str) : k \in 0 .. Len(str) /\ k # 0
  BY <1>1
<1>10. r[0] = Read(0) /\ \A k \in 1 .. Len(str) : r[k] = ReadDigit(r[k - 1], str[k])
  BY <1>8, <1>9
<1>11. QED
  BY <1>10 DEF r

(* Digits in front never make a number smaller.                            *)
LEMMA BeginningsAreSmaller ==
    ASSUME NEW digits \in Seq(Nat), NEW base \in Nat \ {0}
    PROVE  \A k \in 0 .. Len(digits) :
               NumbersOf(digits, base)[k] <= NumbersOf(digits, base)[Len(digits)]
<1> DEFINE f == NumbersOf(digits, base)
           N == Len(digits)
           S == {j \in Nat : j <= N => f[N - j] <= f[N]}
<1>1. N \in Nat /\ \A k \in 1 .. N : digits[k] \in Nat
  BY LenProperties, ElementOfSeq
<1>2. f \in [0 .. N -> Nat] /\ \A k \in 1 .. N : f[k] = f[k - 1] * base + digits[k]
  BY NumberSteps
<1> HIDE DEF f, N
<1>3. ASSUME NEW k \in 1 .. N
      PROVE  f[k - 1] \in Nat /\ f[k] \in Nat /\ f[k - 1] <= f[k]
  <2>1. f[k - 1] \in Nat /\ f[k] \in Nat /\ digits[k] \in Nat
    <3>1. k - 1 \in 0 .. N /\ k \in 0 .. N
      BY <1>1
    <3>2. QED
      BY <1>1, <1>2, <3>1
  <2>2. \A a, c \in Nat : a <= a * base + c
    <3>1. PICK b \in Nat : base = b + 1
      <4>1. base - 1 \in Nat /\ base = (base - 1) + 1
        OBVIOUS
      <4>2. QED
        BY <4>1
    <3>2. \A a \in Nat : a * base = a * b + a /\ a * b \in Nat
      BY <3>1
    <3>3. QED
      BY <3>2
  <2>3. QED
    BY <1>2, <2>1, <2>2
<1>4. 0 \in S
  <2>1. f[N] \in Nat /\ N - 0 = N
    BY <1>1, <1>2
  <2>2. QED
    BY <2>1
<1>5. ASSUME NEW j \in Nat, j \in S
      PROVE  j + 1 \in S
  <2>1. SUFFICES ASSUME j + 1 <= N
                 PROVE  f[N - (j + 1)] <= f[N]
    OBVIOUS
  <2>2. N - j \in 1 .. N /\ N - (j + 1) = (N - j) - 1 /\ j <= N /\ N \in 0 .. N
    BY <1>1, <2>1
  <2>3. f[N - j] <= f[N] /\ f[N] \in Nat
    BY <1>2, <1>5, <2>2
  <2>4. /\ f[(N - j) - 1] \in Nat /\ f[N - j] \in Nat /\ f[(N - j) - 1] <= f[N - j]
    BY <1>3, <2>2
  <2>5. QED
    BY <2>2, <2>3, <2>4
<1>6. \A j \in Nat : j \in S
  <2> HIDE DEF S
  <2>1. QED
    BY <1>4, <1>5, NatSetInduction
<1>7. ASSUME NEW k \in 0 .. N
      PROVE  f[k] <= f[N]
  <2>1. N - k \in Nat /\ N - k <= N /\ N - (N - k) = k
    BY <1>1
  <2>2. QED
    BY <1>6, <2>1
<1>8. QED
  BY <1>7 DEF f, N

(* A number that fits is read digit by digit, as none of its beginnings    *)
(* overflows (parse_int).                                                  *)
LEMMA FittingDigitsAreRead ==
    ASSUME NEW str \in Seq(Nat), AllDigits(str), NumberOf(str, 10) < W64
    PROVE  parse_int(str) = Read(NumberOf(str, 10))
<1> DEFINE f == NumbersOf(str, 10)
           r == IntReadAfter(str)
           N == Len(str)
           S == {k \in Nat : k <= N => r[k] = Read(f[k])}
<1>1. N \in Nat /\ \A k \in 1 .. N : is_digit(str[k])
  BY LenProperties DEF AllDigits
<1>2. /\ f \in [0 .. N -> Nat] /\ f[0] = 0
      /\ \A k \in 1 .. N : f[k] = f[k - 1] * 10 + str[k]
  BY NumberSteps
<1>3. r[0] = Read(0) /\ \A k \in 1 .. N : r[k] = ReadDigit(r[k - 1], str[k])
  BY IntSteps
<1>4. W64 \in Nat /\ f[N] < W64
  BY NumbersAssumption DEF NumberOf
<1>5. \A k \in 0 .. N : f[k] <= f[N]
  BY BeginningsAreSmaller
<1> HIDE DEF f, r, N
<1>6. ASSUME NEW k \in 1 .. N, r[k - 1] = Read(f[k - 1])
      PROVE  r[k] = Read(f[k])
  <2>1. /\ f[k - 1] \in Nat /\ f[k] \in Nat /\ f[N] \in Nat /\ f[k] <= f[N]
        /\ is_digit(str[k]) /\ f[k] = f[k - 1] * 10 + str[k]
    <3>1. k - 1 \in 0 .. N /\ k \in 0 .. N /\ N \in 0 .. N
      BY <1>1
    <3>2. QED
      BY <1>1, <1>2, <1>5, <3>1
  <2>2. f[k] \in 0 .. W64 - 1 /\ f[k - 1] <= f[k]
    <3>1. str[k] \in 0 .. 9
      BY <2>1 DEF is_digit
    <3>2. \A a, b \in Nat, c \in 0 .. 9 : b = a * 10 + c => a <= b
      OBVIOUS
    <3>3. f[k - 1] <= f[k]
      BY <2>1, <3>1, <3>2
    <3>4. QED
      BY <1>4, <2>1, <3>3
  <2>3. f[k] % W64 = f[k]
    BY <1>4, <2>2, SMTT(30)
  <2>4. r[k] = ReadDigit(Read(f[k - 1]), str[k])
    BY <1>3, <1>6
  <2>5. QED
    BY <2>1, <2>2, <2>3, <2>4 DEF ReadDigit, Read
<1>7. 0 \in S
  BY <1>2, <1>3
<1>8. ASSUME NEW k \in Nat, k \in S
      PROVE  k + 1 \in S
  <2>1. SUFFICES ASSUME k + 1 <= N
                 PROVE  r[k + 1] = Read(f[k + 1])
    OBVIOUS
  <2>2. k + 1 \in 1 .. N /\ (k + 1) - 1 = k /\ r[k] = Read(f[k])
    BY <1>1, <1>8, <2>1
  <2>3. QED
    BY <1>6, <2>2
<1>9. \A k \in Nat : k \in S
  <2> HIDE DEF S
  <2>1. QED
    BY <1>7, <1>8, NatSetInduction
<1>10. QED
  BY <1>1, <1>9 DEF parse_int, NumberOf, r, f, N

(* What is no digit is refused, and so is everything after it (parse_int). *)
LEMMA OthersAreRefused ==
    ASSUME NEW str \in Seq(Nat), ~AllDigits(str)
    PROVE  ~parse_int(str).ok
<1> DEFINE r == IntReadAfter(str)
           N == Len(str)
<1>1. N \in Nat /\ DOMAIN str = 1 .. N
  BY LenProperties
<1>2. PICK i \in 1 .. N : ~is_digit(str[i])
  BY <1>1 DEF AllDigits
<1>3. \A k \in 1 .. N : r[k] = ReadDigit(r[k - 1], str[k])
  BY IntSteps
<1> HIDE DEF r, N
<1> DEFINE S == {j \in Nat : i + j <= N => ~r[i + j].ok}
<1>4. 0 \in S
  <2>1. ~r[i].ok /\ i + 0 = i
    BY <1>1, <1>2, <1>3 DEF ReadDigit, Refused
  <2>2. QED
    BY <2>1
<1>5. ASSUME NEW j \in Nat, j \in S
      PROVE  j + 1 \in S
  <2>1. SUFFICES ASSUME i + (j + 1) <= N
                 PROVE  ~r[i + (j + 1)].ok
    OBVIOUS
  <2>2. i + (j + 1) \in 1 .. N /\ (i + (j + 1)) - 1 = i + j /\ i + j <= N
    BY <1>1, <2>1
  <2>3. r[i + (j + 1)] = ReadDigit(r[i + j], str[i + (j + 1)])
    BY <1>3, <2>2
  <2>4. QED
    BY <1>5, <2>2, <2>3 DEF ReadDigit, Refused
<1>6. \A j \in Nat : j \in S
  <2> HIDE DEF S
  <2>1. QED
    BY <1>4, <1>5, NatSetInduction
<1>7. N - i \in Nat /\ i + (N - i) = N
  BY <1>1
<1>8. ~r[N].ok
  BY <1>6, <1>7, SMTT(30)
<1>9. QED
  BY <1>8 DEF parse_int, r, N

(* The input of the functions never changes.                               *)
LEMMA InputStays == TextSpec => [](input \in Input \cup {NoInput})
<1>1. TextInit => input \in Input \cup {NoInput}
  BY DEF TextInit
<1>2. input \in Input \cup {NoInput} /\ [TextNext]_tvars => (input \in Input \cup {NoInput})'
  BY DEF TextNext, Computed, tvars
<1>3. QED
  BY <1>1, <1>2, PTL DEF TextSpec

(* Every number that fits 64 bits is read as what it is, and nothing but   *)
(* digits is, for texts of all lengths and characters (parse_int).         *)
THEOREM NumbersAreRead ==
    ASSUME NoInput.kind # "int", \A i \in Input : i.kind = "int" => i.str \in Seq(Nat)
    PROVE  TextSpec => []FittingIntIsRead
<1>1. input \in Input \cup {NoInput} => FittingIntIsRead
  <2>1. SUFFICES ASSUME input \in Input \cup {NoInput}, Is("int")
                 PROVE  FittingIntIsRead
    BY DEF FittingIntIsRead
  <2>2. input.str \in Seq(Nat)
    BY <2>1 DEF Is
  <2>3. ~AllDigits(input.str) => ~parse_int(input.str).ok
    BY <2>2, OthersAreRefused
  <2>4. AllDigits(input.str) /\ NumberOf(input.str, 10) < W64 =>
           parse_int(input.str) = Read(NumberOf(input.str, 10))
    BY <2>2, FittingDigitsAreRead
  <2>5. QED
    BY <2>3, <2>4 DEF FittingIntIsRead
<1>2. QED
  BY <1>1, InputStays, PTL

(***************************************************************************)
(* Transfers.                                                              *)
(***************************************************************************)
(* What parse_hex knows after each character.                              *)
LEMMA HexSteps ==
    ASSUME NEW str \in Seq(Nat)
    PROVE  LET r == HexReadAfter(str)
           IN  r[0] = Read(0) /\ \A k \in 1 .. Len(str) : r[k] = ReadHexDigit(r[k - 1], str[k])
<1> DEFINE step == [k \in 1 .. Len(str) |-> [p \in Outcome |-> ReadHexDigit(p, str[k])]]
           Is1(d) == d = [k \in 0 .. Len(str) |->
                             IF k = 0 THEN Read(0) ELSE ReadHexDigit(d[k - 1], str[k])]
<1>1. Len(str) \in Nat /\ \A k \in 1 .. Len(str) : str[k] \in Nat
  BY LenProperties, ElementOfSeq
<1>2. step \in [1 .. Len(str) -> [Outcome -> Outcome]]
  <2>1. ASSUME NEW p \in Outcome, NEW c \in Nat
        PROVE  ReadHexDigit(p, c) \in Outcome
    <3>1. (p.n * 16 + c) % W128 \in Nat
      <4>1. W128 \in Nat /\ W128 > 0 /\ p.n \in Nat
        BY NumbersAssumption DEF Outcome
      <4>2. p.n * 16 + c \in Nat
        BY <4>1
      <4>3. \A m \in Nat : m % W128 \in Nat
        BY <4>1
      <4>4. QED
        BY <4>2, <4>3
    <3>2. QED
      BY <3>1 DEF ReadHexDigit, Read, Refused, Outcome
  <2>2. QED
    BY <1>1, <2>1
<1>3. \A p \in Outcome, k \in 1 .. Len(str) : step[k][p] = ReadHexDigit(p, str[k])
  OBVIOUS
<1> HIDE DEF step
<1>4. PICK d \in [0 .. Len(str) -> Outcome] :
          d[0] = Read(0) /\ \A k \in 1 .. Len(str) : d[k] = step[k][d[k - 1]]
  <2>1. Read(0) \in Outcome /\ Len(str) \in Nat
    BY <1>1 DEF Read, Outcome
  <2>2. HasValues(Outcome, Read(0), Len(str), step)
    BY <1>2, <2>1, ItemByItem
  <2>3. QED
    BY <2>2 DEF HasValues
<1>5. ASSUME NEW k \in 1 .. Len(str)
      PROVE  d[k] = ReadHexDigit(d[k - 1], str[k])
  <2>1. k - 1 \in 0 .. Len(str)
    BY <1>1
  <2>2. d[k] = step[k][d[k - 1]] /\ d[k - 1] \in Outcome
    BY <1>4, <2>1
  <2>3. QED
    BY <1>3, <2>2
<1>6. Is1(d)
  <2>1. d = [k \in 0 .. Len(str) |-> d[k]]
    BY <1>4
  <2>2. ASSUME NEW k \in 0 .. Len(str)
        PROVE  d[k] = IF k = 0 THEN Read(0) ELSE ReadHexDigit(d[k - 1], str[k])
    <3>1. CASE k = 0
      BY <1>4, <3>1
    <3>2. CASE k # 0
      <4>1. k \in 1 .. Len(str)
        BY <1>1, <3>2
      <4>2. QED
        BY <1>5, <3>2, <4>1
    <3>3. QED
      BY <3>1, <3>2
  <2>3. QED
    BY <2>1, <2>2
<1>7. Is1(HexReadAfter(str))
  BY <1>6 DEF HexReadAfter
<1> DEFINE r == HexReadAfter(str)
<1> HIDE DEF r
<1>8. r = [k \in 0 .. Len(str) |-> IF k = 0 THEN Read(0) ELSE ReadHexDigit(r[k - 1], str[k])]
  BY <1>7 DEF r
<1>9. 0 \in 0 .. Len(str) /\ \A k \in 1 .. Len(str) : k \in 0 .. Len(str) /\ k # 0
  BY <1>1
<1>10. r[0] = Read(0) /\ \A k \in 1 .. Len(str) : r[k] = ReadHexDigit(r[k - 1], str[k])
  BY <1>8, <1>9
<1>11. QED
  BY <1>10 DEF r

(* The smallest number of n + 1 digits: a one and n zeros.                 *)
RoundNumber(n) == [i \in 1 .. n + 1 |-> IF i = 1 THEN 1 ELSE 0]

(* A number of at most n digits is below it.                               *)
LEMMA FewDigitsAreSmall ==
    ASSUME NEW n \in Nat, NEW digits \in Seq(Nat), Len(digits) <= n,
           \A k \in 1 .. Len(digits) : digits[k] \in 0 .. 15
    PROVE  /\ NumberOf(digits, 16) \in Nat /\ NumberOf(RoundNumber(n), 16) \in Nat
           /\ NumberOf(digits, 16) < NumberOf(RoundNumber(n), 16)
<1> DEFINE f == NumbersOf(digits, 16)
           round == RoundNumber(n)
           g == NumbersOf(round, 16)
           S == {k \in Nat : k <= Len(digits) => f[k] < g[k + 1]}
<1>1. Len(digits) \in Nat
  BY LenProperties
<1>2. round \in Seq(Nat) /\ Len(round) = n + 1 /\ \A i \in 1 .. n + 1 : round[i] = IF i = 1 THEN 1 ELSE 0
  <2>1. round \in [1 .. n + 1 -> Nat]
    BY DEF RoundNumber
  <2>2. n + 1 \in Nat
    OBVIOUS
  <2>3. round \in Seq(Nat) /\ Len(round) = n + 1
    BY <2>1, <2>2, IsASeq, LenProperties
  <2>4. QED
    BY <2>3 DEF RoundNumber
<1>3. /\ f \in [0 .. Len(digits) -> Nat] /\ f[0] = 0
      /\ \A k \in 1 .. Len(digits) : f[k] = f[k - 1] * 16 + digits[k]
  BY NumberSteps
<1> HIDE DEF round
<1>4. /\ g \in [0 .. n + 1 -> Nat] /\ g[0] = 0
      /\ \A k \in 1 .. n + 1 : g[k] = g[k - 1] * 16 + round[k]
  <2>1. /\ g \in [0 .. Len(round) -> Nat] /\ g[0] = 0
        /\ \A k \in 1 .. Len(round) : g[k] = g[k - 1] * 16 + round[k]
    BY <1>2, NumberSteps
  <2> HIDE DEF g
  <2>2. QED
    BY <1>2, <2>1
<1>5. \A k \in 0 .. n + 1 : g[k] <= g[n + 1]
  BY <1>2, BeginningsAreSmaller
<1> HIDE DEF f, g
<1>6. 0 \in S
  <2>1. 1 \in 1 .. n + 1 /\ 1 - 1 = 0
    OBVIOUS
  <2>2. g[1] = g[0] * 16 + 1
    BY <1>2, <1>4, <2>1
  <2>3. QED
    BY <1>3, <1>4, <2>2
<1>7. ASSUME NEW k \in Nat, k \in S
      PROVE  k + 1 \in S
  <2>1. SUFFICES ASSUME k + 1 <= Len(digits)
                 PROVE  f[k + 1] < g[(k + 1) + 1]
    OBVIOUS
  <2>2. /\ k + 1 \in 1 .. Len(digits) /\ (k + 1) - 1 = k /\ k \in 0 .. Len(digits)
        /\ (k + 1) + 1 \in 1 .. n + 1 /\ ((k + 1) + 1) - 1 = k + 1 /\ (k + 1) + 1 # 1
        /\ k + 1 \in 0 .. n + 1
    BY <1>1, <2>1
  <2>3. f[k + 1] = f[k] * 16 + digits[k + 1] /\ digits[k + 1] \in 0 .. 15 /\ f[k] \in Nat
    BY <1>3, <2>2
  <2>4. g[(k + 1) + 1] = g[k + 1] * 16 + 0 /\ g[k + 1] \in Nat
    BY <1>2, <1>4, <2>2
  <2>5. f[k] < g[k + 1]
    BY <1>7, <2>1, <2>2
  <2>6. \A a, b \in Nat, c \in 0 .. 15 : a < b => a * 16 + c < b * 16 + 0
    OBVIOUS
  <2>7. QED
    BY <2>3, <2>4, <2>5, <2>6
<1>8. \A k \in Nat : k \in S
  <2> HIDE DEF S
  <2>1. QED
    BY <1>6, <1>7, NatSetInduction
<1>9. f[Len(digits)] < g[Len(digits) + 1] /\ g[Len(digits) + 1] <= g[n + 1]
  <2>1. Len(digits) + 1 \in 0 .. n + 1
    BY <1>1
  <2>2. QED
    BY <1>1, <1>5, <1>8, <2>1
<1>10. f[Len(digits)] \in Nat /\ g[n + 1] \in Nat /\ f[Len(digits)] < g[n + 1]
  <2>1. /\ Len(digits) \in 0 .. Len(digits) /\ Len(digits) + 1 \in 0 .. n + 1
        /\ n + 1 \in 0 .. n + 1
    BY <1>1
  <2>2. f[Len(digits)] \in Nat /\ g[Len(digits) + 1] \in Nat /\ g[n + 1] \in Nat
    BY <1>3, <1>4, <2>1
  <2>3. QED
    BY <1>9, <2>2
<1>11. QED
  BY <1>2, <1>10 DEF NumberOf, f, g, round

(* Hexadecimal digits whose number fits 128 bits are read as that number   *)
(* (parse_hex).                                                            *)
LEMMA FittingHexIsRead ==
    ASSUME NEW str \in Seq(Nat), \A k \in 1 .. Len(str) : str[k] \in 0 .. 15,
           NumberOf(str, 16) < W128
    PROVE  parse_hex(str) = Read(NumberOf(str, 16))
<1> DEFINE f == NumbersOf(str, 16)
           r == HexReadAfter(str)
           N == Len(str)
           S == {k \in Nat : k <= N => r[k] = Read(f[k])}
<1>1. N \in Nat /\ \A k \in 1 .. N : is_hex_digit(str[k])
  BY LenProperties DEF is_hex_digit
<1>2. /\ f \in [0 .. N -> Nat] /\ f[0] = 0
      /\ \A k \in 1 .. N : f[k] = f[k - 1] * 16 + str[k]
  BY NumberSteps
<1>3. r[0] = Read(0) /\ \A k \in 1 .. N : r[k] = ReadHexDigit(r[k - 1], str[k])
  BY HexSteps
<1>4. W128 \in Nat /\ f[N] < W128
  BY NumbersAssumption DEF NumberOf
<1>5. \A k \in 0 .. N : f[k] <= f[N]
  BY BeginningsAreSmaller
<1> HIDE DEF f, r, N
<1>6. ASSUME NEW k \in 1 .. N, r[k - 1] = Read(f[k - 1])
      PROVE  r[k] = Read(f[k])
  <2>1. /\ f[k] \in Nat /\ f[N] \in Nat /\ f[k] <= f[N]
        /\ is_hex_digit(str[k]) /\ f[k] = f[k - 1] * 16 + str[k]
    <3>1. k \in 0 .. N /\ N \in 0 .. N
      BY <1>1
    <3>2. QED
      BY <1>1, <1>2, <1>5, <3>1
  <2>2. f[k] \in 0 .. W128 - 1
    BY <1>4, <2>1
  <2>3. f[k] % W128 = f[k]
    <3>1. \A a \in 0 .. W128 - 1 : a % W128 = a
      BY <1>4
    <3>2. QED
      BY <2>2, <3>1
  <2>4. r[k] = ReadHexDigit(Read(f[k - 1]), str[k])
    BY <1>3, <1>6
  <2>5. QED
    BY <2>1, <2>3, <2>4 DEF ReadHexDigit, Read
<1>7. 0 \in S
  BY <1>2, <1>3
<1>8. ASSUME NEW k \in Nat, k \in S
      PROVE  k + 1 \in S
  <2>1. SUFFICES ASSUME k + 1 <= N
                 PROVE  r[k + 1] = Read(f[k + 1])
    OBVIOUS
  <2>2. k + 1 \in 1 .. N /\ (k + 1) - 1 = k /\ r[k] = Read(f[k])
    BY <1>1, <1>8, <2>1
  <2>3. QED
    BY <1>6, <2>2
<1>9. \A k \in Nat : k \in S
  <2> HIDE DEF S
  <2>1. QED
    BY <1>7, <1>8, NatSetInduction
<1>10. QED
  BY <1>1, <1>9 DEF parse_hex, NumberOf, r, f, N

(* The first of some characters is where none stands before it, and 0 says *)
(* that there is none.                                                     *)
LEMMA FirstIsFound ==
    ASSUME NEW data \in Seq(Nat), NEW chars, NEW from \in Nat
    PROVE  /\ \A p \in from .. Len(data) :
                 data[p] \in chars /\ (\A k \in from .. p - 1 : data[k] \notin chars) =>
                     FirstOf(data, chars, from) = p
           /\ (\A k \in from .. Len(data) : data[k] \notin chars) => FirstOf(data, chars, from) = 0
<1> DEFINE found == {i \in from .. Len(data) : data[i] \in chars}
           least == CHOOSE i \in found : \A j \in found : i <= j
<1>1. Len(data) \in Nat
  BY LenProperties
<1>2. FirstOf(data, chars, from) = IF found = {} THEN 0 ELSE least
  BY DEF FirstOf
<1>3. ASSUME NEW p \in from .. Len(data), data[p] \in chars, \A k \in from .. p - 1 : data[k] \notin chars
      PROVE  FirstOf(data, chars, from) = p
  <2>1. p \in found /\ found \subseteq Int /\ p \in Int
    BY <1>1, <1>3
  <2>2. \A j \in found : p <= j
    <3>1. ASSUME NEW j \in found, ~(p <= j)
          PROVE  FALSE
      <4>1. j \in from .. p - 1 /\ data[j] \in chars
        BY <1>1, <3>1
      <4>2. QED
        BY <1>3, <4>1
    <3>2. QED
      BY <3>1
  <2> HIDE DEF found
  <2>3. least \in found /\ \A j \in found : least <= j
    BY <2>1, <2>2
  <2>4. least = p
    <3>1. least <= p /\ p <= least /\ least \in Int
      BY <2>1, <2>2, <2>3
    <3> HIDE DEF least
    <3>2. QED
      BY <2>1, <3>1
  <2>5. QED
    BY <1>2, <2>1, <2>4
<1>4. ASSUME \A k \in from .. Len(data) : data[k] \notin chars
      PROVE  FirstOf(data, chars, from) = 0
  <2>1. found = {}
    BY <1>4
  <2>2. QED
    BY <1>2, <2>1
<1>5. QED
  BY <1>3, <1>4

(* A length is a natural number.                                           *)
LEMMA EncodedIsNat ==
    ASSUME NEW data \in Seq(Nat)
    PROVE  EncodedLength(data) \in Nat
<1>1. Len(data) \in Nat
  BY LenProperties
<1>2. \A n \in Nat : 4 * (n \div 3) \in Nat
  <2>1. \A n \in Nat : n \div 3 \in Nat
    OBVIOUS
  <2>2. \A n \in Nat : 4 * n \in Nat
    OBVIOUS
  <2>3. QED
    BY <2>1, <2>2
<1>3. QED
  BY <1>1, <1>2 DEF EncodedLength

(* Data that fits is decoded as a whole, and its length is not cut.        *)
LEMMA WholeDataIsDecoded ==
    ASSUME NEW data \in Seq(Nat), Len(data) % 3 = 0, Len(data) # 0, EncodedLength(data) < W8
    PROVE  /\ data_field(data) = data
           /\ Decodable(data) <=> EncodedLength(data) <= KeptLength
<1>1. Len(data) \in Nat /\ W8 \in Nat /\ KeptLength \in Nat
  BY LenProperties, EsdtDataAssumption
<1>2. PICK k \in Nat : Len(data) = 3 * k /\ k >= 1
  <2>1. Len(data) = 3 * (Len(data) \div 3) /\ Len(data) \div 3 \in Nat
    BY <1>1
  <2>2. Len(data) \div 3 >= 1
    BY <1>1, <2>1
  <2>3. QED
    BY <2>1, <2>2
<1>3. EncodedLength(data) = 4 * k /\ 4 * k \in 1 .. W8 - 1
  <2>1. Len(data) \div 3 = k
    BY <1>2
  <2>2. 4 * k < W8
    BY <2>1 DEF EncodedLength
  <2>3. QED
    BY <1>1, <1>2, <2>1, <2>2 DEF EncodedLength
<1>4. encoded_data_length(data) = 4 * k
  <2>1. \A a \in 1 .. W8 - 1 : a % W8 = a
    BY <1>1
  <2>2. QED
    BY <1>3, <2>1 DEF encoded_data_length
<1>5. data_field(data) = SubSeq(data, 1, Len(data))
  <2>1. (4 * k) \div 4 = k
    OBVIOUS
  <2>2. 3 * ((4 * k) \div 4) = Len(data)
    BY <1>2, <2>1
  <2>3. QED
    BY <1>4, <2>2 DEF data_field
<1>6. QED
  BY <1>1, <1>3, <1>4, <1>5, SubSeqFull DEF Decodable

(* The digits taken from the data are its second argument, and their count *)
(* has one more where the data ends with it (extract_esdt_value).          *)
LEMMA ArgumentIsExtracted ==
    ASSUME NEW data, NEW amount, IsTransfer(data, amount), EncodedLength(data) < W8
    PROVE  /\ Len(data) # 0
           /\ EncodedLength(data) > KeptLength => extract_esdt_value(data) = NoAmount
           /\ EncodedLength(data) <= KeptLength =>
                 \/ /\ extract_esdt_value(data) = AmountTooHigh
                    /\ Len(amount) >= MAX_ESDT_VALUE_HEX_COUNT
                 \/ /\ extract_esdt_value(data) = AmountDigits(amount)
                    /\ Len(amount) <= MAX_ESDT_VALUE_HEX_COUNT
<1> DEFINE P == ESDT_TRANSFER_PREFIX_LENGTH
<1>1. /\ data \in Seq(Nat) /\ amount \in Seq(0 .. 15) /\ Len(data) % 3 = 0
      /\ P \in Nat /\ Len(data) \in Nat /\ Len(amount) \in Nat
  BY LenProperties, EsdtDataAssumption DEF IsTransfer
<1>2. PICK sep \in P + 1 .. Len(data) :
          /\ data[sep] = SC_ARGS_SEPARATOR
          /\ \A k \in P + 1 .. sep - 1 : data[k] # SC_ARGS_SEPARATOR
          /\ sep + Len(amount) <= Len(data) /\ SubSeq(data, sep + 1, sep + Len(amount)) = amount
          /\ \/ sep + Len(amount) = Len(data)
             \/ data[sep + Len(amount) + 1] \in {SC_ARGS_SEPARATOR, NotPrinted}
  BY DEF IsTransfer
<1> DEFINE last == sep + Len(amount)
           begin == FirstOf(data, {SC_ARGS_SEPARATOR}, P + 1) + 1
           stop == FirstOf(data, {SC_ARGS_SEPARATOR, NotPrinted}, begin)
           count == AmountCount(begin, stop, Len(data))
           taken == SubSeq(data, begin, IF stop = 0 THEN Len(data) ELSE begin + count - 1)
<1>3. Len(data) # 0 /\ sep \in Nat /\ sep >= 1 /\ last \in Nat /\ last <= Len(data)
  BY <1>1, <1>2
<1>10. EncodedLength(data) \in Nat /\ KeptLength \in Nat
  BY <1>1, EncodedIsNat, EsdtDataAssumption
<1>4. data_field(data) = data /\ (Decodable(data) <=> EncodedLength(data) <= KeptLength)
  BY <1>1, <1>3, WholeDataIsDecoded
<1>5. begin = sep + 1 /\ begin # 1
  <2>1. P + 1 \in Nat /\ data[sep] \in {SC_ARGS_SEPARATOR}
        /\ \A k \in P + 1 .. sep - 1 : data[k] \notin {SC_ARGS_SEPARATOR}
    BY <1>1, <1>2
  <2>2. FirstOf(data, {SC_ARGS_SEPARATOR}, P + 1) = sep
    BY <1>1, <1>2, <2>1, FirstIsFound
  <2>3. QED
    BY <1>3, <2>2
<1>6. ASSUME NEW k \in sep + 1 .. last
      PROVE  data[k] \notin {SC_ARGS_SEPARATOR, NotPrinted}
  <2>1. k - sep \in 1 .. Len(amount) /\ k - sep \in DOMAIN amount
    BY <1>1, <1>3
  <2>2. amount[k - sep] \in 0 .. 15
    BY <1>1, <2>1, ElementOfSeq
  <2>3. amount[k - sep] = data[k]
    <3>1. sep + 1 \in Int /\ last \in Int /\ sep + 1 + (k - sep) - 1 = k
          /\ k - sep \in 1 .. last - (sep + 1) + 1 /\ \A i \in sep + 1 .. last : data[i] \in Nat
      <4>1. \A i \in sep + 1 .. last : i \in 1 .. Len(data)
        BY <1>1, <1>3
      <4>2. QED
        BY <1>1, <1>3, <2>1, <4>1, ElementOfSeq
    <3>2. \A i \in 1 .. last - (sep + 1) + 1 :
              SubSeq(data, sep + 1, last)[i] = data[sep + 1 + i - 1]
      BY <3>1, SubSeqProperties
    <3>3. QED
      BY <1>2, <3>1, <3>2
  <2>4. \A x \in 0 .. 15 : x \notin {SC_ARGS_SEPARATOR, NotPrinted}
    BY DEF SC_ARGS_SEPARATOR, NotPrinted
  <2>5. data[k] \in 0 .. 15
    BY <2>2, <2>3
  <2>6. QED
    BY <2>4, <2>5
<1> HIDE DEF begin
<1>7. CASE last = Len(data)
  <2>1. stop = 0
    <3>1. \A k \in sep + 1 .. Len(data) : data[k] \notin {SC_ARGS_SEPARATOR, NotPrinted}
      BY <1>6, <1>7
    <3>2. FirstOf(data, {SC_ARGS_SEPARATOR, NotPrinted}, sep + 1) = 0
      BY <1>1, <1>3, <3>1, FirstIsFound, SMTT(30)
    <3>3. QED
      BY <1>5, <3>2
  <2>2. taken = amount
    BY <1>2, <1>5, <1>7, <2>1
  <2>3. count = Len(amount) + 1
    <3>1. count = Len(data) - begin + 2
      BY <2>1 DEF AmountCount
    <3> HIDE DEF count
    <3>2. \A l, a \in Nat : sep + a = l => l - (sep + 1) + 2 = a + 1
      BY <1>3
    <3>3. Len(data) \in Nat /\ Len(amount) \in Nat
      BY <1>1
    <3>4. QED
      BY <1>5, <1>7, <3>1, <3>2, <3>3
  <2>4. extract_esdt_value(data) =
            CASE ~Decodable(data) \/ begin = 1 -> NoAmount
              [] Decodable(data) /\ begin # 1 /\ count > MAX_ESDT_VALUE_HEX_COUNT -> AmountTooHigh
              [] OTHER -> AmountDigits(taken)
    BY <1>4 DEF extract_esdt_value, begin
  <2> HIDE DEF stop, count, taken
  <2>5. MAX_ESDT_VALUE_HEX_COUNT \in Nat
    BY EsdtDataAssumption
  <2>6. CASE EncodedLength(data) > KeptLength
    <3>1. ~(EncodedLength(data) <= KeptLength)
      BY <1>4, <1>10, <2>6
    <3>2. QED
      BY <1>3, <1>4, <2>4, <3>1
  <2>7. CASE EncodedLength(data) <= KeptLength
    <3>1. ~(EncodedLength(data) > KeptLength)
      BY <1>10, <2>7
    <3>2. CASE count > MAX_ESDT_VALUE_HEX_COUNT
      BY <1>1, <1>3, <1>4, <1>5, <2>3, <2>4, <2>5, <2>7, <3>1, <3>2
    <3>3. CASE ~(count > MAX_ESDT_VALUE_HEX_COUNT)
      BY <1>1, <1>3, <1>4, <1>5, <2>2, <2>3, <2>4, <2>5, <2>7, <3>1, <3>3
    <3>4. QED
      BY <3>2, <3>3
  <2>8. QED
    BY <1>10, <2>6, <2>7
<1>8. CASE last # Len(data)
  <2>1. stop = last + 1
    <3>1. last + 1 \in sep + 1 .. Len(data) /\ (last + 1) - 1 = last /\ sep + 1 \in Nat
      BY <1>1, <1>3, <1>8
    <3>2. data[last + 1] \in {SC_ARGS_SEPARATOR, NotPrinted}
      BY <1>2, <1>8
    <3>3. FirstOf(data, {SC_ARGS_SEPARATOR, NotPrinted}, sep + 1) = last + 1
      BY <1>1, <1>6, <3>1, <3>2, FirstIsFound
    <3>4. QED
      BY <1>5, <3>3
  <2>2. count = Len(amount) /\ stop # 0
    <3>1. stop # 0 /\ count = stop - begin
      BY <1>3, <2>1 DEF AmountCount
    <3> HIDE DEF count, stop
    <3>2. QED
      BY <1>1, <1>3, <1>5, <2>1, <3>1
  <2>3. taken = amount
    <3>1. begin + count - 1 = last
      <4> HIDE DEF count
      <4>1. QED
        BY <1>1, <1>3, <1>5, <2>2
    <3>2. QED
      BY <1>2, <1>5, <2>2, <3>1
  <2>4. extract_esdt_value(data) =
            CASE ~Decodable(data) \/ begin = 1 -> NoAmount
              [] Decodable(data) /\ begin # 1 /\ count > MAX_ESDT_VALUE_HEX_COUNT -> AmountTooHigh
              [] OTHER -> AmountDigits(taken)
    BY <1>4 DEF extract_esdt_value, begin
  <2> HIDE DEF stop, count, taken
  <2>5. MAX_ESDT_VALUE_HEX_COUNT \in Nat
    BY EsdtDataAssumption
  <2>6. CASE EncodedLength(data) > KeptLength
    <3>1. ~(EncodedLength(data) <= KeptLength)
      BY <1>4, <1>10, <2>6
    <3>2. QED
      BY <1>3, <1>4, <2>4, <3>1
  <2>7. CASE EncodedLength(data) <= KeptLength
    <3>1. ~(EncodedLength(data) > KeptLength)
      BY <1>10, <2>7
    <3>2. CASE count > MAX_ESDT_VALUE_HEX_COUNT
      BY <1>1, <1>3, <1>4, <1>5, <2>2, <2>4, <2>5, <2>7, <3>1, <3>2
    <3>3. CASE ~(count > MAX_ESDT_VALUE_HEX_COUNT)
      BY <1>1, <1>3, <1>4, <1>5, <2>2, <2>3, <2>4, <2>5, <2>7, <3>1, <3>3
    <3>4. QED
      BY <3>2, <3>3
  <2>8. QED
    BY <1>10, <2>6, <2>7
<1>9. QED
  BY <1>3, <1>7, <1>8

(* What is shown for each outcome of the extraction (parse_esdt_data).     *)
LEMMA OutcomeIsShown ==
    ASSUME NEW data
    PROVE  /\ extract_esdt_value(data) = NoAmount => parse_esdt_data(data).shown = "N/A"
           /\ extract_esdt_value(data) = AmountTooHigh =>
                 parse_esdt_data(data).shown = "too_big"
           /\ \A digits, n :
                 extract_esdt_value(data) = AmountDigits(digits) /\ parse_hex(digits) = Read(n) =>
                     parse_esdt_data(data).shown = "amount" /\ parse_esdt_data(data).n = n
<1>1. ASSUME extract_esdt_value(data) = NoAmount
      PROVE  parse_esdt_data(data).shown = "N/A"
  BY <1>1 DEF parse_esdt_data, NoAmount
<1>2. ASSUME extract_esdt_value(data) = AmountTooHigh
      PROVE  parse_esdt_data(data).shown = "too_big"
  BY <1>2 DEF parse_esdt_data, AmountTooHigh
<1>3. ASSUME NEW digits, NEW n, extract_esdt_value(data) = AmountDigits(digits),
             parse_hex(digits) = Read(n)
      PROVE  parse_esdt_data(data).shown = "amount" /\ parse_esdt_data(data).n = n
  BY <1>3 DEF parse_esdt_data, AmountDigits, Read
<1>4. QED
  BY <1>1, <1>2, <1>3

ShowsAmount(amount, data, hex) ==
    \/ amount.shown = "amount" /\ amount.n = NumberOf(hex, 16)
    \/ amount.shown = "N/A" /\ EncodedLength(data) > KeptLength
    \/ amount.shown = "too_big" /\ Len(hex) >= MAX_ESDT_VALUE_HEX_COUNT

(* The amount shown, or the text in its place, is right for all data that  *)
(* holds an amount (parse_esdt_data).                                      *)
LEMMA TransferIsRead ==
    ASSUME NEW data, NEW hex, IsTransfer(data, hex), EncodedLength(data) < W8,
           NumberOf(RoundNumber(MAX_ESDT_VALUE_HEX_COUNT), 16) <= W128
    PROVE  ShowsAmount(parse_esdt_data(data), data, hex)
<1>1. /\ EncodedLength(data) > KeptLength => extract_esdt_value(data) = NoAmount
      /\ EncodedLength(data) <= KeptLength =>
            \/ /\ extract_esdt_value(data) = AmountTooHigh
               /\ Len(hex) >= MAX_ESDT_VALUE_HEX_COUNT
            \/ /\ extract_esdt_value(data) = AmountDigits(hex)
               /\ Len(hex) <= MAX_ESDT_VALUE_HEX_COUNT
  BY ArgumentIsExtracted
<1>2. EncodedLength(data) \in Nat /\ KeptLength \in Nat
  <2>1. data \in Seq(Nat)
    BY DEF IsTransfer
  <2>2. QED
    BY <2>1, EncodedIsNat, EsdtDataAssumption
<1>3. ASSUME Len(hex) <= MAX_ESDT_VALUE_HEX_COUNT
      PROVE  parse_hex(hex) = Read(NumberOf(hex, 16))
  <2>1. hex \in Seq(Nat) /\ Len(hex) \in Nat /\ \A k \in 1 .. Len(hex) : hex[k] \in 0 .. 15
    <3>1. hex \in Seq(0 .. 15)
      BY DEF IsTransfer
    <3>2. 0 .. 15 \subseteq Nat
      OBVIOUS
    <3>3. QED
      BY <3>1, <3>2, SeqMonotonic, LenProperties, ElementOfSeq
  <2>2. LET n == NumberOf(hex, 16)
            m == NumberOf(RoundNumber(MAX_ESDT_VALUE_HEX_COUNT), 16)
        IN  n \in Nat /\ m \in Nat /\ n < m
    <3>1. MAX_ESDT_VALUE_HEX_COUNT \in Nat
      BY EsdtDataAssumption
    <3>2. QED
      BY <1>3, <2>1, <3>1, FewDigitsAreSmall
  <2>3. NumberOf(hex, 16) < W128
    <3>1. W128 \in Nat
      BY NumbersAssumption
    <3>2. QED
      BY <2>2, <3>1
  <2>4. QED
    BY <2>1, <2>3, FittingHexIsRead
<1>4. EncodedLength(data) > KeptLength \/ EncodedLength(data) <= KeptLength
  BY <1>2
<1>5. QED
  BY <1>1, <1>3, <1>4, OutcomeIsShown DEF ShowsAmount

(* The amount shown for a transfer is its second argument, whatever the    *)
(* token and the arguments after it, and a text in its place says what is  *)
(* the case, if the digits allowed fit 128 bits (parse_esdt_data).         *)
THEOREM TransfersAreRead ==
    ASSUME NoInput.kind # "esdt",
           \A i \in Input : i.kind = "esdt" => IsTransfer(i.data, i.amount),
           NumberOf(RoundNumber(MAX_ESDT_VALUE_HEX_COUNT), 16) <= W128
    PROVE  TextSpec => []EsdtAmountIsExact
<1>1. input \in Input \cup {NoInput} => EsdtAmountIsExact
  <2>1. SUFFICES ASSUME input \in Input \cup {NoInput}, Is("esdt"), EncodedLength(input.data) < W8
                 PROVE  EsdtAmountIsExact
    BY DEF EsdtAmountIsExact
  <2>2. IsTransfer(input.data, input.amount)
    BY <2>1 DEF Is
  <2> DEFINE result == parse_esdt_data(input.data)
  <2>3. ShowsAmount(result, input.data, input.amount)
    BY <2>1, <2>2, TransferIsRead
  <2> HIDE DEF result
  <2>4. (CASE result.shown = "amount" -> result.n = NumberOf(input.amount, 16)
           [] result.shown = "N/A" -> EncodedLength(input.data) > KeptLength
           [] result.shown = "too_big" ->
                  Len(input.amount) >= MAX_ESDT_VALUE_HEX_COUNT
           [] OTHER -> FALSE)
    BY <2>3 DEF ShowsAmount
  <2>5. QED
    BY <2>4 DEF EsdtAmountIsExact, result
<1>2. QED
  BY <1>1, InputStays, PTL

(***************************************************************************)
(* Fees.                                                                   *)
(***************************************************************************)
(* Division with a rest is the only way to write a number so.              *)
LEMMA RestIsUnique ==
    ASSUME NEW w \in Nat \ {0}, NEW q \in Int, NEW r \in 0 .. w - 1
    PROVE  (w * q + r) % w = r /\ (w * q + r) \div w = q
<1> DEFINE a == w * q + r
           p == a \div w
           s == a % w
<1>1. a \in Int /\ w \in Nat /\ w > 0
  OBVIOUS
<1>2. p \in Int /\ s \in 0 .. w - 1 /\ a = w * p + s
  <2> HIDE DEF a
  <2>1. QED
    BY <1>1
<1>3. w * q + r = w * p + s
  BY <1>2
<1> HIDE DEF a, p, s
<1>4. \A m \in Nat : m >= 1 => w * m >= w
  BY <1>1
<1>5. ~(q >= p + 1)
  <2>1. SUFFICES ASSUME q >= p + 1
                 PROVE  FALSE
    OBVIOUS
  <2>2. q - p \in Nat /\ q - p >= 1
    BY <1>2, <2>1
  <2>3. w * (q - p) >= w
    BY <1>4, <2>2
  <2>4. w * (q - p) = s - r
    BY <1>1, <1>2, <1>3
  <2>5. QED
    BY <1>1, <1>2, <2>3, <2>4
<1>6. ~(p >= q + 1)
  <2>1. SUFFICES ASSUME p >= q + 1
                 PROVE  FALSE
    OBVIOUS
  <2>2. p - q \in Nat /\ p - q >= 1
    BY <1>2, <2>1
  <2>3. w * (p - q) >= w
    BY <1>4, <2>2
  <2>4. w * (p - q) = r - s
    BY <1>1, <1>2, <1>3
  <2>5. QED
    BY <1>1, <1>2, <2>3, <2>4
<1>7. p = q
  BY <1>2, <1>5, <1>6
<1>8. s = r
  BY <1>1, <1>2, <1>3, <1>7
<1>9. QED
  BY <1>7, <1>8 DEF a, p, s

(* A factor may be reduced before it is multiplied.                        *)
LEMMA ReducedFactor ==
    ASSUME NEW w \in Nat \ {0}, NEW a \in Nat, NEW b \in Nat
    PROVE  ((a % w) * b) % w = (a * b) % w
<1> DEFINE k == a \div w
           r == a % w
           q == (r * b) \div w
           c == (r * b) % w
<1>1. k \in Nat /\ r \in Nat /\ a = w * k + r
  OBVIOUS
<1> HIDE DEF k, r
<1>2. r * b \in Nat
  BY <1>1
<1>3. q \in Nat /\ c \in 0 .. w - 1 /\ r * b = w * q + c
  BY <1>2
<1> HIDE DEF q, c
<1>4. a * b = w * (k * b + q) + c /\ k * b + q \in Int
  <2>1. a * b = w * (k * b) + r * b
    BY <1>1
  <2>2. w * (k * b) + w * q = w * (k * b + q) /\ k * b \in Nat
    BY <1>1, <1>3
  <2>3. QED
    BY <1>1, <1>3, <2>1, <2>2
<1>5. (w * (k * b + q) + c) % w = c
  BY <1>3, <1>4, RestIsUnique
<1>6. QED
  BY <1>4, <1>5 DEF r, c

(* The product of two numbers of 64 bits fits 128.                         *)
LEMMA ProductFits ==
    ASSUME NEW w \in Nat, NEW a \in 0 .. w - 1, NEW b \in 0 .. w - 1
    PROVE  a * b \in Nat /\ a * b < w * w
<1>1. a * b \in Nat /\ a * w \in Nat /\ w * w \in Nat
  OBVIOUS
<1>2. a * b <= a * w
  <2>1. w - b \in Nat /\ a * (w - b) \in Nat
    OBVIOUS
  <2>2. a * w = a * b + a * (w - b)
    OBVIOUS
  <2>3. QED
    BY <1>1, <2>1, <2>2
<1>3. a * w < w * w
  <2>1. w - a \in Nat /\ w - a >= 1 /\ w >= 1
    OBVIOUS
  <2>2. (w - a) * w >= w
    <3>1. \A m \in Nat : m >= 1 => m * w >= w
      OBVIOUS
    <3>2. QED
      BY <2>1, <3>1
  <2>3. w * w = a * w + (w - a) * w
    OBVIOUS
  <2>4. QED
    BY <1>1, <2>1, <2>2, <2>3
<1>4. QED
  BY <1>1, <1>2, <1>3

(* The fee when the limit covers the move: nothing wraps around.           *)
LEMMA CoveredFee ==
    ASSUME NEW move \in 0 .. W64 - 1, NEW limit \in move .. W64 - 1, NEW price \in 0 .. W64 - 1,
           W64 * W64 <= W128
    PROVE  LET fee == (((move + minus128(limit, move) \div GAS_PRICE_DIVIDER) % W128) * price) % W128
           IN  /\ fee \in Nat
               /\ \E rest \in 0 .. GAS_PRICE_DIVIDER - 1 :
                     GAS_PRICE_DIVIDER * fee + rest * price =
                        GAS_PRICE_DIVIDER * move * price + (limit - move) * price
<1> DEFINE D == GAS_PRICE_DIVIDER
           x == limit - move
           e == x \div D
           rest == x % D
<1>1. D \in Nat \ {0} /\ W64 \in Nat \ {0} /\ W128 \in Nat \ {0}
  BY NumbersAssumption
<1>2. x \in 0 .. W64 - 1 /\ W64 <= W128
  <2>1. W64 <= W64 * W64
    BY <1>1
  <2>2. W64 * W64 \in Nat
    BY <1>1
  <2>3. QED
    BY <1>1, <2>1, <2>2
<1>3. minus128(limit, move) = x
  <2>1. \A a \in 0 .. W128 - 1 : a % W128 = a
    BY <1>1
  <2>2. x \in 0 .. W128 - 1
    BY <1>1, <1>2
  <2>3. QED
    BY <2>1, <2>2 DEF minus128
<1> HIDE DEF x
<1>4. e \in Nat /\ rest \in 0 .. D - 1 /\ x = D * e + rest /\ e <= x
  <2>1. e \in Nat /\ rest \in 0 .. D - 1 /\ x = D * e + rest
    BY <1>1, <1>2
  <2> HIDE DEF e, rest, D
  <2>2. D * e >= e
    BY <1>1, <2>1
  <2>3. QED
    BY <1>1, <1>2, <2>1, <2>2
<1> HIDE DEF e, rest, D
<1>5. move + e \in 0 .. W64 - 1
  BY <1>1, <1>2, <1>4 DEF x
<1>6. (move + e) * price \in 0 .. W128 - 1
  <2>1. (move + e) * price \in Nat /\ (move + e) * price < W64 * W64
    BY <1>1, <1>5, ProductFits
  <2>2. W64 * W64 \in Nat
    BY <1>1
  <2>3. QED
    BY <1>1, <2>1, <2>2
<1>7. (((move + e) % W128) * price) % W128 = (move + e) * price
  <2>1. (move + e) * price = W128 * 0 + (move + e) * price
    BY <1>1, <1>6
  <2>2. move + e \in Nat /\ price \in Nat
    BY <1>4
  <2> DEFINE units == move + e
             value == units * price
  <2>3. units \in Nat /\ value \in 0 .. W128 - 1 /\ units * price = W128 * 0 + value
    BY <1>6, <2>1, <2>2
  <2> HIDE DEF units, value
  <2>4. ((units % W128) * price) % W128 = value
    <3>1. ((units % W128) * price) % W128 = (units * price) % W128
      BY <1>1, <2>2, <2>3, ReducedFactor
    <3>2. (W128 * 0 + value) % W128 = value
      BY <1>1, <2>3, RestIsUnique
    <3>3. QED
      BY <2>3, <3>1, <3>2
  <2>5. QED
    BY <2>4 DEF units, value
<1>8. D * ((move + e) * price) + rest * price = D * move * price + x * price
  <2>1. D \in Nat /\ e \in Nat /\ rest \in Nat /\ x \in Nat /\ price \in Nat /\ move \in Nat
    BY <1>1, <1>2, <1>4
  <2>2. x * price = (D * e) * price + rest * price
    BY <1>4, <2>1
  <2>3. D * ((move + e) * price) = D * move * price + (D * e) * price
    BY <2>1
  <2>4. QED
    BY <2>1, <2>2, <2>3
<1>9. QED
  BY <1>3, <1>4, <1>6, <1>7, <1>8 DEF D, e, x

(* The fee when it does not: what the subtraction borrows is given back by *)
(* the multiplication, if the price is a multiple of the divider.          *)
LEMMA UncoveredFee ==
    ASSUME NEW move \in 0 .. W64 - 1, NEW limit \in 0 .. move - 1, NEW price \in 0 .. W64 - 1,
           W64 * W64 <= W128, price % GAS_PRICE_DIVIDER = 0
    PROVE  LET fee == (((move + minus128(limit, move) \div GAS_PRICE_DIVIDER) % W128) * price) % W128
           IN  /\ fee \in Nat
               /\ \E rest \in 0 .. GAS_PRICE_DIVIDER - 1 :
                     GAS_PRICE_DIVIDER * fee + rest * price =
                        GAS_PRICE_DIVIDER * move * price + (limit - move) * price
<1> DEFINE D == GAS_PRICE_DIVIDER
           x == W128 - (move - limit)
           e == x \div D
           rest == x % D
           q == price \div D
           worth == D * move - (move - limit) - rest
<1>1. D \in Nat \ {0} /\ W64 \in Nat \ {0} /\ W128 \in Nat \ {0}
  BY NumbersAssumption
<1>2. W64 <= W128 /\ x \in 0 .. W128 - 1
  <2>1. W64 <= W64 * W64
    BY <1>1
  <2>2. W64 * W64 \in Nat
    BY <1>1
  <2>3. W64 <= W128
    BY <1>1, <2>1, <2>2
  <2>4. QED
    BY <1>1, <2>3
<1>3. minus128(limit, move) = x
  <2>1. limit - move = W128 * (-1) + x
    BY <1>1
  <2> HIDE DEF x
  <2>2. (W128 * (-1) + x) % W128 = x
    BY <1>1, <1>2, RestIsUnique
  <2>3. QED
    BY <2>1, <2>2 DEF minus128
<1>4. q \in Nat /\ price = D * q
  BY <1>1
<1>5. e \in Nat /\ rest \in 0 .. D - 1 /\ x = D * e + rest
  <2> HIDE DEF x
  <2>1. QED
    BY <1>1, <1>2
<1> HIDE DEF e, rest, D, q
<1>6. worth \in Nat /\ worth <= D * move
  <2>1. PICK d \in Nat : D = d + 1
    <3>1. D - 1 \in Nat /\ D = (D - 1) + 1
      BY <1>1
    <3>2. QED
      BY <3>1
  <2>2. PICK m \in Nat : move = m + 1
    <3>1. move - 1 \in Nat /\ move = (move - 1) + 1
      OBVIOUS
    <3>2. QED
      BY <3>1
  <2>3. D * move = d * m + d + m + 1 /\ d * m \in Nat
    BY <2>1, <2>2
  <2>4. QED
    BY <1>5, <2>1, <2>2, <2>3
<1>7. (move + e) * price = W128 * q + worth * q
  <2>1. /\ D \in Nat /\ e \in Nat /\ q \in Nat /\ move \in Nat /\ rest \in Nat /\ limit \in Nat
        /\ W128 \in Nat /\ worth \in Nat
    BY <1>1, <1>4, <1>5, <1>6
  <2>2. (move + e) * price = (D * move + D * e) * q
    BY <1>4, <2>1
  <2>3. D * move + D * e = W128 + worth
    <3>1. D * e = x - rest /\ D * move \in Nat /\ D * e \in Nat
      BY <1>5, <2>1
    <3>2. QED
      BY <2>1, <3>1
  <2> HIDE DEF worth
  <2>4. (W128 + worth) * q = W128 * q + worth * q
    BY <2>1
  <2>5. QED
    BY <2>2, <2>3, <2>4
<1>8. worth * q \in 0 .. W128 - 1
  <2>1. move * price \in Nat /\ move * price < W64 * W64
    BY <1>1, ProductFits
  <2>2. (D * move) * q = move * price
    BY <1>1, <1>4
  <2>3. worth * q \in Nat /\ worth * q <= (D * move) * q
    <3>1. D * move \in Nat /\ q \in Nat
      BY <1>1, <1>4
    <3> DEFINE big == D * move
    <3>2. big - worth \in Nat /\ worth \in Nat /\ big \in Nat
      BY <1>6, <3>1
    <3> HIDE DEF worth, big
    <3>3. (big - worth) * q \in Nat /\ worth * q \in Nat
      BY <3>1, <3>2
    <3>4. big * q = worth * q + (big - worth) * q
      BY <3>1, <3>2
    <3>5. worth * q <= big * q
      BY <3>3, <3>4
    <3>6. QED
      BY <3>3, <3>5 DEF big
  <2>4. W64 * W64 \in Nat
    BY <1>1
  <2> HIDE DEF worth
  <2>5. QED
    BY <1>1, <2>1, <2>2, <2>3, <2>4
<1>9. (((move + e) % W128) * price) % W128 = worth * q
  <2>1. move + e \in Nat /\ price \in Nat /\ q \in Int
    BY <1>4, <1>5
  <2> DEFINE units == move + e
             value == worth * q
  <2>2. units \in Nat /\ value \in 0 .. W128 - 1 /\ units * price = W128 * q + value
    BY <1>7, <1>8, <2>1
  <2> HIDE DEF units, value
  <2>3. ((units % W128) * price) % W128 = value
    <3>1. W128 \in Nat \ {0} /\ price \in Nat /\ q \in Int
      BY <1>1, <2>1
    <3>2. ((units % W128) * price) % W128 = (units * price) % W128
      BY <2>2, <3>1, ReducedFactor
    <3>3. (W128 * q + value) % W128 = value
      BY <2>2, <3>1, RestIsUnique
    <3>4. QED
      BY <2>2, <3>2, <3>3
  <2>4. QED
    BY <2>3 DEF units, value
<1>10. D * (worth * q) + rest * price = D * move * price + (limit - move) * price
  <2>1. /\ D \in Nat /\ q \in Nat /\ move \in Nat /\ rest \in Nat /\ limit \in Nat
        /\ price \in Nat /\ worth \in Nat
    BY <1>1, <1>4, <1>5, <1>6
  <2>2. D * (worth * q) = worth * price
    <3> HIDE DEF worth
    <3>1. QED
      BY <1>4, <2>1
  <2>3. worth * price = D * move * price + (limit - move) * price - rest * price
    BY <2>1
  <2>4. QED
    BY <2>1, <2>2, <2>3
<1>11. QED
  BY <1>3, <1>5, <1>8, <1>9, <1>10 DEF D, e

NearFee(fee, move, limit, price) ==
    LET formula == GAS_PRICE_DIVIDER * move * price + (limit - move) * price
    IN  /\ GAS_PRICE_DIVIDER * fee <= formula
        /\ formula < GAS_PRICE_DIVIDER * (fee + price) \/ price = 0

(* The fee is that of the formula but for the rest of the division, which  *)
(* costs less than one gas price (gas_to_fee).                             *)
LEMMA FeeIsNear ==
    ASSUME NEW limit \in 0 .. W64 - 1, NEW price \in 0 .. W64 - 1, NEW size \in Nat,
           MIN_GAS_LIMIT + GAS_PER_DATA_BYTE * size < W64, W64 * W64 <= W128,
           limit >= gas_unit_for_move_balance(size) \/ price % GAS_PRICE_DIVIDER = 0
    PROVE  NearFee(FeeValue(limit, price, size), gas_unit_for_move_balance(size), limit, price)
<1> DEFINE D == GAS_PRICE_DIVIDER
           move == gas_unit_for_move_balance(size)
           fee == FeeValue(limit, price, size)
           formula == D * move * price + (limit - move) * price
<1>1. D \in Nat \ {0} /\ W64 \in Nat \ {0} /\ W128 \in Nat \ {0}
  BY NumbersAssumption
<1>2. move \in 0 .. W64 - 1
  <2> DEFINE sum == MIN_GAS_LIMIT + GAS_PER_DATA_BYTE * size
  <2>1. sum \in 0 .. W64 - 1
    <3>1. MIN_GAS_LIMIT \in Nat /\ GAS_PER_DATA_BYTE \in Nat
      BY NumbersAssumption
    <3>2. GAS_PER_DATA_BYTE * size \in Nat
      BY <3>1
    <3>3. QED
      BY <1>1, <3>1, <3>2
  <2>2. move = sum % W128
    BY DEF gas_unit_for_move_balance
  <2> HIDE DEF sum, move
  <2>3. W64 <= W128
    <3>1. W64 <= W64 * W64 /\ W64 * W64 \in Nat
      BY <1>1
    <3>2. QED
      BY <1>1, <3>1
  <2>4. \A a \in 0 .. W128 - 1 : a % W128 = a
    BY <1>1
  <2>5. QED
    BY <1>1, <2>1, <2>2, <2>3, <2>4
<1>3. fee = (((move + minus128(limit, move) \div D) % W128) * price) % W128
  BY DEF FeeValue, gas_units
<1> HIDE DEF move, fee
<1>4. fee \in Nat /\ \E rest \in 0 .. D - 1 : D * fee + rest * price = formula
  <2>1. CASE limit >= move
    <3>1. limit \in move .. W64 - 1
      BY <1>1, <1>2, <2>1
    <3>2. QED
      BY <1>2, <1>3, <3>1, CoveredFee
  <2>2. CASE ~(limit >= move)
    <3>1. limit \in 0 .. move - 1 /\ price % GAS_PRICE_DIVIDER = 0
      BY <1>1, <1>2, <2>2 DEF move
    <3>2. QED
      BY <1>2, <1>3, <3>1, UncoveredFee
  <2>3. QED
    BY <2>1, <2>2
<1>5. PICK rest \in 0 .. D - 1 : D * fee + rest * price = formula
  BY <1>4
<1> HIDE DEF D, formula
<1>6. rest * price \in Nat /\ D * fee \in Nat /\ price \in Nat /\ rest \in Nat
  BY <1>1, <1>4
<1>7. D * fee <= formula
  BY <1>5, <1>6
<1>8. ASSUME price # 0
      PROVE  formula < D * (fee + price)
  <2>1. D - rest \in Nat /\ D - rest >= 1 /\ price >= 1
    BY <1>1, <1>6, <1>8
  <2>2. (D - rest) * price \in Nat /\ (D - rest) * price >= 1
    <3>1. \A a, b \in Nat : a >= 1 /\ b >= 1 => a * b \in Nat /\ a * b >= 1
      OBVIOUS
    <3>2. QED
      BY <1>6, <2>1, <3>1
  <2>3. D * (fee + price) = D * fee + D * price /\ D * price = rest * price + (D - rest) * price
    BY <1>1, <1>4, <1>6
  <2>4. D * price \in Nat /\ formula = D * fee + rest * price
    BY <1>1, <1>5, <1>6
  <2> HIDE DEF D
  <2>5. QED
    BY <1>6, <2>2, <2>3, <2>4
<1>9. QED
  BY <1>7, <1>8 DEF NearFee, D, formula, move, fee

(* Any fee that is shown is that of the formula but for less than one gas  *)
(* price, for all limits and prices of 64 bits and all sizes of data whose *)
(* move fits them too, if the product of two such numbers fits 128 bits    *)
(* (gas_to_fee).                                                           *)
THEOREM FeesAreNear ==
    ASSUME NoInput.kind # "fee", W64 * W64 <= W128,
           \A i \in Input : i.kind = "fee" =>
               /\ i.gas_limit \in 0 .. W64 - 1 /\ i.gas_price \in 0 .. W64 - 1
               /\ i.data_size \in Nat
               /\ MIN_GAS_LIMIT + GAS_PER_DATA_BYTE * i.data_size < W64
    PROVE  TextSpec => []FeeNearFormula
<1>1. input \in Input \cup {NoInput} => FeeNearFormula
  <2>1. SUFFICES ASSUME input \in Input \cup {NoInput}, Is("fee")
                 PROVE  FeeNearFormula
    BY DEF FeeNearFormula
  <2>2. /\ input.gas_limit \in 0 .. W64 - 1 /\ input.gas_price \in 0 .. W64 - 1
        /\ input.data_size \in Nat /\ MIN_GAS_LIMIT + GAS_PER_DATA_BYTE * input.data_size < W64
    BY <2>1 DEF Is
  <2> DEFINE limit == input.gas_limit
             price == input.gas_price
             move == gas_unit_for_move_balance(input.data_size)
             value == FeeValue(limit, price, input.data_size)
             fee == gas_to_fee(limit, price, input.data_size)
  <2>3. fee.ok => fee.n = value
    BY DEF gas_to_fee, Read, Refused
  <2>4. limit >= move \/ price % GAS_PRICE_DIVIDER = 0 => NearFee(value, move, limit, price)
    BY <2>2, FeeIsNear
  <2> HIDE DEF fee, value, move
  <2>5. fee.ok /\ (limit >= move \/ price % GAS_PRICE_DIVIDER = 0) =>
           /\ GAS_PRICE_DIVIDER * fee.n <= GAS_PRICE_DIVIDER * move * price + (limit - move) * price
           /\ \/ GAS_PRICE_DIVIDER * move * price + (limit - move) * price
                    < GAS_PRICE_DIVIDER * (fee.n + price)
              \/ price = 0
    BY <2>3, <2>4 DEF NearFee
  <2>6. QED
    BY <2>5 DEF FeeNearFormula, fee, move
<1>2. QED
  BY <1>1, InputStays, PTL

(***************************************************************************)
(* The validity of a token.                                                *)
(***************************************************************************)
(* What atoi has read after each digit.                                    *)
LEMMA AtoiSteps ==
    ASSUME NEW str \in Seq(Nat)
    PROVE  LET r == AtoiAfter(str)
           IN  r[0] = 0 /\ \A k \in 1 .. Len(str) : r[k] = AsInt(r[k - 1] * 10 + str[k])
<1> DEFINE step == [k \in 1 .. Len(str) |-> [n \in Int |-> AsInt(n * 10 + str[k])]]
           Is1(d) == d = [k \in 0 .. Len(str) |-> IF k = 0 THEN 0 ELSE AsInt(d[k - 1] * 10 + str[k])]
<1>1. Len(str) \in Nat /\ \A k \in 1 .. Len(str) : str[k] \in Nat
  BY LenProperties, ElementOfSeq
<1>2. step \in [1 .. Len(str) -> [Int -> Int]]
  <2>1. ASSUME NEW n \in Int
        PROVE  AsInt(n) \in Int
    <3>1. IntValues \in Nat /\ IntValues > 0
      BY TokenTextAssumption
    <3>2. n % IntValues \in Int
      BY <3>1
    <3>3. QED
      BY <3>1, <3>2 DEF AsInt
  <2>2. \A n \in Int, c \in Nat : AsInt(n * 10 + c) \in Int
    BY <2>1
  <2>3. QED
    BY <1>1, <2>2
<1>3. \A n \in Int, k \in 1 .. Len(str) : step[k][n] = AsInt(n * 10 + str[k])
  OBVIOUS
<1> HIDE DEF step
<1>4. PICK d \in [0 .. Len(str) -> Int] :
          d[0] = 0 /\ \A k \in 1 .. Len(str) : d[k] = step[k][d[k - 1]]
  <2>1. 0 \in Int /\ Len(str) \in Nat
    BY <1>1
  <2>2. HasValues(Int, 0, Len(str), step)
    BY <1>2, <2>1, ItemByItem
  <2>3. QED
    BY <2>2 DEF HasValues
<1>5. ASSUME NEW k \in 1 .. Len(str)
      PROVE  d[k] = AsInt(d[k - 1] * 10 + str[k])
  <2>1. k - 1 \in 0 .. Len(str)
    BY <1>1
  <2>2. d[k] = step[k][d[k - 1]] /\ d[k - 1] \in Int
    BY <1>4, <2>1
  <2>3. QED
    BY <1>3, <2>2
<1>6. Is1(d)
  <2>1. d = [k \in 0 .. Len(str) |-> d[k]]
    BY <1>4
  <2>2. ASSUME NEW k \in 0 .. Len(str)
        PROVE  d[k] = IF k = 0 THEN 0 ELSE AsInt(d[k - 1] * 10 + str[k])
    BY <1>1, <1>4, <1>5
  <2>3. QED
    BY <2>1, <2>2
<1>7. Is1(AtoiAfter(str))
  BY <1>6 DEF AtoiAfter
<1> DEFINE r == AtoiAfter(str)
<1> HIDE DEF r
<1>8. r = [k \in 0 .. Len(str) |-> IF k = 0 THEN 0 ELSE AsInt(r[k - 1] * 10 + str[k])]
  BY <1>7 DEF r
<1>9. 0 \in 0 .. Len(str) /\ \A k \in 1 .. Len(str) : k \in 0 .. Len(str) /\ k # 0
  BY <1>1
<1>10. r[0] = 0 /\ \A k \in 1 .. Len(str) : r[k] = AsInt(r[k - 1] * 10 + str[k])
  BY <1>8, <1>9
<1>11. QED
  BY <1>10 DEF r

(* Multiples of the number of ints make no difference to an int.           *)
LEMMA WrapsAround ==
    ASSUME NEW x \in Int, NEW k \in Int
    PROVE  AsInt(x + IntValues * k) = AsInt(x)
<1> DEFINE w == IntValues
           q == x \div w
           r == x % w
           y == x + w * k
<1>1. w \in Nat \ {0}
  BY TokenTextAssumption
<1> HIDE DEF w
<1>2. q \in Int /\ r \in 0 .. w - 1 /\ x = w * q + r
  BY <1>1
<1> HIDE DEF q, r
<1>3. y = w * (q + k) + r /\ q + k \in Int
  BY <1>1, <1>2
<1> HIDE DEF y
<1>4. y % w = r
  BY <1>1, <1>2, <1>3, RestIsUnique
<1>5. y % IntValues = x % IntValues
  BY <1>4 DEF r, w
<1>6. AsInt(y) = AsInt(x)
  BY <1>5 DEF AsInt
<1>7. QED
  BY <1>6 DEF y, w

(* An int may wrap around before the next digit or after it.               *)
LEMMA DigitAfterWrap ==
    ASSUME NEW a \in Nat, NEW c \in Nat
    PROVE  AsInt(AsInt(a) * 10 + c) = AsInt(a * 10 + c)
<1> DEFINE w == IntValues
           n == AsInt(a)
<1>1. w \in Nat \ {0}
  BY TokenTextAssumption
<1>2. PICK k \in Int : n = a + w * k
  <2> DEFINE q == a \div w
             r == a % w
  <2>1. n = IF 2 * r < w THEN r ELSE r - w
    BY DEF AsInt
  <2> HIDE DEF w, n
  <2>2. q \in Int /\ r \in Int /\ a = w * q + r
    BY <1>1
  <2> HIDE DEF q, r
  <2>3. a + w * (-q) = r /\ a + w * (-q - 1) = r - w /\ -q \in Int /\ -q - 1 \in Int
    BY <1>1, <2>2
  <2>4. QED
    BY <2>1, <2>3
<1> HIDE DEF n
<1>3. n * 10 + c = (a * 10 + c) + w * (k * 10)
  <2> HIDE DEF w
  <2>1. (w * k) * 10 = w * (k * 10)
    BY <1>1, <1>2
  <2>2. w * k \in Int
    BY <1>1, <1>2
  <2>3. QED
    BY <1>1, <1>2, <2>1, <2>2
<1>4. a * 10 + c \in Int /\ k * 10 \in Int
  BY <1>2
<1>5. AsInt((a * 10 + c) + IntValues * (k * 10)) = AsInt(a * 10 + c)
  BY <1>4, WrapsAround
<1>6. QED
  BY <1>3, <1>5 DEF n, w

(* A validity is read as the int it wraps around to (atoi).                *)
LEMMA TtlIsReadAsInt ==
    ASSUME NEW str \in Seq(Nat), AllDigits(str)
    PROVE  atoi(str) = AsInt(NumberOf(str, 10))
<1> DEFINE f == NumbersOf(str, 10)
           r == AtoiAfter(str)
           N == Len(str)
           S == {k \in Nat : k <= N => r[k] = AsInt(f[k])}
<1>1. N \in Nat /\ ~\E i \in DOMAIN str : str[i] \notin 0 .. 9
  BY LenProperties DEF AllDigits, is_digit
<1>2. /\ f \in [0 .. N -> Nat] /\ f[0] = 0
      /\ \A k \in 1 .. N : f[k] = f[k - 1] * 10 + str[k]
  BY NumberSteps
<1>3. r[0] = 0 /\ \A k \in 1 .. N : r[k] = AsInt(r[k - 1] * 10 + str[k])
  BY AtoiSteps
<1>4. \A k \in 1 .. N : str[k] \in Nat
  BY ElementOfSeq
<1> HIDE DEF f, r, N
<1>5. ASSUME NEW k \in 1 .. N, r[k - 1] = AsInt(f[k - 1])
      PROVE  r[k] = AsInt(f[k])
  <2>1. f[k - 1] \in Nat /\ str[k] \in Nat
    <3>1. k - 1 \in 0 .. N
      BY <1>1
    <3>2. QED
      BY <1>2, <1>4, <3>1
  <2>2. AsInt(AsInt(f[k - 1]) * 10 + str[k]) = AsInt(f[k - 1] * 10 + str[k])
    BY <2>1, DigitAfterWrap
  <2>3. QED
    BY <1>2, <1>3, <1>5, <2>2
<1>6. 0 \in S
  <2>1. AsInt(0) = 0
    BY TokenTextAssumption DEF AsInt
  <2>2. QED
    BY <1>2, <1>3, <2>1
<1>7. ASSUME NEW k \in Nat, k \in S
      PROVE  k + 1 \in S
  <2>1. SUFFICES ASSUME k + 1 <= N
                 PROVE  r[k + 1] = AsInt(f[k + 1])
    OBVIOUS
  <2>2. k + 1 \in 1 .. N /\ (k + 1) - 1 = k /\ r[k] = AsInt(f[k])
    BY <1>1, <1>7, <2>1
  <2>3. QED
    BY <1>5, <2>2
<1>8. \A k \in Nat : k \in S
  <2> HIDE DEF S
  <2>1. QED
    BY <1>6, <1>7, NatSetInduction
<1>9. r[N] = AsInt(f[N])
  BY <1>1, <1>8
<1>10. QED
  BY <1>1, <1>9 DEF atoi, NumberOf, r, f, N

(* Numbers below a hundred have one digit or two.                          *)
LEMMA FewDigits ==
    ASSUME NEW n \in 0 .. 99
    PROVE  DigitCount(n) = IF n < 10 THEN 1 ELSE 2
<1> DEFINE Is1(c) == c = [k \in 0 .. n |-> IF k < 10 THEN 1 ELSE 1 + c[k \div 10]]
           d == [k \in 0 .. n |-> IF k < 10 THEN 1 ELSE 2]
           count == CHOOSE c : Is1(c)
<1>1. \A k \in 10 .. 99 : k \div 10 \in 0 .. 9 /\ k \div 10 <= k
  OBVIOUS
<1>2. Is1(d)
  <2>1. ASSUME NEW k \in 0 .. n
        PROVE  d[k] = IF k < 10 THEN 1 ELSE 1 + d[k \div 10]
    <3>1. CASE k < 10
      BY <3>1
    <3>2. CASE ~(k < 10)
      <4>1. k \in 10 .. 99 /\ k <= n
        BY <3>2
      <4>2. k \div 10 \in 0 .. n /\ k \div 10 < 10
        <5> DEFINE j == k \div 10
        <5>1. j \in 0 .. 9 /\ j <= k
          BY <1>1, <4>1
        <5> HIDE DEF j
        <5>2. j \in 0 .. n /\ j < 10
          BY <4>1, <5>1
        <5>3. QED
          BY <5>2 DEF j
      <4>3. d[k \div 10] = 1 /\ d[k] = 2
        BY <3>2, <4>2
      <4>4. QED
        BY <3>2, <4>3
    <3>3. QED
      BY <3>1, <3>2
  <2>2. d = [k \in 0 .. n |-> d[k]]
    OBVIOUS
  <2> HIDE DEF d
  <2>3. QED
    BY <2>1, <2>2
<1>3. Is1(count)
  <2> HIDE DEF d
  <2>1. QED
    BY <1>2
<1>4. DigitCount(n) = count[n]
  BY DEF DigitCount
<1> HIDE DEF count
<1>5. ASSUME NEW k \in 0 .. n
      PROVE  count[k] = IF k < 10 THEN 1 ELSE 1 + count[k \div 10]
  BY <1>3
<1>6. CASE n < 10
  BY <1>4, <1>5, <1>6
<1>7. CASE ~(n < 10)
  <2>1. n \div 10 \in 0 .. n /\ n \div 10 < 10
    <3> DEFINE j == n \div 10
    <3>1. j \in 0 .. 9 /\ j <= n
      BY <1>1, <1>7
    <3> HIDE DEF j
    <3>2. j \in 0 .. n /\ j < 10
      BY <3>1
    <3>3. QED
      BY <3>2 DEF j
  <2>2. count[n \div 10] = 1 /\ count[n] = 1 + count[n \div 10]
    BY <1>5, <1>7, <2>1
  <2>3. QED
    BY <1>4, <1>7, <2>2
<1>8. QED
  BY <1>6, <1>7

TimeWord == {TextHours, TextMinutes, TextSeconds}
TimePiece == {Number(n) : n \in 0 .. 99} \cup TimeWord

(* The pieces of a time take as many characters as the screen has of them. *)
LEMMA PieceTakes ==
    /\ \A piece \in TimePiece : PieceLength(piece) \in Nat
    /\ \A n \in 0 .. 99 : PieceLength(Number(n)) = IF n < 10 THEN 1 ELSE 2
    /\ PieceLength(TextHours) = 2 /\ PieceLength(TextMinutes) = 4 /\ PieceLength(TextSeconds) = 4
<1>1. ASSUME NEW n \in 0 .. 99
      PROVE  PieceLength(Number(n)) = IF n < 10 THEN 1 ELSE 2
  <2>1. "word" \notin DOMAIN Number(n) /\ Number(n).number = n
    BY DEF Number
  <2>2. PieceLength(Number(n)) = DigitCount(n)
    BY <2>1 DEF PieceLength
  <2>3. QED
    BY <2>2, FewDigits
<1>2. ASSUME NEW w, NEW l
      PROVE  PieceLength(Word(w, l)) = l
  BY DEF PieceLength, Word
<1>3. PieceLength(TextHours) = 2 /\ PieceLength(TextMinutes) = 4 /\ PieceLength(TextSeconds) = 4
  BY <1>2 DEF TextHours, TextMinutes, TextSeconds
<1>4. \A n \in 0 .. 99 : PieceLength(Number(n)) \in Nat
  BY <1>1
<1>5. QED
  BY <1>1, <1>3, <1>4 DEF TimePiece, TimeWord

(* The lengths of the beginnings of a time.                                *)
LEMMA LengthSteps ==
    ASSUME NEW shown \in Seq(TimePiece)
    PROVE  LET len == LengthsOf(shown)
           IN  /\ len \in [0 .. Len(shown) -> Nat] /\ len[0] = 0
               /\ \A k \in 1 .. Len(shown) : len[k] = len[k - 1] + PieceLength(shown[k])
<1> DEFINE N == Len(shown)
           step == [k \in 1 .. N |-> [n \in Nat |-> n + PieceLength(shown[k])]]
           Is1(d) == d = [k \in 0 .. N |-> IF k = 0 THEN 0 ELSE d[k - 1] + PieceLength(shown[k])]
<1>1. N \in Nat /\ \A k \in 1 .. N : PieceLength(shown[k]) \in Nat
  <2>1. N \in Nat /\ \A k \in 1 .. N : shown[k] \in TimePiece
    BY LenProperties, ElementOfSeq
  <2>2. QED
    BY <2>1, PieceTakes
<1>2. step \in [1 .. N -> [Nat -> Nat]]
  <2>1. \A n \in Nat, c \in Nat : n + c \in Nat
    OBVIOUS
  <2>2. QED
    BY <1>1, <2>1
<1>3. \A n \in Nat, k \in 1 .. N : step[k][n] = n + PieceLength(shown[k])
  OBVIOUS
<1> HIDE DEF step
<1>4. PICK d \in [0 .. N -> Nat] :
          d[0] = 0 /\ \A k \in 1 .. N : d[k] = step[k][d[k - 1]]
  <2>1. HasValues(Nat, 0, N, step)
    BY <1>1, <1>2, ItemByItem
  <2>2. QED
    BY <2>1 DEF HasValues
<1>5. ASSUME NEW k \in 1 .. N
      PROVE  d[k] = d[k - 1] + PieceLength(shown[k])
  <2>1. k - 1 \in 0 .. N
    BY <1>1
  <2>2. d[k] = step[k][d[k - 1]] /\ d[k - 1] \in Nat
    BY <1>4, <2>1
  <2>3. QED
    BY <1>3, <2>2
<1>6. Is1(d)
  <2>1. d = [k \in 0 .. N |-> d[k]]
    BY <1>4
  <2>2. ASSUME NEW k \in 0 .. N
        PROVE  d[k] = IF k = 0 THEN 0 ELSE d[k - 1] + PieceLength(shown[k])
    BY <1>1, <1>4, <1>5
  <2>3. QED
    BY <2>1, <2>2
<1>7. Is1(LengthsOf(shown))
  BY <1>6 DEF LengthsOf
<1> DEFINE r == LengthsOf(shown)
<1> HIDE DEF r, N
<1>8. r = [k \in 0 .. N |-> IF k = 0 THEN 0 ELSE r[k - 1] + PieceLength(shown[k])]
  BY <1>7 DEF r
<1>9. r[0] = 0 /\ \A k \in 1 .. N : r[k] = r[k - 1] + PieceLength(shown[k])
  <2>1. 0 \in 0 .. N /\ \A k \in 1 .. N : k \in 0 .. N /\ k # 0
    BY <1>1
  <2>2. QED
    BY <1>8, <2>1
<1> DEFINE S == {k \in Nat : k <= N => r[k] \in Nat}
<1>10. 0 \in S
  BY <1>9
<1>11. ASSUME NEW k \in Nat, k \in S
       PROVE  k + 1 \in S
  <2>1. SUFFICES ASSUME k + 1 <= N
                 PROVE  r[k + 1] \in Nat
    OBVIOUS
  <2>2. k + 1 \in 1 .. N /\ (k + 1) - 1 = k /\ r[k] \in Nat
    BY <1>1, <1>11, <2>1
  <2>3. QED
    BY <1>1, <1>9, <2>2
<1>12. \A k \in Nat : k \in S
  <2> HIDE DEF S
  <2>1. QED
    BY <1>10, <1>11, NatSetInduction
<1>13. r \in [0 .. N -> Nat]
  <2>1. r = [k \in 0 .. N |-> r[k]]
    <3> DEFINE value(k) == IF k = 0 THEN 0 ELSE r[k - 1] + PieceLength(shown[k])
    <3>1. r = [k \in 0 .. N |-> value(k)]
      BY <1>8
    <3> HIDE DEF value
    <3>2. QED
      BY <3>1
  <2>2. \A k \in 0 .. N : k \in Nat /\ k <= N
    BY <1>1
  <2>3. \A k \in 0 .. N : r[k] \in Nat
    BY <1>12, <2>2
  <2>4. QED
    BY <2>1, <2>3
<1>14. QED
  BY <1>9, <1>13 DEF r, N

(* A piece adds its length to that of a time.                              *)
LEMMA TimeLengthens ==
    /\ TextLength(<< >>) = 0
    /\ \A t \in Seq(TimePiece), p \in TimePiece :
          TextLength(t) \in Nat /\ TextLength(Append(t, p)) = TextLength(t) + PieceLength(p)
<1>1. TextLength(<< >>) = 0
  <2>1. << >> \in Seq(TimePiece) /\ Len(<< >>) = 0
    OBVIOUS
  <2>2. LengthsOf(<< >>)[0] = 0
    BY <2>1, LengthSteps
  <2>3. QED
    BY <2>1, <2>2 DEF TextLength
<1>2. ASSUME NEW t \in Seq(TimePiece), NEW p \in TimePiece
      PROVE  TextLength(t) \in Nat /\ TextLength(Append(t, p)) = TextLength(t) + PieceLength(p)
  <2> DEFINE N == Len(t)
             u == Append(t, p)
             f == LengthsOf(t)
             g == LengthsOf(u)
             S == {k \in Nat : k <= N => g[k] = f[k]}
  <2>1. /\ N \in Nat /\ u \in Seq(TimePiece) /\ Len(u) = N + 1 /\ u[N + 1] = p
        /\ \A k \in 1 .. N : u[k] = t[k]
    BY LenProperties, AppendProperties
  <2>2. /\ f \in [0 .. N -> Nat] /\ f[0] = 0
        /\ \A k \in 1 .. N : f[k] = f[k - 1] + PieceLength(t[k])
    BY LengthSteps
  <2>3. g[0] = 0 /\ \A k \in 1 .. N + 1 : g[k] = g[k - 1] + PieceLength(u[k])
    <3>1. g[0] = 0 /\ \A k \in 1 .. Len(u) : g[k] = g[k - 1] + PieceLength(u[k])
      BY <2>1, LengthSteps
    <3>2. QED
      BY <2>1, <3>1
  <2> HIDE DEF f, g, u, N
  <2>4. 0 \in S
    BY <2>2, <2>3
  <2>5. ASSUME NEW k \in Nat, k \in S
        PROVE  k + 1 \in S
    <3>1. SUFFICES ASSUME k + 1 <= N
                   PROVE  g[k + 1] = f[k + 1]
      OBVIOUS
    <3>2. k + 1 \in 1 .. N /\ k + 1 \in 1 .. N + 1 /\ (k + 1) - 1 = k /\ g[k] = f[k]
      BY <2>1, <2>5, <3>1
    <3>3. u[k + 1] = t[k + 1]
      BY <2>1, <3>2
    <3>4. QED
      BY <2>2, <2>3, <3>2, <3>3
  <2>6. \A k \in Nat : k \in S
    <3> HIDE DEF S
    <3>1. QED
      BY <2>4, <2>5, NatSetInduction
  <2>7. g[N] = f[N] /\ f[N] \in Nat
    <3>1. N \in 0 .. N
      BY <2>1
    <3>2. QED
      BY <2>1, <2>2, <2>6, <3>1
  <2>8. g[N + 1] = f[N] + PieceLength(p)
    <3>1. N + 1 \in 1 .. N + 1 /\ (N + 1) - 1 = N
      BY <2>1
    <3>2. g[N + 1] = g[N] + PieceLength(u[N + 1])
      BY <2>3, <3>1
    <3>3. QED
      BY <2>1, <2>7, <3>2
  <2>9. TextLength(t) = f[N] /\ TextLength(Append(t, p)) = g[N + 1]
    BY <2>1 DEF TextLength, f, g, u, N
  <2>10. QED
    BY <2>7, <2>8, <2>9
<1>3. QED
  BY <1>1, <1>2

(* The hours, minutes and seconds of a validity.                           *)
LEMMA TimeParts ==
    ASSUME NEW n \in Nat
    PROVE  /\ Hours(n) \in Nat /\ Hours(n) = n \div 3600
           /\ Minutes(n) \in 0 .. 59 /\ Minutes(n) = (n \div 60) % 60
           /\ Seconds(n) \in 0 .. 59 /\ Seconds(n) = n % 60
           /\ n = 3600 * Hours(n) + 60 * Minutes(n) + Seconds(n)
<1> DEFINE h == n \div 3600
           rest == n - 3600 * h
           m == rest \div 60
           s == rest - 60 * m
<1>1. h \in Nat /\ rest \in 0 .. 3599 /\ m \in 0 .. 59 /\ s \in 0 .. 59
  <2>1. h \in Nat /\ rest \in 0 .. 3599
    OBVIOUS
  <2> HIDE DEF rest
  <2>2. m \in 0 .. 59 /\ s \in 0 .. 59
    BY <2>1
  <2>3. QED
    BY <2>1, <2>2
<1>2. Hours(n) = h
  BY DEF Hours, Quotient
<1>3. Minutes(n) = m
  BY <1>1, <1>2 DEF Minutes, Quotient
<1>4. Seconds(n) = s
  BY <1>2, <1>3 DEF Seconds
<1>5. n = 60 * (60 * h + m) + s /\ n = 3600 * h + 60 * m + s
  <2> HIDE DEF m, h
  <2>1. QED
    BY <1>1
<1> HIDE DEF h, rest, m, s
<1>6. n % 60 = s /\ n \div 60 = 60 * h + m
  BY <1>1, <1>5, RestIsUnique
<1>7. (60 * h + m) % 60 = m
  BY <1>1, RestIsUnique
<1>8. QED
  BY <1>1, <1>2, <1>3, <1>4, <1>5, <1>6, <1>7 DEF h

(* A beginning of a time is one of what follows it too.                    *)
LEMMA BeginsTime ==
    ASSUME NEW t \in Seq(TimePiece), NEW u \in Seq(TimePiece)
    PROVE  IsPrefix(t, t \o u)
<1>1. Len(t) \in Nat /\ Len(t \o u) = Len(t) + Len(u) /\ Len(u) \in Nat
  BY LenProperties, ConcatProperties
<1>2. SubSeq(t, 1, Len(t)) = t
  BY SubSeqFull
<1>3. SubSeq(t \o u, 1, Len(t)) = t
  <2>1. 1 \in 1 .. Len(t) + 1 /\ Len(t) \in 0 .. Len(t)
    BY <1>1
  <2>2. SubSeq(t \o u, 1, Len(t)) = SubSeq(t, 1, Len(t))
    BY <2>1, SubSeqOfConcat1
  <2>3. QED
    BY <1>2, <2>2
<1>4. QED
  BY <1>1, <1>2, <1>3 DEF IsPrefix

(* A part of a time that has room is shown with its word; of one that has  *)
(* none, the end is left out (append_time).                                *)
PartIsShown(shown, whole, t, v, word) ==
    /\ whole \in Seq(TimePiece) /\ IsPrefix(t, whole)
    /\ Len(whole) = Len(t) + IF v = 0 THEN 0 ELSE 2
    /\ TextLength(whole) <= TextLength(t) + 2 + PieceLength(word)
    /\ v = 0 => whole = t /\ shown = t
    /\ TextLength(t) + 2 + PieceLength(word) <= MAX_INT_NUM_DIGITS => shown = whole
    /\ IsPrefix(shown, whole) /\ Len(shown) >= Len(t)
LEMMA PartShown ==
    ASSUME NEW t \in Seq(TimePiece), NEW v \in 0 .. 99, NEW word \in TimeWord
    PROVE  PartIsShown(append_time(v, word, t), t \o NonZero(v, word), t, v, word)
<1> DEFINE one == Append(t, Number(v))
           two == Append(one, word)
           whole == t \o NonZero(v, word)
           shown == append_time(v, word, t)
           L == TextLength(t)
           D == PieceLength(Number(v))
           W == PieceLength(word)
<1>1. /\ Number(v) \in TimePiece /\ word \in TimePiece
      /\ D \in 1 .. 2 /\ W \in {2, 4}
  <2>1. D = IF v < 10 THEN 1 ELSE 2
    BY PieceTakes
  <2>2. W \in {2, 4}
    BY PieceTakes DEF TimeWord
  <2>3. Number(v) \in TimePiece /\ word \in TimePiece
    BY DEF TimePiece
  <2> HIDE DEF D, W
  <2>4. QED
    BY <2>1, <2>2, <2>3
<1>2. MAX_INT_NUM_DIGITS \in Nat
  BY TokenTextAssumption
<1>3. one \in Seq(TimePiece) /\ two \in Seq(TimePiece)
  BY <1>1, AppendProperties
<1>4. L \in Nat /\ TextLength(one) = L + D /\ TextLength(two) = L + D + W
  <2>1. L \in Nat /\ TextLength(one) = L + D
    BY <1>1, TimeLengthens
  <2>2. TextLength(two) = TextLength(one) + W
    BY <1>1, <1>3, TimeLengthens
  <2>3. QED
    BY <2>1, <2>2
<1>5. /\ one = t \o <<Number(v)>> /\ two = t \o <<Number(v), word>> /\ two = one \o <<word>>
      /\ Len(t) \in Nat /\ Len(one) = Len(t) + 1 /\ Len(two) = Len(t) + 2
  <2>1. one = t \o <<Number(v)>>
    BY <1>1, AppendIsConcat
  <2>2. two = one \o <<word>>
    BY <1>1, <1>3, AppendIsConcat
  <2>3. <<Number(v)>> \in Seq(TimePiece) /\ <<word>> \in Seq(TimePiece)
    BY <1>1
  <2>4. two = t \o (<<Number(v)>> \o <<word>>)
    BY <2>1, <2>2, <2>3, ConcatAssociative
  <2>5. <<Number(v)>> \o <<word>> = <<Number(v), word>>
    <3> DEFINE p == <<Number(v)>> \o <<word>>
               q == <<Number(v), word>>
    <3>1. /\ p \in Seq(TimePiece) /\ Len(p) = 2 /\ p[1] = Number(v) /\ p[2] = word
      BY <2>3, ConcatProperties
    <3>2. q \in Seq(TimePiece) /\ Len(q) = 2 /\ q[1] = Number(v) /\ q[2] = word
      BY <1>1
    <3> HIDE DEF p, q
    <3>3. \A i \in 1 .. Len(p) : p[i] = q[i]
      BY <3>1, <3>2
    <3>4. p = q
      BY <3>1, <3>2, <3>3, SeqEqual
    <3>5. QED
      BY <3>4 DEF p, q
  <2>6. Len(t) \in Nat /\ Len(one) = Len(t) + 1 /\ Len(two) = Len(one) + 1
    BY <1>1, <1>3, AppendProperties, LenProperties
  <2>7. QED
    BY <2>1, <2>2, <2>4, <2>5, <2>6
<1>6. IsPrefix(t, t) /\ IsPrefix(t, two) /\ IsPrefix(one, two) /\ IsPrefix(two, two)
  <2>1. /\ << >> \in Seq(TimePiece) /\ <<Number(v), word>> \in Seq(TimePiece)
        /\ <<word>> \in Seq(TimePiece)
    BY <1>1
  <2>2. t \o << >> = t /\ two \o << >> = two
    BY <1>3, ConcatEmptySeq
  <2>3. IsPrefix(t, t) /\ IsPrefix(two, two)
    BY <1>3, <2>1, <2>2, BeginsTime
  <2>4. IsPrefix(t, two) /\ IsPrefix(one, two)
    BY <1>3, <1>5, <2>1, BeginsTime
  <2>5. QED
    BY <2>3, <2>4
<1> HIDE DEF one, two
<1>7. CASE v = 0
  <2>1. whole = t /\ shown = t
    <3>1. t \o << >> = t
      BY ConcatEmptySeq
    <3>2. QED
      BY <1>7, <3>1 DEF NonZero, append_time
  <2> HIDE DEF whole, shown
  <2>2. /\ whole \in Seq(TimePiece) /\ IsPrefix(t, whole) /\ IsPrefix(shown, whole)
        /\ Len(whole) = Len(t) + 0 /\ Len(shown) >= Len(t) /\ TextLength(whole) = L
    BY <1>5, <1>6, <2>1
  <2> HIDE DEF L, W
  <2>3. L <= L + 2 + W
    BY <1>1, <1>4
  <2>4. QED
    BY <1>7, <2>1, <2>2, <2>3 DEF PartIsShown, whole, shown, L, W
<1>8. CASE v # 0
  <2>1. whole = two
    BY <1>5, <1>8 DEF NonZero
  <2>2. shown = append_to_str(word, append_to_str(Number(v), t))
    BY <1>8 DEF append_time
  <2>3. CASE D + L >= MAX_INT_NUM_DIGITS + 1
    <3>1. append_to_str(Number(v), t) = t
      BY <2>3 DEF append_to_str
    <3>2. shown = IF W + L >= MAX_INT_NUM_DIGITS + 1 THEN t ELSE Append(t, word)
      BY <2>2, <3>1 DEF append_to_str
    <3> HIDE DEF shown, whole, D, L, W
    <3>3. W + L >= MAX_INT_NUM_DIGITS + 1 /\ ~(L + 2 + W <= MAX_INT_NUM_DIGITS)
      BY <1>1, <1>2, <1>4, <2>3
    <3>4. shown = t
      BY <3>2, <3>3
    <3>5. TextLength(two) <= L + 2 + W
      BY <1>1, <1>4
    <3>6. IsPrefix(shown, two) /\ Len(shown) >= Len(t)
      BY <1>5, <1>6, <3>4
    <3>7. QED
      BY <1>3, <1>5, <1>6, <1>8, <2>1, <3>3, <3>5, <3>6
      DEF PartIsShown, shown, whole, L, W
  <2>4. CASE ~(D + L >= MAX_INT_NUM_DIGITS + 1)
    <3>1. append_to_str(Number(v), t) = one
      BY <2>4 DEF append_to_str, one
    <3>2. shown = IF W + TextLength(one) >= MAX_INT_NUM_DIGITS + 1 THEN one ELSE two
      BY <2>2, <3>1 DEF append_to_str, two
    <3> HIDE DEF shown, whole, D, L, W
    <3>3. L + 2 + W <= MAX_INT_NUM_DIGITS => shown = two
      BY <1>1, <1>2, <1>4, <3>2
    <3>4. TextLength(two) <= L + 2 + W
      BY <1>1, <1>4
    <3>5. IsPrefix(shown, two) /\ Len(shown) >= Len(t)
      <4>1. shown = one \/ shown = two
        BY <3>2
      <4>2. Len(one) >= Len(t) /\ Len(two) >= Len(t)
        BY <1>5
      <4>3. QED
        BY <1>6, <4>1, <4>2
    <3>6. QED
      BY <1>3, <1>5, <1>6, <1>8, <2>1, <3>3, <3>4, <3>5
      DEF PartIsShown, shown, whole, L, W
  <2>5. QED
    BY <2>3, <2>4
<1>9. QED
  BY <1>7, <1>8

(* A validity of less than 25 hours shows its largest part at least, and   *)
(* what is left out of it is at the end (seconds_to_time).                 *)
LEMMA TimeIsShown ==
    ASSUME NEW n \in Nat \ {0}, Hours(n) <= 24, MAX_INT_NUM_DIGITS >= 10
    PROVE  LET shown == append_time(Seconds(n), TextSeconds,
                          append_time(Minutes(n), TextMinutes,
                            append_time(Hours(n), TextHours, << >>)))
           IN  Len(shown) >= 2 /\ IsPrefix(shown, WholeTime(n))
<1> DEFINE h == Hours(n)
           m == Minutes(n)
           s == Seconds(n)
           one == append_time(h, TextHours, << >>)
           two == append_time(m, TextMinutes, one)
           shown == append_time(s, TextSeconds, two)
           whole == two \o NonZero(s, TextSeconds)
<1>1. /\ h \in 0 .. 99 /\ h = n \div 3600
      /\ m \in 0 .. 99 /\ m = (n \div 60) % 60
      /\ s \in 0 .. 99 /\ s = n % 60
      /\ ~(h = 0 /\ m = 0 /\ s = 0)
  <2> HIDE DEF h, m, s
  <2>1. /\ h \in Nat /\ h <= 24 /\ m \in 0 .. 59 /\ s \in 0 .. 59
        /\ n = 3600 * h + 60 * m + s
        /\ h = n \div 3600 /\ m = (n \div 60) % 60 /\ s = n % 60
    BY TimeParts DEF h, m, s
  <2>2. ~(h = 0 /\ m = 0 /\ s = 0)
    BY <2>1
  <2>3. QED
    BY <2>1, <2>2
<1> HIDE DEF h, m, s
<1>2. << >> \in Seq(TimePiece) /\ TextLength(<< >>) = 0 /\ Len(<< >>) = 0
  BY TimeLengthens
<1>3. /\ TextHours \in TimeWord /\ TextMinutes \in TimeWord /\ TextSeconds \in TimeWord
      /\ PieceLength(TextHours) = 2 /\ PieceLength(TextMinutes) = 4 /\ PieceLength(TextSeconds) = 4
  BY PieceTakes DEF TimeWord
<1>4. MAX_INT_NUM_DIGITS \in Nat
  BY TokenTextAssumption
<1>5. /\ one = << >> \o NonZero(h, TextHours) /\ one \in Seq(TimePiece)
      /\ TextLength(one) <= 4 /\ (h # 0 => Len(one) = 2) /\ (h = 0 => one = << >>)
  <2> DEFINE all == << >> \o NonZero(h, TextHours)
  <2>1. /\ all \in Seq(TimePiece) /\ Len(all) = Len(<< >>) + IF h = 0 THEN 0 ELSE 2
        /\ TextLength(all) <= TextLength(<< >>) + 2 + PieceLength(TextHours)
        /\ h = 0 => all = << >> /\ one = << >>
        /\ TextLength(<< >>) + 2 + PieceLength(TextHours) <= MAX_INT_NUM_DIGITS => one = all
    <3>1. PartIsShown(one, all, << >>, h, TextHours)
      <4>1. << >> \in Seq(TimePiece) /\ h \in 0 .. 99 /\ TextHours \in TimeWord
        BY <1>1, <1>2, <1>3
      <4>2. QED
        BY <4>1, PartShown
    <3> HIDE DEF all, one
    <3>2. QED
      BY <3>1 DEF PartIsShown
  <2> HIDE DEF all, one
  <2>2. one = all
    BY <1>2, <1>3, <1>4, <2>1
  <2>3. TextLength(one) <= 4 /\ (h # 0 => Len(one) = 2)
    BY <1>2, <1>3, <2>1, <2>2
  <2>4. QED
    BY <2>1, <2>2, <2>3 DEF all
<1> HIDE DEF one
<1>6. TextLength(one) \in Nat /\ Len(one) \in Nat
  BY <1>3, <1>5, TimeLengthens, LenProperties DEF TimePiece
<1>7. /\ two = one \o NonZero(m, TextMinutes) /\ two \in Seq(TimePiece)
      /\ Len(two) = Len(one) + IF m = 0 THEN 0 ELSE 2
      /\ TextLength(two) <= 10 /\ (m = 0 => two = one)
  <2> DEFINE all == one \o NonZero(m, TextMinutes)
  <2>1. /\ all \in Seq(TimePiece) /\ Len(all) = Len(one) + IF m = 0 THEN 0 ELSE 2
        /\ TextLength(all) <= TextLength(one) + 2 + PieceLength(TextMinutes)
        /\ m = 0 => all = one /\ two = one
        /\ TextLength(one) + 2 + PieceLength(TextMinutes) <= MAX_INT_NUM_DIGITS => two = all
    <3>1. PartIsShown(two, all, one, m, TextMinutes)
      <4>1. one \in Seq(TimePiece) /\ m \in 0 .. 99 /\ TextMinutes \in TimeWord
        BY <1>1, <1>3, <1>5
      <4>2. QED
        BY <4>1, PartShown
    <3> HIDE DEF all, two
    <3>2. QED
      BY <3>1 DEF PartIsShown
  <2> HIDE DEF all, two
  <2>2. two = all
    BY <1>3, <1>4, <1>5, <1>6, <2>1
  <2>3. TextLength(two) <= 10
    <3>1. TextLength(all) \in Nat
      BY <1>3, <2>1, TimeLengthens DEF TimePiece
    <3>2. QED
      BY <1>3, <1>5, <1>6, <2>1, <2>2, <3>1
  <2>4. QED
    BY <2>1, <2>2, <2>3 DEF all
<1> HIDE DEF two
<1>8. /\ IsPrefix(shown, whole) /\ Len(shown) >= Len(two)
      /\ TextLength(two) + 2 + PieceLength(TextSeconds) <= MAX_INT_NUM_DIGITS => shown = whole
      /\ Len(whole) = Len(two) + IF s = 0 THEN 0 ELSE 2
  <2>1. PartIsShown(shown, whole, two, s, TextSeconds)
    <3>1. two \in Seq(TimePiece) /\ s \in 0 .. 99 /\ TextSeconds \in TimeWord
      BY <1>1, <1>3, <1>7
    <3>2. QED
      BY <3>1, PartShown
  <2> HIDE DEF shown, whole
  <2>2. QED
    BY <2>1 DEF PartIsShown
<1>9. whole = WholeTime(n)
  <2>1. one = NonZero(h, TextHours)
    <3>1. NonZero(h, TextHours) \in Seq(TimePiece)
      <4>1. Number(h) \in TimePiece /\ TextHours \in TimePiece
        BY <1>1, <1>3 DEF TimePiece
      <4>2. QED
        BY <1>2, <4>1 DEF NonZero
    <3>2. << >> \o NonZero(h, TextHours) = NonZero(h, TextHours)
      BY <1>2, <3>1, ConcatEmptySeq
    <3>3. QED
      BY <1>5, <3>2
  <2>2. QED
    BY <1>1, <1>7, <2>1 DEF WholeTime
<1>10. Len(shown) >= 2
  <2>1. CASE h = 0 /\ m = 0
    <3>1. two = << >> /\ s # 0
      BY <1>1, <1>5, <1>7, <2>1
    <3> HIDE DEF shown, whole
    <3>2. shown = whole
      BY <1>2, <1>3, <1>4, <1>8, <3>1
    <3>3. QED
      BY <1>2, <1>8, <3>1, <3>2, SMTT(30)
  <2>2. CASE ~(h = 0 /\ m = 0)
    <3> HIDE DEF shown, whole
    <3>1. Len(two) >= 2
      <4>1. CASE h # 0
        BY <1>5, <1>7, <4>1
      <4>2. CASE h = 0 /\ m # 0
        BY <1>2, <1>5, <1>7, <4>2
      <4>3. QED
        BY <2>2, <4>1, <4>2
    <3>2. Len(two) \in Nat
      BY <1>7, LenProperties
    <3>3. Len(shown) \in Nat \/ Len(shown) \in Int
      BY <1>8, <1>9 DEF IsPrefix
    <3>4. QED
      BY <1>8, <3>1, <3>2
  <2>3. QED
    BY <2>1, <2>2
<1>11. QED
  BY <1>8, <1>9, <1>10 DEF shown, two, one, h, m, s

(* A negative int has no positive hours, minutes or seconds.               *)
LEMMA NegativeParts ==
    ASSUME NEW n \in Int, n < 0
    PROVE  /\ Hours(n) \in Int /\ Hours(n) <= 0
           /\ Minutes(n) \in Int /\ Minutes(n) <= 0
           /\ Seconds(n) \in Int /\ Seconds(n) <= 0
<1> DEFINE up == -n
           h == up \div 3600
           rest == up - 3600 * h
           m == rest \div 60
<1>1. up \in Nat /\ h \in Nat /\ rest \in 0 .. 3599
  OBVIOUS
<1>2. m \in Nat /\ rest - 60 * m \in Nat
  <2> HIDE DEF rest
  <2>1. QED
    BY <1>1
<1>3. Hours(n) = -h
  BY DEF Hours, Quotient
<1>4. n - 3600 * Hours(n) = -rest
  BY <1>1, <1>3
<1>5. Minutes(n) = -m
  <2> HIDE DEF rest
  <2>1. CASE rest = 0
    BY <1>1, <1>4, <2>1 DEF Minutes, Quotient
  <2>2. CASE rest # 0
    <3>1. -rest < 0 /\ -(-rest) = rest
      BY <1>1, <2>2
    <3>2. Minutes(n) = Quotient(-rest, 60)
      BY <1>4 DEF Minutes
    <3>3. Quotient(-rest, 60) = -m
      <4> DEFINE a == -rest
      <4>1. a < 0 /\ -a = rest /\ a \in Int
        BY <1>1, <3>1
      <4> HIDE DEF a
      <4>2. ~(a >= 0)
        BY <4>1
      <4>3. Quotient(a, 60) = -((-a) \div 60)
        BY <4>2 DEF Quotient
      <4>4. QED
        BY <4>1, <4>3 DEF a
    <3>4. QED
      BY <3>2, <3>3
  <2>3. QED
    BY <2>1, <2>2
<1>6. Seconds(n) = -(rest - 60 * m)
  <2> HIDE DEF rest, m, h
  <2>1. QED
    BY <1>1, <1>2, <1>4, <1>5 DEF Seconds
<1> HIDE DEF h, m, rest
<1>7. QED
  BY <1>1, <1>2, <1>3, <1>5, <1>6

(* A part without a number above zero adds none to a time (append_time).   *)
LEMMA NumberlessPart ==
    ASSUME NEW value \in Int, value <= 0, NEW word \in TimeWord,
           NEW time \in Seq(TimeWord \cup {Number(v) : v \in {k \in Int : k < 0}})
    PROVE  append_time(value, word, time)
              \in Seq(TimeWord \cup {Number(v) : v \in {k \in Int : k < 0}})
<1> DEFINE P == TimeWord \cup {Number(v) : v \in {k \in Int : k < 0}}
<1>1. word \in P /\ (value # 0 => Number(value) \in P)
  OBVIOUS
<1> HIDE DEF P
<1>2. ASSUME NEW t \in Seq(P), NEW piece \in P
      PROVE  append_to_str(piece, t) \in Seq(P)
  <2>1. Append(t, piece) \in Seq(P)
    BY <1>2, AppendProperties
  <2>2. QED
    BY <1>2, <2>1 DEF append_to_str
<1>3. time \in Seq(P)
  BY DEF P
<1>4. append_time(value, word, time) \in Seq(P)
  BY <1>1, <1>2, <1>3 DEF append_time
<1>5. QED
  BY <1>4 DEF P

(* A validity that has wrapped around to a negative int is shown without   *)
(* a number (seconds_to_time).                                             *)
LEMMA NegativeTime ==
    ASSUME NEW n \in Int, n < 0
    PROVE  HasNoNumber(append_time(Seconds(n), TextSeconds,
                         append_time(Minutes(n), TextMinutes,
                           append_time(Hours(n), TextHours, << >>))))
<1> DEFINE P == TimeWord \cup {Number(v) : v \in {k \in Int : k < 0}}
           one == append_time(Hours(n), TextHours, << >>)
           two == append_time(Minutes(n), TextMinutes, one)
           shown == append_time(Seconds(n), TextSeconds, two)
<1>1. /\ Hours(n) \in Int /\ Hours(n) <= 0
      /\ Minutes(n) \in Int /\ Minutes(n) <= 0
      /\ Seconds(n) \in Int /\ Seconds(n) <= 0
  BY NegativeParts
<1>2. TextHours \in TimeWord /\ TextMinutes \in TimeWord /\ TextSeconds \in TimeWord
  BY DEF TimeWord
<1>3. << >> \in Seq(P)
  BY EmptySeq
<1>4. one \in Seq(P)
  BY <1>1, <1>2, <1>3, NumberlessPart
<1> HIDE DEF one
<1>5. two \in Seq(P)
  BY <1>1, <1>2, <1>4, NumberlessPart
<1> HIDE DEF two
<1>6. shown \in Seq(P)
  BY <1>1, <1>2, <1>5, NumberlessPart
<1> HIDE DEF shown
<1>7. ASSUME NEW i \in DOMAIN shown
      PROVE  shown[i] \in TimeWord \/ shown[i].number < 0
  <2>1. shown[i] \in P
    BY <1>6, <1>7, LenProperties, ElementOfSeq
  <2>2. \A v \in Int : Number(v).number = v
    BY DEF Number
  <2>3. QED
    BY <2>1, <2>2
<1>8. HasNoNumber(shown)
  BY <1>7 DEF HasNoNumber, TimeWord
<1>9. QED
  BY <1>8 DEF shown, two, one

(* What the three cases of seconds_to_time show of an int.                 *)
LEMMA CasesOfTheInt ==
    ASSUME NEW n \in Int, MAX_INT_NUM_DIGITS >= 10, NEW time, NEW shown,
           time = append_time(Seconds(n), TextSeconds,
                    append_time(Minutes(n), TextMinutes,
                      append_time(Hours(n), TextHours, << >>))),
           shown = IF n = 0 THEN NoTime ELSE IF Hours(n) > 24 THEN MoreThanADay ELSE time
    PROVE  /\ n = 0 => shown = NoTime
           /\ n >= 25 * 3600 => shown = MoreThanADay
           /\ 0 < n /\ n < 25 * 3600 => Len(shown) >= 2 /\ IsPrefix(shown, WholeTime(n))
           /\ n < 0 => HasNoNumber(shown)
<1>1. ASSUME n >= 0
      PROVE  /\ Hours(n) \in Nat
             /\ n >= 90000 => Hours(n) > 24
             /\ n < 90000 => Hours(n) <= 24
  <2> DEFINE h == Hours(n)
             m == Minutes(n)
             s == Seconds(n)
  <2>1. n \in Nat
    BY <1>1
  <2>2. h \in Nat /\ m \in 0 .. 59 /\ s \in 0 .. 59 /\ n = 3600 * h + 60 * m + s
    BY <2>1, TimeParts
  <2> HIDE DEF h, m, s
  <2>3. (n >= 90000 => h > 24) /\ (n < 90000 => h <= 24)
    BY <2>1, <2>2
  <2>4. QED
    BY <2>2, <2>3 DEF h
<1>2. ASSUME n >= 25 * 3600
      PROVE  shown = MoreThanADay
  <2>1. 25 * 3600 = 90000
    OBVIOUS
  <2>2. n >= 90000
    BY <1>2, <2>1
  <2>3. n >= 0 /\ n # 0
    BY <2>2
  <2>4. Hours(n) > 24
    BY <1>1, <2>2, <2>3
  <2>5. QED
    BY <2>3, <2>4
<1>3. ASSUME 0 < n /\ n < 25 * 3600
      PROVE  Len(shown) >= 2 /\ IsPrefix(shown, WholeTime(n))
  <2>1. n \in Nat \ {0} /\ n < 90000
    <3>1. 25 * 3600 = 90000
      OBVIOUS
    <3>2. QED
      BY <1>3, <3>1
  <2>2. Hours(n) \in Nat /\ Hours(n) <= 24
    <3>1. n >= 0
      BY <2>1
    <3>2. QED
      BY <1>1, <2>1, <3>1
  <2>3. shown = time
    BY <2>1, <2>2
  <2>4. QED
    BY <2>1, <2>2, <2>3, TimeIsShown
<1>4. ASSUME n < 0
      PROVE  HasNoNumber(shown)
  <2>1. Hours(n) \in Int /\ Hours(n) <= 0
    BY <1>4, NegativeParts
  <2>2. shown = time
    BY <1>4, <2>1
  <2>3. QED
    BY <1>4, <2>2, NegativeTime
<1>5. QED
  BY <1>2, <1>3, <1>4

(* What is shown of a validity is what is to be said of the int that atoi  *)
(* makes of it, whether or not it has wrapped around, for all texts of a   *)
(* validity and all widths of an int, if all numbers of two parts fit      *)
(* (seconds_to_time).                                                      *)
THEOREM ValiditiesAreThoseOfTheInt ==
    ASSUME NoInput.kind # "ttl", MAX_INT_NUM_DIGITS >= 10,
           \A i \in Input : i.kind = "ttl" => i.str \in Seq(Nat)
    PROVE  TextSpec => []TtlTextIsOfTheInt
<1>1. input \in Input \cup {NoInput} => TtlTextIsOfTheInt
  <2>1. SUFFICES ASSUME input \in Input \cup {NoInput}, Is("ttl")
                 PROVE  TtlTextIsOfTheInt
    BY DEF TtlTextIsOfTheInt
  <2> DEFINE str == input.str
             n == AsInt(Validity)
             time == append_time(Seconds(n), TextSeconds,
                       append_time(Minutes(n), TextMinutes,
                         append_time(Hours(n), TextHours, << >>)))
  <2>2. str \in Seq(Nat)
    BY <2>1 DEF Is
  <2>3. n \in Int
    <3>1. NumbersOf(str, 10) \in [0 .. Len(str) -> Nat] /\ Len(str) \in 0 .. Len(str)
      <4>1. Len(str) \in Nat
        BY <2>2, LenProperties
      <4>2. NumbersOf(str, 10) \in [0 .. Len(str) -> Nat]
        <5> HIDE DEF str
        <5>1. QED
          BY <2>2, NumberSteps
      <4>3. QED
        BY <4>1, <4>2
    <3>2. Validity \in Nat
      BY <3>1 DEF Validity, NumberOf
    <3> HIDE DEF str
    <3>3. IntValues \in Nat \ {0}
      BY TokenTextAssumption
    <3>4. Validity % IntValues \in Int
      BY <3>2, <3>3
    <3>5. QED
      BY <3>3, <3>4 DEF AsInt
  <2>4. ~AllDigits(str) => ShownValidity = NoTime
    <3>1. ~AllDigits(str) => atoi(str) = 0
      BY DEF AllDigits, is_digit, atoi
    <3>2. QED
      BY <3>1 DEF seconds_to_time, ShownValidity
  <2>5. AllDigits(str) => atoi(str) = n
    BY <2>2, TtlIsReadAsInt DEF Validity
  <2>6. AllDigits(str) =>
           ShownValidity = IF n = 0 THEN NoTime ELSE IF Hours(n) > 24 THEN MoreThanADay ELSE time
    BY <2>5 DEF seconds_to_time, ShownValidity
  <2> DEFINE shown == ShownValidity
  <2> HIDE DEF n, time, shown
  <2>7. AllDigits(str) =>
           /\ n = 0 => shown = NoTime
           /\ n >= 25 * 3600 => shown = MoreThanADay
           /\ 0 < n /\ n < 25 * 3600 => Len(shown) >= 2 /\ IsPrefix(shown, WholeTime(n))
           /\ n < 0 => HasNoNumber(shown)
    <3>1. AllDigits(str) =>
             shown = IF n = 0 THEN NoTime ELSE IF Hours(n) > 24 THEN MoreThanADay ELSE time
      BY <2>6 DEF shown
    <3>2. time = append_time(Seconds(n), TextSeconds,
                   append_time(Minutes(n), TextMinutes,
                     append_time(Hours(n), TextHours, << >>)))
      BY DEF time
    <3>3. SUFFICES ASSUME AllDigits(str)
                   PROVE  /\ n = 0 => shown = NoTime
                          /\ n >= 25 * 3600 => shown = MoreThanADay
                          /\ 0 < n /\ n < 25 * 3600 =>
                                Len(shown) >= 2 /\ IsPrefix(shown, WholeTime(n))
                          /\ n < 0 => HasNoNumber(shown)
      OBVIOUS
    <3>4. shown = IF n = 0 THEN NoTime ELSE IF Hours(n) > 24 THEN MoreThanADay ELSE time
      BY <3>1, <3>3
    <3>5. QED
      BY <2>3, <3>2, <3>4, CasesOfTheInt
  <2>8. QED
    BY <2>4, <2>7, ZenonT(60) DEF TtlTextIsOfTheInt, n, shown
<1>2. QED
  BY <1>1, InputStays, PTL

(***************************************************************************)
(* The worth of an amount.                                                 *)
(***************************************************************************)
(* Zeros in front of digits do not change the number they write.           *)
LEMMA LeadingZeros ==
    ASSUME NEW digits \in Seq(Nat), NEW m \in Nat
    PROVE  /\ Zeros(m) \o digits \in Seq(Nat) /\ Len(Zeros(m) \o digits) = m + Len(digits)
           /\ NumberOf(Zeros(m) \o digits, 10) = NumberOf(digits, 10)
<1> DEFINE N == Len(digits)
           zeros == Zeros(m)
           padded == zeros \o digits
           f == NumbersOf(padded, 10)
           g == NumbersOf(digits, 10)
<1>1. zeros \in Seq(Nat) /\ Len(zeros) = m /\ \A i \in 1 .. m : zeros[i] = 0
  <2>1. zeros \in [1 .. m -> Nat] /\ \A i \in 1 .. m : zeros[i] = 0
    BY DEF Zeros
  <2> HIDE DEF zeros
  <2>2. QED
    BY <2>1, IsASeq, LenProperties
<1>2. N \in Nat
  BY LenProperties
<1> HIDE DEF zeros
<1>3. /\ padded \in Seq(Nat) /\ Len(padded) = m + N
      /\ \A i \in 1 .. m + N : padded[i] = IF i <= m THEN zeros[i] ELSE digits[i - m]
  BY <1>1, ConcatProperties
<1> HIDE DEF padded
<1>4. f \in [0 .. m + N -> Nat] /\ f[0] = 0 /\ \A k \in 1 .. m + N : f[k] = f[k - 1] * 10 + padded[k]
  <2>1. /\ f \in [0 .. Len(padded) -> Nat] /\ f[0] = 0
        /\ \A k \in 1 .. Len(padded) : f[k] = f[k - 1] * 10 + padded[k]
    BY <1>3, NumberSteps
  <2> HIDE DEF f
  <2>2. QED
    BY <1>3, <2>1
<1>5. g \in [0 .. N -> Nat] /\ g[0] = 0 /\ \A k \in 1 .. N : g[k] = g[k - 1] * 10 + digits[k]
  BY NumberSteps
<1>6. NumberOf(padded, 10) = f[m + N] /\ NumberOf(digits, 10) = g[N]
  BY <1>3 DEF NumberOf
<1> HIDE DEF f, g, N
<1> DEFINE S == {k \in Nat : k <= m => f[k] = 0}
           T == {k \in Nat : k <= N => f[m + k] = g[k]}
<1>7. f[m] = 0
  <2>1. 0 \in S
    BY <1>4
  <2>2. ASSUME NEW k \in Nat, k \in S
        PROVE  k + 1 \in S
    <3>1. SUFFICES ASSUME k + 1 <= m
                   PROVE  f[k + 1] = 0
      OBVIOUS
    <3>2. k + 1 \in 1 .. m + N /\ k + 1 \in 1 .. m /\ (k + 1) - 1 = k /\ f[k] = 0
      BY <1>2, <2>2, <3>1
    <3>3. padded[k + 1] = 0
      BY <1>1, <1>3, <3>2
    <3>4. QED
      BY <1>4, <3>2, <3>3
  <2>3. \A k \in Nat : k \in S
    <3> HIDE DEF S
    <3>1. QED
      BY <2>1, <2>2, NatSetInduction
  <2>4. QED
    BY <2>3
<1>8. 0 \in T
  BY <1>5, <1>7
<1>9. ASSUME NEW k \in Nat, k \in T
      PROVE  k + 1 \in T
  <2>1. SUFFICES ASSUME k + 1 <= N
                 PROVE  f[m + (k + 1)] = g[k + 1]
    OBVIOUS
  <2>2. /\ m + (k + 1) \in 1 .. m + N /\ ~(m + (k + 1) <= m) /\ (m + (k + 1)) - m = k + 1
        /\ (m + (k + 1)) - 1 = m + k /\ k + 1 \in 1 .. N /\ (k + 1) - 1 = k /\ f[m + k] = g[k]
    BY <1>2, <1>9, <2>1
  <2>3. padded[m + (k + 1)] = digits[k + 1]
    BY <1>3, <2>2
  <2>4. QED
    BY <1>4, <1>5, <2>2, <2>3
<1>10. \A k \in Nat : k \in T
  <2> HIDE DEF T
  <2>1. QED
    BY <1>8, <1>9, NatSetInduction
<1>11. f[m + N] = g[N]
  BY <1>2, <1>10
<1>12. QED
  BY <1>3, <1>6, <1>11 DEF padded, zeros, N

(* The last of the characters that are not this one, if there is one.      *)
LEMMA LastIsFound ==
    ASSUME NEW written \in Seq(Nat), NEW c, NEW p \in 1 .. Len(written), written[p] # c
    PROVE  /\ LastNot(c, written) \in p .. Len(written) /\ written[LastNot(c, written)] # c
           /\ \A i \in LastNot(c, written) + 1 .. Len(written) : written[i] = c
<1> DEFINE I == {i \in 1 .. Len(written) : written[i] # c}
           k == Max(I)
<1>1. Len(written) \in Nat
  BY LenProperties
<1>2. p \in I /\ I \subseteq 0 .. Len(written) /\ I # {}
  BY <1>1
<1>3. LastNot(c, written) = k
  BY <1>2 DEF LastNot, SelectLastInSeq
<1> HIDE DEF I
<1>4. k \in I /\ \A i \in I : k >= i
  BY <1>1, <1>2, LargestMember
<1> HIDE DEF k
<1>5. k \in p .. Len(written) /\ written[k] # c
  BY <1>1, <1>2, <1>4 DEF I
<1>6. ASSUME NEW i \in k + 1 .. Len(written)
      PROVE  written[i] = c
  <2>1. i \in 1 .. Len(written) /\ ~(k >= i)
    BY <1>1, <1>5
  <2>2. i \notin I
    BY <1>4, <2>1
  <2>3. QED
    BY <2>1, <2>2 DEF I
<1>7. QED
  BY <1>3, <1>5, <1>6

(* The characters around the dot.                                          *)
LEMMA DottedCharacters ==
    ASSUME NEW digits \in Seq(Nat), NEW decimals \in Nat, decimals <= Len(digits)
    PROVE  LET q == Len(digits) - decimals
               w == WithDot(digits, decimals)
           IN  /\ w \in Seq(Nat) /\ Len(w) = Len(digits) + 1 /\ w[q + 1] = Dot
               /\ \A i \in 1 .. q : w[i] = digits[i]
               /\ \A i \in q + 1 .. Len(digits) : w[i + 1] = digits[i]
<1> DEFINE N == Len(digits)
           q == N - decimals
           whole == SubSeq(digits, 1, q)
           decimal == SubSeq(digits, q + 1, N)
           front == whole \o <<Dot>>
           w == WithDot(digits, decimals)
<1>1. N \in Nat /\ q \in 0 .. N /\ q \in Nat /\ N - q = decimals /\ N \in 0 .. N
  BY LenProperties
<1>2. w = front \o decimal
  BY DEF WithDot
<1> HIDE DEF w
<1>3. w \in Seq(Nat) /\ Len(w) = N + 1
  BY DottedLength DEF w
<1>4. /\ whole \in Seq(Nat) /\ Len(whole) = q
      /\ \A i \in 1 .. q : whole[i] = digits[i]
  <2> HIDE DEF q
  <2>1. 0 + 1 = 1 /\ q - 0 = q /\ 0 \in 0 .. q /\ (IF 1 <= q THEN q - 1 + 1 ELSE 0) = q
    BY <1>1
  <2>2. whole \in Seq(Nat) /\ Len(whole) = q
    BY <1>1, <2>1, PieceLengths
  <2>3. \A i \in 1 .. q - 1 + 1 : whole[i] = digits[1 + i - 1]
    <3>1. \A i \in 1 .. q : digits[i] \in Nat
      BY <1>1, ElementOfSeq
    <3>2. 1 \in Int /\ q \in Int
      BY <1>1
    <3>3. QED
      BY <3>1, <3>2, SubSeqProperties
  <2>4. QED
    BY <1>1, <2>2, <2>3, SMTT(30)
<1>5. /\ decimal \in Seq(Nat) /\ Len(decimal) = decimals
      /\ \A i \in 1 .. decimals : decimal[i] = digits[q + i]
  <2> HIDE DEF q
  <2>1. decimal \in Seq(Nat) /\ Len(decimal) = decimals
    BY <1>1, PieceLengths
  <2>2. \A i \in 1 .. N - (q + 1) + 1 : decimal[i] = digits[(q + 1) + i - 1]
    <3>1. \A i \in q + 1 .. N : digits[i] \in Nat
      BY <1>1, ElementOfSeq
    <3>2. q + 1 \in Int /\ N \in Int
      BY <1>1
    <3>3. QED
      BY <3>1, <3>2, SubSeqProperties
  <2>3. \A i \in 1 .. decimals : i \in 1 .. N - (q + 1) + 1 /\ (q + 1) + i - 1 = q + i
    BY <1>1
  <2>4. QED
    BY <2>1, <2>2, <2>3
<1> HIDE DEF q, whole, decimal
<1>6. /\ front \in Seq(Nat) /\ Len(front) = q + 1 /\ front[q + 1] = Dot
      /\ \A i \in 1 .. q : front[i] = digits[i]
  <2>1. <<Dot>> \in Seq(Nat) /\ Len(<<Dot>>) = 1 /\ <<Dot>>[1] = Dot
    BY DEF Dot
  <2>2. /\ front \in Seq(Nat) /\ Len(front) = q + 1
        /\ \A i \in 1 .. q + 1 : front[i] = IF i <= q THEN whole[i] ELSE <<Dot>>[i - q]
    BY <1>4, <2>1, ConcatProperties
  <2>3. \A i \in 1 .. q : i \in 1 .. q + 1 /\ i <= q
    BY <1>1
  <2>4. q + 1 \in 1 .. q + 1 /\ ~(q + 1 <= q) /\ (q + 1) - q = 1
    BY <1>1
  <2> HIDE DEF front
  <2>5. \A i \in 1 .. q : front[i] = digits[i]
    BY <1>4, <2>2, <2>3
  <2>6. front[q + 1] = Dot
    BY <2>1, <2>2, <2>4
  <2>7. QED
    BY <2>2, <2>5, <2>6
<1> HIDE DEF front
<1>7. \A i \in 1 .. (q + 1) + decimals : w[i] = IF i <= q + 1 THEN front[i] ELSE decimal[i - (q + 1)]
  <2>1. \A i \in 1 .. Len(front) + Len(decimal) :
           (front \o decimal)[i] = IF i <= Len(front) THEN front[i] ELSE decimal[i - Len(front)]
    BY <1>5, <1>6, ConcatProperties
  <2>2. Len(front) = q + 1 /\ Len(decimal) = decimals
    BY <1>5, <1>6
  <2>3. QED
    BY <1>2, <2>1, <2>2
<1>8. \A i \in 1 .. q : w[i] = digits[i]
  <2>1. \A i \in 1 .. q : i \in 1 .. (q + 1) + decimals /\ i <= q + 1
    BY <1>1
  <2>2. QED
    BY <1>6, <1>7, <2>1
<1>9. w[q + 1] = Dot
  <2>1. q + 1 \in 1 .. (q + 1) + decimals /\ q + 1 <= q + 1
    BY <1>1
  <2>2. QED
    BY <1>6, <1>7, <2>1
<1>10. ASSUME NEW i \in q + 1 .. N
       PROVE  w[i + 1] = digits[i]
  <2>1. /\ i + 1 \in 1 .. (q + 1) + decimals /\ ~(i + 1 <= q + 1)
        /\ (i + 1) - (q + 1) = i - q /\ i - q \in 1 .. decimals /\ q + (i - q) = i
    BY <1>1
  <2>2. w[i + 1] = decimal[i - q]
    BY <1>7, <2>1
  <2>3. QED
    BY <1>5, <2>1, <2>2
<1>11. QED
  BY <1>3, <1>8, <1>9, <1>10 DEF w, q

(* What is shown are the digits, but for zeros at their end: as many as    *)
(* are missing in the decimals.                                            *)
ShowsDigits(shown, digits, decimals) ==
    LET dot == SelectInSeq(shown, LAMBDA c : c = Dot)
        whole == IF dot = 0 THEN shown ELSE SubSeq(shown, 1, dot - 1)
        decimal == IF dot = 0 THEN << >> ELSE SubSeq(shown, dot + 1, Len(shown))
        places == decimal \o Zeros(decimals - Len(decimal))
    IN  /\ whole # << >> /\ Len(places) = decimals
        /\ dot # 0 => Last(decimal) # 0
        /\ whole \o places = digits

(* A beginning of some digits and zeros after it are the digits, if these  *)
(* are zeros there.                                                        *)
LEMMA ZerosFollow ==
    ASSUME NEW digits \in Seq(Nat), NEW whole \in Seq(Nat), NEW decimal \in Seq(Nat), NEW n \in Nat,
           Len(whole) + Len(decimal) + n = Len(digits),
           \A i \in 1 .. Len(whole) : whole[i] = digits[i],
           \A i \in 1 .. Len(decimal) : decimal[i] = digits[Len(whole) + i],
           \A i \in Len(whole) + Len(decimal) + 1 .. Len(digits) : digits[i] = 0
    PROVE  /\ Len(decimal \o Zeros(n)) = Len(decimal) + n
           /\ whole \o (decimal \o Zeros(n)) = digits
<1> DEFINE a == Len(whole)
           b == Len(decimal)
           N == Len(digits)
           zeros == Zeros(n)
           places == decimal \o zeros
           all == whole \o places
<1>1. a \in Nat /\ b \in Nat /\ N \in Nat
  BY LenProperties
<1>2. zeros \in Seq(Nat) /\ Len(zeros) = n /\ \A i \in 1 .. n : zeros[i] = 0
  <2>1. zeros \in [1 .. n -> Nat] /\ \A i \in 1 .. n : zeros[i] = 0
    BY DEF Zeros
  <2> HIDE DEF zeros
  <2>2. QED
    BY <2>1, IsASeq, LenProperties
<1> HIDE DEF zeros
<1>3. /\ places \in Seq(Nat) /\ Len(places) = b + n
      /\ \A i \in 1 .. b + n : places[i] = IF i <= b THEN decimal[i] ELSE zeros[i - b]
  <2>1. /\ places \in Seq(Nat) /\ Len(places) = b + Len(zeros)
        /\ \A i \in 1 .. b + Len(zeros) : places[i] = IF i <= b THEN decimal[i] ELSE zeros[i - b]
    BY <1>2, ConcatProperties, ZenonT(60)
  <2> HIDE DEF places, b
  <2>2. QED
    BY <1>2, <2>1
<1> HIDE DEF places
<1>4. /\ all \in Seq(Nat) /\ Len(all) = a + (b + n)
      /\ \A i \in 1 .. a + (b + n) : all[i] = IF i <= a THEN whole[i] ELSE places[i - a]
  <2>1. /\ all \in Seq(Nat) /\ Len(all) = a + Len(places)
        /\ \A i \in 1 .. a + Len(places) : all[i] = IF i <= a THEN whole[i] ELSE places[i - a]
    BY <1>3, ConcatProperties, ZenonT(60)
  <2> HIDE DEF all
  <2>2. QED
    BY <1>3, <2>1
<1>5. /\ a + b + n = N /\ \A i \in 1 .. a : whole[i] = digits[i]
      /\ \A i \in 1 .. b : decimal[i] = digits[a + i]
      /\ \A i \in a + b + 1 .. N : digits[i] = 0
  OBVIOUS
<1> HIDE DEF all, a, b, N
<1>6. ASSUME NEW i \in 1 .. N
      PROVE  all[i] = digits[i]
  <2>1. CASE i <= a
    <3>1. i \in 1 .. a /\ i \in 1 .. a + (b + n)
      BY <1>1, <1>5, <2>1
    <3>2. QED
      BY <1>4, <1>5, <2>1, <3>1
  <2>2. CASE ~(i <= a) /\ i <= a + b
    <3>1. /\ i \in 1 .. a + (b + n) /\ i - a \in 1 .. b + n /\ i - a <= b /\ i - a \in 1 .. b
          /\ a + (i - a) = i
      BY <1>1, <1>5, <2>2
    <3>2. all[i] = places[i - a] /\ places[i - a] = decimal[i - a]
      BY <1>3, <1>4, <2>2, <3>1
    <3>3. QED
      BY <1>5, <3>1, <3>2
  <2>3. CASE ~(i <= a + b)
    <3>1. /\ i \in 1 .. a + (b + n) /\ ~(i <= a) /\ i - a \in 1 .. b + n /\ ~(i - a <= b)
          /\ (i - a) - b \in 1 .. n /\ i \in a + b + 1 .. N
      BY <1>1, <1>5, <2>3
    <3>2. all[i] = places[i - a] /\ places[i - a] = zeros[(i - a) - b]
      BY <1>3, <1>4, <3>1
    <3>3. QED
      BY <1>2, <1>5, <3>1, <3>2
  <2>4. QED
    BY <2>1, <2>2, <2>3
<1>7. all = digits
  <2>1. Len(all) = N
    BY <1>1, <1>4, <1>5
  <2>2. \A i \in 1 .. Len(all) : all[i] = digits[i]
    BY <1>6, <2>1
  <2>3. QED
    BY <1>4, <2>1, <2>2, SeqEqual DEF N
<1>8. QED
  BY <1>3, <1>7 DEF all, places, zeros, b

(* Taking the zeros and a dot at the end away leaves the digits shown.     *)
LEMMA TrimmedShowsDigits ==
    ASSUME NEW digits \in Seq(0 .. 9), NEW decimals \in Nat, decimals < Len(digits)
    PROVE  ShowsDigits(TrimDot(TrimZeros(WithDot(digits, decimals))), digits, decimals)
<1> DEFINE N == Len(digits)
           q == N - decimals
           w == WithDot(digits, decimals)
           k == LastNot(0, w)
           trimmed == TrimZeros(w)
           e == IF k = q + 1 THEN q ELSE k
           shown == TrimDot(trimmed)
<1>1. digits \in Seq(Nat) /\ \A i \in 1 .. N : digits[i] \in 0 .. 9
  <2>1. digits \in [1 .. N -> 0 .. 9] /\ N \in Nat
    BY LenProperties
  <2>2. digits \in [1 .. N -> Nat]
    BY <2>1
  <2>3. QED
    BY <2>1, <2>2, SeqDef, SMTT(30)
<1>2. N \in Nat /\ q \in 1 .. N /\ N - q = decimals
  BY LenProperties
<1>3. /\ w \in Seq(Nat) /\ Len(w) = N + 1 /\ w[q + 1] = Dot
      /\ \A i \in 1 .. q : w[i] = digits[i]
      /\ \A i \in q + 1 .. N : w[i + 1] = digits[i]
  <2>1. digits \in Seq(Nat) /\ decimals <= Len(digits)
    BY <1>1, <1>2
  <2>2. QED
    BY <2>1, DottedCharacters
<1> HIDE DEF q, N, w
<1>4. /\ k \in q + 1 .. N + 1 /\ w[k] # 0
      /\ \A i \in k + 1 .. N + 1 : w[i] = 0
  <2>1. q + 1 \in 1 .. Len(w) /\ w[q + 1] # 0
    BY <1>2, <1>3 DEF Dot
  <2>2. /\ k \in q + 1 .. Len(w) /\ w[k] # 0
        /\ \A i \in k + 1 .. Len(w) : w[i] = 0
    BY <1>3, <2>1, LastIsFound
  <2>3. QED
    BY <1>3, <2>2
<1>5. trimmed = SubSeq(w, 1, k)
  BY DEF TrimZeros
<1> HIDE DEF k, trimmed
<1>6. /\ trimmed \in Seq(Nat) /\ Len(trimmed) = k
      /\ \A i \in 1 .. k : trimmed[i] = w[i]
  <2>1. 1 \in Int /\ k \in Int /\ \A i \in 1 .. k : w[i] \in Nat
    <3>1. k \in Int /\ \A i \in 1 .. k : i \in 1 .. Len(w)
      BY <1>2, <1>3, <1>4
    <3>2. w \in Seq(Nat)
      BY <1>3
    <3>3. QED
      BY <3>1, <3>2, ElementOfSeq
  <2>2. /\ trimmed \in Seq(Nat) /\ Len(trimmed) = (IF 1 <= k THEN k - 1 + 1 ELSE 0)
        /\ \A i \in 1 .. k - 1 + 1 : trimmed[i] = w[1 + i - 1]
    BY <1>5, <2>1, SubSeqProperties
  <2>3. 1 <= k /\ k - 1 + 1 = k /\ \A i \in 1 .. k : 1 + i - 1 = i
    BY <1>2, <1>4
  <2>4. QED
    BY <2>2, <2>3
<1>7. \A i \in 1 .. N : digits[i] # Dot
  BY <1>1, SMTT(30) DEF Dot
<1>8. trimmed[k] = Dot <=> k = q + 1
  <2>1. k \in 1 .. k /\ trimmed[k] = w[k]
    BY <1>2, <1>4, <1>6
  <2>2. CASE k = q + 1
    BY <1>3, <2>1, <2>2
  <2>3. CASE k # q + 1
    <3>1. k - 1 \in q + 1 .. N /\ (k - 1) + 1 = k /\ k - 1 \in 1 .. N
      BY <1>2, <1>4, <2>3
    <3>2. w[k] = digits[k - 1]
      BY <1>3, <3>1
    <3>3. QED
      BY <1>7, <2>1, <2>3, <3>1, <3>2
  <2>4. QED
    BY <2>2, <2>3
<1>9. e \in q .. N + 1 /\ e <= k /\ e # q + 1 /\ e \in Nat /\ e >= 1
  BY <1>2, <1>4
<1>10. /\ shown \in Seq(Nat) /\ Len(shown) = e
       /\ \A i \in 1 .. e : shown[i] = w[i]
  <2>1. CASE k = q + 1
    <3>1. shown = SubSeq(trimmed, 1, k - 1)
      BY <1>6, <1>8, <2>1 DEF TrimDot, Last, Front
    <3>2. k - 1 = e /\ e \in 1 .. k
      BY <1>2, <2>1
    <3> HIDE DEF e, shown
    <3>3. 1 \in Int /\ e \in Int /\ \A i \in 1 .. e : trimmed[i] \in Nat
      <4>1. \A i \in 1 .. e : i \in 1 .. Len(trimmed)
        BY <1>6, <3>2
      <4>2. QED
        BY <1>6, <1>9, <4>1, ElementOfSeq
    <3>4. /\ shown \in Seq(Nat) /\ Len(shown) = (IF 1 <= e THEN e - 1 + 1 ELSE 0)
          /\ \A i \in 1 .. e - 1 + 1 : shown[i] = trimmed[1 + i - 1]
      BY <3>1, <3>2, <3>3, SubSeqProperties
    <3>5. 1 <= e /\ e - 1 + 1 = e /\ \A i \in 1 .. e : 1 + i - 1 = i /\ i \in 1 .. k
      BY <1>2, <1>4, <1>9, <3>2
    <3>6. QED
      BY <1>6, <3>4, <3>5
  <2>2. CASE k # q + 1
    BY <1>6, <1>8, <2>2 DEF TrimDot, Last
  <2>3. QED
    BY <2>1, <2>2
<1> DEFINE I == {i \in 1 .. Len(shown) : shown[i] = Dot}
           dot == SelectInSeq(shown, LAMBDA c : c = Dot)
<1>11. dot = IF e = q THEN 0 ELSE q + 1
  <2> HIDE DEF shown, e
  <2>1. I = IF e = q THEN {} ELSE {q + 1}
    <3>1. ASSUME NEW i \in 1 .. e, i # q + 1
          PROVE  shown[i] # Dot
      <4>1. CASE i <= q
        <5>1. i \in 1 .. q /\ i \in 1 .. N
          BY <1>2, <4>1
        <5>2. QED
          BY <1>3, <1>7, <1>10, <5>1
      <4>2. CASE ~(i <= q)
        <5>1. i - 1 \in q + 1 .. N /\ i - 1 \in 1 .. N /\ (i - 1) + 1 = i
          BY <1>2, <1>9, <3>1, <4>2
        <5>2. w[i] = digits[i - 1]
          BY <1>3, <5>1
        <5>3. QED
          BY <1>7, <1>10, <5>1, <5>2
      <4>3. QED
        BY <4>1, <4>2
    <3>2. CASE e = q
      <4>1. \A i \in 1 .. e : i # q + 1
        BY <1>2, <3>2
      <4>2. QED
        BY <1>10, <3>1, <3>2, <4>1
    <3>3. CASE e # q
      <4>1. q + 1 \in 1 .. e /\ shown[q + 1] = Dot
        BY <1>2, <1>3, <1>9, <1>10, <3>3
      <4>2. QED
        BY <1>10, <3>1, <3>3, <4>1
    <3>4. QED
      BY <3>2, <3>3
  <2>2. dot = IF I # {} THEN Min(I) ELSE 0
    BY DEF SelectInSeq
  <2>3. \A x \in Int : Min({x}) = x
    BY DEF Min
  <2> HIDE DEF I, dot
  <2>4. QED
    <3>1. CASE e = q
      BY <2>1, <2>2, <3>1
    <3>2. CASE e # q
      <4>1. I = {q + 1} /\ q + 1 \in Int
        BY <1>2, <2>1, <3>2
      <4>2. QED
        BY <2>2, <2>3, <3>2, <4>1
    <3>3. QED
      BY <3>1, <3>2
<1> DEFINE whole == IF dot = 0 THEN shown ELSE SubSeq(shown, 1, dot - 1)
           decimal == IF dot = 0 THEN << >> ELSE SubSeq(shown, dot + 1, Len(shown))
           n == decimals - Len(decimal)
<1> HIDE DEF dot
<1>12. q + 1 # 0 /\ (q + 1) - 1 = q /\ (q + 1) + 1 = q + 2 /\ q \in Nat /\ k \in Nat
  BY <1>2, <1>4
<1>13. whole \in Seq(Nat) /\ Len(whole) = q /\ \A i \in 1 .. q : whole[i] = digits[i]
  <2>1. \A i \in 1 .. q : i \in 1 .. e /\ shown[i] = digits[i]
    BY <1>2, <1>3, <1>9, <1>10, SMTT(30)
  <2>2. CASE e = q
    <3>1. whole = shown
      BY <1>11, <2>2
    <3> HIDE DEF whole, shown, e
    <3>2. QED
      BY <1>10, <2>1, <2>2, <3>1
  <2>3. CASE e # q
    <3>1. whole = SubSeq(shown, 1, q)
      BY <1>11, <1>12, <2>3
    <3> HIDE DEF whole, shown, e
    <3>2. 1 \in Int /\ q \in Int /\ \A i \in 1 .. q : shown[i] \in Nat
      <4>1. \A i \in 1 .. q : i \in 1 .. Len(shown)
        BY <1>10, <2>1
      <4>2. shown \in Seq(Nat)
        BY <1>10
      <4>3. QED
        BY <1>12, <4>1, <4>2, ElementOfSeq
    <3>3. /\ whole \in Seq(Nat) /\ Len(whole) = (IF 1 <= q THEN q - 1 + 1 ELSE 0)
          /\ \A i \in 1 .. q - 1 + 1 : whole[i] = shown[1 + i - 1]
      BY <3>1, <3>2, SubSeqProperties
    <3>4. 1 <= q /\ q - 1 + 1 = q /\ \A i \in 1 .. q : 1 + i - 1 = i
      BY <1>2
    <3>5. QED
      BY <2>1, <3>3, <3>4
  <2>4. QED
    BY <2>2, <2>3
<1>14. /\ decimal \in Seq(Nat) /\ Len(decimal) = (IF e = q THEN 0 ELSE k - (q + 1))
       /\ \A i \in 1 .. Len(decimal) : decimal[i] = digits[q + i]
       /\ e # q => decimal[Len(decimal)] # 0
  <2>1. CASE e = q
    <3>1. decimal = << >> /\ decimal \in Seq(Nat) /\ Len(decimal) = 0
      BY <1>11, <2>1
    <3> HIDE DEF decimal, e
    <3>2. QED
      BY <2>1, <3>1
  <2>2. CASE e # q
    <3>1. e = k /\ decimal = SubSeq(shown, q + 2, k)
      BY <1>10, <1>11, <1>12, <2>2
    <3> HIDE DEF decimal, shown, e
    <3>2. k >= q + 2
      BY <1>4, <1>9, <1>12, <2>2, <3>1
    <3>3. \A i \in q + 2 .. k : shown[i] = digits[i - 1] /\ shown[i] \in Nat
      <4>1. ASSUME NEW i \in q + 2 .. k
            PROVE  shown[i] = digits[i - 1] /\ shown[i] \in Nat
        <5>1. i \in 1 .. e /\ i \in 1 .. Len(shown) /\ i - 1 \in q + 1 .. N /\ (i - 1) + 1 = i
          BY <1>2, <1>4, <1>10, <1>12, <3>1
        <5>2. shown \in Seq(Nat)
          BY <1>10
        <5>3. shown[i] \in Nat
          BY <5>1, <5>2, ElementOfSeq
        <5>4. shown[i] = w[i] /\ w[i] = digits[i - 1]
          BY <1>3, <1>10, <5>1
        <5>5. QED
          BY <5>3, <5>4
      <4>2. QED
        BY <4>1
    <3>4. q + 2 \in Int /\ k \in Int /\ \A i \in q + 2 .. k : shown[i] \in Nat
      BY <1>12, <3>3
    <3>5. /\ decimal \in Seq(Nat)
          /\ Len(decimal) = (IF q + 2 <= k THEN k - (q + 2) + 1 ELSE 0)
          /\ \A i \in 1 .. k - (q + 2) + 1 : decimal[i] = shown[(q + 2) + i - 1]
      BY <3>1, <3>4, SubSeqProperties
    <3>6. /\ Len(decimal) = k - (q + 1)
          /\ \A i \in 1 .. k - (q + 1) : decimal[i] = shown[(q + 2) + i - 1]
      <4>1. q + 2 <= k /\ k - (q + 2) + 1 = k - (q + 1)
        BY <1>12, <3>2
      <4>2. QED
        BY <3>5, <4>1
    <3>7. \A i \in 1 .. k - (q + 1) :
             (q + 2) + i - 1 \in q + 2 .. k /\ ((q + 2) + i - 1) - 1 = q + i
      BY <1>12
    <3>8. \A i \in 1 .. Len(decimal) : decimal[i] = digits[q + i]
      BY <3>3, <3>6, <3>7
    <3>9. decimal[k - (q + 1)] # 0
      <4>1. k - (q + 1) \in 1 .. k - (q + 1) /\ (q + 2) + (k - (q + 1)) - 1 = k /\ k \in 1 .. e
        BY <1>12, <3>1, <3>2
      <4>2. decimal[k - (q + 1)] = shown[k] /\ shown[k] = w[k]
        BY <1>10, <3>6, <4>1
      <4>3. QED
        BY <1>4, <4>2
    <3>10. QED
      BY <2>2, <3>5, <3>6, <3>8, <3>9
  <2>3. QED
    BY <2>1, <2>2
<1> HIDE DEF whole, decimal
<1>15. n \in Nat /\ q + Len(decimal) + n = N /\ q + Len(decimal) + 1 = k
  <2>1. CASE e = q
    <3>1. Len(decimal) = 0 /\ k = q + 1
      BY <1>4, <1>12, <1>14, <2>1
    <3>2. QED
      BY <1>2, <1>12, <3>1
  <2>2. CASE e # q
    <3>1. Len(decimal) = k - (q + 1)
      BY <1>14, <2>2
    <3>2. QED
      BY <1>2, <1>4, <1>12, <3>1
  <2>3. QED
    BY <2>1, <2>2
<1> HIDE DEF n, shown, e
<1>16. \A i \in q + Len(decimal) + 1 .. N : digits[i] = 0
  <2>1. ASSUME NEW i \in q + Len(decimal) + 1 .. N
        PROVE  digits[i] = 0
    <3>1. i \in q + 1 .. N /\ i + 1 \in k + 1 .. N + 1
      BY <1>2, <1>4, <1>12, <1>15
    <3>2. QED
      BY <1>3, <1>4, <3>1
  <2>2. QED
    BY <2>1
<1>17. Len(decimal \o Zeros(n)) = Len(decimal) + n /\ whole \o (decimal \o Zeros(n)) = digits
  <2>1. /\ digits \in Seq(Nat) /\ whole \in Seq(Nat) /\ decimal \in Seq(Nat) /\ n \in Nat
        /\ Len(whole) + Len(decimal) + n = Len(digits)
    BY <1>1, <1>13, <1>14, <1>15 DEF N
  <2>2. /\ \A i \in 1 .. Len(whole) : whole[i] = digits[i]
        /\ \A i \in 1 .. Len(decimal) : decimal[i] = digits[Len(whole) + i]
    BY <1>13, <1>14
  <2>3. \A i \in Len(whole) + Len(decimal) + 1 .. Len(digits) : digits[i] = 0
    BY <1>13, <1>16 DEF N
  <2>4. QED
    BY <2>1, <2>2, <2>3, ZerosFollow, ZenonT(60)
<1>18. whole # << >>
  BY <1>2, <1>13
<1>19. dot # 0 => Last(decimal) # 0
  BY <1>11, <1>14 DEF Last
<1>20. Len(decimal \o Zeros(n)) = decimals
  BY <1>2, <1>12, <1>15, <1>17
<1>21. QED
  BY <1>17, <1>18, <1>19, <1>20 DEF ShowsDigits, whole, decimal, n, dot, shown, trimmed, w

(* Every amount that is accepted is shown for what it is worth, whatever   *)
(* the decimals and the size of the buffer (make_amount_pretty).           *)
THEOREM AmountsKeepTheirValue ==
    ASSUME NoInput.kind # "pretty",
           \A i \in Input : i.kind = "pretty" => i.amount \in Seq(0 .. 9) /\ i.decimals \in Nat
    PROVE  TextSpec => []PrettyKeepsValue
<1>1. input \in Input \cup {NoInput} => PrettyKeepsValue
  <2>1. SUFFICES ASSUME input \in Input \cup {NoInput}, Is("pretty"), PrettyInput.ok
                 PROVE  PrettyKeepsValue
    BY DEF PrettyKeepsValue
  <2> DEFINE amount == input.amount
             decimals == input.decimals
             missing == Missing(Len(amount), decimals)
             digits == Zeros(missing) \o amount
  <2>2. amount \in Seq(0 .. 9) /\ decimals \in Nat
    BY <2>1 DEF Is
  <2>3. PrettyInput.text = TrimDot(TrimZeros(WithDot(digits, decimals)))
    BY <2>1 DEF PrettyInput, make_amount_pretty
  <2>4. Len(amount) \in Nat
    BY <2>2, LenProperties
  <2> HIDE DEF amount, decimals
  <2>5. missing \in Nat /\ decimals < missing + Len(amount)
    BY <2>2, <2>4 DEF Missing
  <2> HIDE DEF missing
  <2>6. amount \in Seq(Nat)
    <3>1. amount \in [1 .. Len(amount) -> 0 .. 9]
      BY <2>2, LenProperties
    <3>2. amount \in [1 .. Len(amount) -> Nat]
      BY <3>1
    <3>3. QED
      BY <2>4, <3>2, SeqDef
  <2>7. Len(digits) = missing + Len(amount) /\ NumberOf(digits, 10) = NumberOf(amount, 10)
    BY <2>5, <2>6, LeadingZeros
  <2>8. digits \in Seq(0 .. 9)
    <3>1. Zeros(missing) \in [1 .. missing -> 0 .. 9]
      BY DEF Zeros
    <3>2. Zeros(missing) \in Seq(0 .. 9)
      BY <2>5, <3>1, SeqDef
    <3>3. QED
      BY <2>2, <3>2, ConcatProperties
  <2> HIDE DEF digits
  <2>9. ShowsDigits(PrettyInput.text, digits, decimals)
    BY <2>2, <2>3, <2>5, <2>7, <2>8, TrimmedShowsDigits
  <2> DEFINE shown == PrettyInput.text
  <2> HIDE DEF shown
  <2>10. ShowsDigits(shown, digits, decimals)
    BY <2>9 DEF shown
  <2>11. QED
    BY <2>7, <2>10 DEF PrettyKeepsValue, ShowsDigits, shown, amount, decimals
<1>2. QED
  BY <1>1, InputStays, PTL

(***************************************************************************)
(* The text of a length.                                                   *)
(***************************************************************************)
(* What holds for zero and for a number if it holds for all smaller ones,  *)
(* holds for all natural numbers.                                          *)
LEMMA SmallerNumbers ==
    ASSUME NEW S, \A n \in Nat : (\A k \in 0 .. n - 1 : k \in S) => n \in S
    PROVE  \A n \in Nat : n \in S
<1> DEFINE T == {n \in Nat : \A k \in 0 .. n : k \in S}
<1>1. 0 \in T
  <2>1. 0 \in S
    <3>1. \A k \in 0 .. 0 - 1 : k \in S
      OBVIOUS
    <3>2. QED
      BY <3>1
  <2>2. QED
    BY <2>1
<1>2. ASSUME NEW n \in Nat, n \in T
      PROVE  n + 1 \in T
  <2>1. \A k \in 0 .. (n + 1) - 1 : k \in S
    BY <1>2
  <2>2. n + 1 \in S
    BY <2>1
  <2>3. QED
    BY <1>2, <2>2
<1>3. \A n \in Nat : n \in T
  <2> HIDE DEF T
  <2>1. QED
    BY <1>1, <1>2, NatSetInduction
<1>4. QED
  BY <1>3

(* A tenth of a number is smaller.                                         *)
LEMMA TenthIsSmaller ==
    \A k \in Nat : k \div 10 \in 0 .. k /\ (k >= 10 => k \div 10 \in 0 .. k - 1 /\ k \div 10 >= 1)
  OBVIOUS

(* What is made of a number digit by digit, from that of its tenth.        *)
Digitwise(d, n, first, step) ==
    \A k \in 0 .. n : d[k] = IF k < 10 THEN first[k] ELSE step[k][d[k \div 10]]

LEMMA DigitByDigit ==
    ASSUME NEW State, NEW first \in [Nat -> State], NEW step \in [Nat -> [State -> State]]
    PROVE  \A n \in Nat : \E d \in [0 .. n -> State] : Digitwise(d, n, first, step)
<1> DEFINE S == {n \in Nat : \E d \in [0 .. n -> State] : Digitwise(d, n, first, step)}
<1>1. 0 \in S
  <2> DEFINE d == [k \in 0 .. 0 |-> first[k]]
  <2>1. d \in [0 .. 0 -> State] /\ \A k \in 0 .. 0 : d[k] = first[k] /\ k < 10
    OBVIOUS
  <2> HIDE DEF d
  <2>2. Digitwise(d, 0, first, step)
    BY <2>1 DEF Digitwise
  <2>3. QED
    BY <2>1, <2>2
<1>2. ASSUME NEW n \in Nat, n \in S
      PROVE  n + 1 \in S
  <2>1. PICK d \in [0 .. n -> State] : Digitwise(d, n, first, step)
    BY <1>2
  <2> DEFINE last == IF n + 1 < 10 THEN first[n + 1] ELSE step[n + 1][d[(n + 1) \div 10]]
             e == [k \in 0 .. n + 1 |-> IF k = n + 1 THEN last ELSE d[k]]
  <2>2. last \in State
    <3>1. CASE n + 1 < 10
      BY <3>1
    <3>2. CASE ~(n + 1 < 10)
      <4>1. (n + 1) \div 10 \in 0 .. n
        BY <3>2, TenthIsSmaller
      <4>2. d[(n + 1) \div 10] \in State /\ step[n + 1] \in [State -> State]
        BY <4>1
      <4> HIDE DEF e
      <4>3. QED
        BY <3>2, <4>2
    <3>3. QED
      BY <3>1, <3>2
  <2>3. /\ e \in [0 .. n + 1 -> State] /\ e[n + 1] = last
        /\ \A k \in 0 .. n : e[k] = d[k]
    <3> HIDE DEF last
    <3>1. QED
      BY <2>2
  <2> HIDE DEF e
  <2>4. ASSUME NEW k \in 0 .. n + 1
        PROVE  e[k] = IF k < 10 THEN first[k] ELSE step[k][e[k \div 10]]
    <3>1. CASE k < 10
      BY <2>1, <2>3, <3>1 DEF Digitwise
    <3>2. CASE ~(k < 10)
      <4>1. k \div 10 \in 0 .. n
        BY <3>2, TenthIsSmaller
      <4>2. e[k \div 10] = d[k \div 10]
        BY <2>3, <4>1
      <4>3. QED
        BY <2>1, <2>3, <3>2, <4>2 DEF Digitwise
    <3>3. QED
      BY <3>1, <3>2
  <2>5. Digitwise(e, n + 1, first, step)
    BY <2>4 DEF Digitwise
  <2>6. QED
    BY <2>3, <2>5
<1>3. \A n \in Nat : n \in S
  <2> HIDE DEF S
  <2>1. QED
    BY <1>1, <1>2, NatSetInduction
<1>4. QED
  BY <1>3

(* It is the same for a number, whatever larger number it is made for.     *)
LEMMA DigitwiseIsUnique ==
    ASSUME NEW first, NEW step, NEW d, NEW e, NEW n \in Nat, NEW m \in Nat,
           Digitwise(d, n, first, step), Digitwise(e, m, first, step)
    PROVE  \A k \in Nat : k <= n /\ k <= m => d[k] = e[k]
<1> DEFINE S == {k \in Nat : k <= n /\ k <= m => d[k] = e[k]}
<1>1. ASSUME NEW k \in Nat, \A j \in 0 .. k - 1 : j \in S
      PROVE  k \in S
  <2>1. SUFFICES ASSUME k <= n, k <= m
                 PROVE  d[k] = e[k]
    OBVIOUS
  <2>2. k \in 0 .. n /\ k \in 0 .. m
    BY <2>1
  <2>3. k >= 10 => d[k \div 10] = e[k \div 10]
    <3>1. SUFFICES ASSUME k >= 10
                   PROVE  d[k \div 10] = e[k \div 10]
      OBVIOUS
    <3> DEFINE j == k \div 10
    <3>2. j \in 0 .. k - 1
      BY <3>1, TenthIsSmaller
    <3> HIDE DEF j
    <3>3. j \in S /\ j <= n /\ j <= m
      BY <1>1, <2>1, <3>2
    <3>4. d[j] = e[j]
      BY <3>3
    <3>5. QED
      BY <3>4 DEF j
  <2>4. QED
    BY <2>2, <2>3 DEF Digitwise
<1>2. \A k \in Nat : k \in S
  <2> HIDE DEF S
  <2>1. QED
    BY <1>1, SmallerNumbers
<1>3. QED
  BY <1>2

(* The last digit of a number stands after the digits of its tenth.        *)
LEMMA DigitsOfTenth ==
    \A n \in Nat : /\ DigitsOf(n) \in Seq(Nat)
                   /\ n < 10 => DigitsOf(n) = <<n>>
                   /\ n >= 10 => DigitsOf(n) = Append(DigitsOf(n \div 10), n % 10)
<1> DEFINE State == Seq(Nat)
           first == [k \in Nat |-> <<k>>]
           step == [k \in Nat |-> [s \in State |-> Append(s, k % 10)]]
           Is1(d, n) == d = [k \in 0 .. n |-> IF k < 10 THEN <<k>> ELSE Append(d[k \div 10], k % 10)]
           digits(n) == CHOOSE d : Is1(d, n)
<1>1. /\ first \in [Nat -> State] /\ step \in [Nat -> [State -> State]]
      /\ \A k \in Nat : first[k] = <<k>>
      /\ \A k \in Nat, s \in State : step[k][s] = Append(s, k % 10)
  <2>1. \A k \in Nat, s \in State : Append(s, k % 10) \in State
    BY AppendProperties
  <2>2. \A k \in Nat : <<k>> \in State
    OBVIOUS
  <2> HIDE DEF State
  <2>3. QED
    BY <2>1, <2>2
<1> HIDE DEF first, step, State
<1>2. ASSUME NEW n \in Nat
      PROVE  digits(n) \in [0 .. n -> State] /\ Digitwise(digits(n), n, first, step)
  <2>1. PICK d \in [0 .. n -> State] : Digitwise(d, n, first, step)
    BY <1>1, DigitByDigit
  <2>2. ASSUME NEW k \in 0 .. n
        PROVE  d[k] = IF k < 10 THEN <<k>> ELSE Append(d[k \div 10], k % 10)
    <3>1. CASE k < 10
      <4>1. d[k] = first[k] /\ k \in Nat
        BY <2>1, <3>1 DEF Digitwise
      <4>2. QED
        BY <1>1, <3>1, <4>1
    <3>2. CASE ~(k < 10)
      <4> DEFINE s == d[k \div 10]
      <4>1. k \div 10 \in 0 .. n /\ k \in Nat
        BY <3>2, TenthIsSmaller
      <4>2. d[k] = step[k][s] /\ s \in State
        BY <2>1, <3>2, <4>1 DEF Digitwise
      <4> HIDE DEF s
      <4>3. d[k] = Append(s, k % 10)
        BY <1>1, <4>1, <4>2
      <4>4. QED
        BY <3>2, <4>3 DEF s
    <3>3. QED
      BY <3>1, <3>2
  <2>3. Is1(d, n)
    <3>1. d = [k \in 0 .. n |-> d[k]]
      OBVIOUS
    <3>2. QED
      BY <2>2, <3>1
  <2>4. Is1(digits(n), n)
    BY <2>3
  <2> DEFINE g == digits(n)
  <2> HIDE DEF digits
  <2>5. \A k \in 0 .. n : g[k] = IF k < 10 THEN <<k>> ELSE Append(g[k \div 10], k % 10)
    BY <2>4
  <2>6. DOMAIN g = 0 .. n /\ g = [k \in 0 .. n |-> g[k]]
    <3> DEFINE value(k) == IF k < 10 THEN <<k>> ELSE Append(g[k \div 10], k % 10)
    <3>1. g = [k \in 0 .. n |-> value(k)]
      BY <2>4
    <3> HIDE DEF value, g
    <3>2. QED
      BY <3>1
  <2>7. \A k \in Nat : k <= n => g[k] = d[k]
    <3> DEFINE S == {k \in Nat : k <= n => g[k] = d[k]}
    <3>1. ASSUME NEW k \in Nat, \A j \in 0 .. k - 1 : j \in S
          PROVE  k \in S
      <4>1. SUFFICES ASSUME k <= n
                     PROVE  g[k] = d[k]
        OBVIOUS
      <4>2. k \in 0 .. n
        BY <4>1
      <4>3. CASE k < 10
        BY <2>2, <2>5, <4>2, <4>3
      <4>4. CASE ~(k < 10)
        <5> DEFINE j == k \div 10
        <5>1. j \in 0 .. k - 1
          BY <4>4, TenthIsSmaller
        <5> HIDE DEF j, g
        <5>2. j \in S /\ j <= n
          BY <3>1, <4>1, <5>1
        <5>3. g[j] = d[j]
          BY <5>2
        <5>4. g[k] = Append(g[j], k % 10) /\ d[k] = Append(d[j], k % 10)
          BY <2>2, <2>5, <4>2, <4>4 DEF j
        <5>5. QED
          BY <5>3, <5>4
      <4>5. QED
        BY <4>3, <4>4
    <3>2. QED
      <4> HIDE DEF S
      <4>1. \A k \in Nat : k \in S
        BY <3>1, SmallerNumbers
      <4>2. QED
        BY <4>1 DEF S
  <2> HIDE DEF g
  <2>8. g = d
    <3>1. \A k \in 0 .. n : g[k] = d[k]
      BY <2>7
    <3>2. QED
      BY <2>6, <3>1
  <2>9. QED
    BY <2>1, <2>8 DEF g
<1>3. \A n \in Nat : DigitsOf(n) = digits(n)[n]
  BY DEF DigitsOf
<1> HIDE DEF digits
<1>4. ASSUME NEW n \in Nat
      PROVE  /\ DigitsOf(n) \in State
             /\ n < 10 => DigitsOf(n) = <<n>>
             /\ n >= 10 => DigitsOf(n) = Append(DigitsOf(n \div 10), n % 10)
  <2>1. n \in 0 .. n
    OBVIOUS
  <2>2. DigitsOf(n) \in State
    BY <1>2, <1>3, <2>1
  <2>3. n < 10 => DigitsOf(n) = <<n>>
    BY <1>1, <1>2, <1>3, <2>1 DEF Digitwise
  <2>4. ASSUME n >= 10
        PROVE  DigitsOf(n) = Append(DigitsOf(n \div 10), n % 10)
    <3> DEFINE m == n \div 10
    <3>1. m \in 0 .. n - 1 /\ m \in Nat
      BY <2>4, TenthIsSmaller
    <3>2. digits(n)[n] = step[n][digits(n)[m]]
      <4>1. ~(n < 10)
        BY <2>4
      <4>2. QED
        BY <1>2, <2>1, <4>1 DEF Digitwise
    <3> HIDE DEF m
    <3>3. digits(n)[m] = digits(m)[m]
      <4>1. m <= n /\ m <= m
        BY <3>1
      <4>2. Digitwise(digits(n), n, first, step) /\ Digitwise(digits(m), m, first, step)
        BY <1>2, <3>1
      <4>3. QED
        BY <3>1, <4>1, <4>2, DigitwiseIsUnique
    <3>4. digits(m)[m] \in State
      <4>1. m \in 0 .. m
        BY <3>1
      <4>2. QED
        BY <1>2, <3>1, <4>1
    <3>5. QED
      BY <1>1, <1>3, <3>1, <3>2, <3>3, <3>4, ZenonT(60) DEF m
  <2>5. QED
    BY <2>2, <2>3, <2>4
<1>5. QED
  BY <1>4 DEF State

(* A text begins with its first digit, and goes on with that for a tenth   *)
(* of the power.                                                           *)
LEMMA WrittenByTenth ==
    ASSUME NEW n \in Nat
    PROVE  \A h \in Nat : /\ Written(n, h) \in Seq(Nat)
                          /\ h = 0 => Written(n, h) = << >>
                          /\ h > 0 => Written(n, h) = <<(n \div h) % 10>> \o Written(n, h \div 10)
<1> DEFINE State == Seq(Nat)
           c(k) == (n \div k) % 10
           first == [k \in Nat |-> IF k = 0 THEN << >> ELSE <<c(k)>>]
           step == [k \in Nat |-> [s \in State |-> IF k = 0 THEN << >> ELSE <<c(k)>> \o s]]
           Is1(d, h) == d = [k \in 0 .. h |-> IF k = 0 THEN << >> ELSE <<c(k)>> \o d[k \div 10]]
           written(h) == CHOOSE d : Is1(d, h)
<1>1. \A k \in Nat : k # 0 => c(k) \in Nat
  OBVIOUS
<1> HIDE DEF c
<1>2. /\ first \in [Nat -> State] /\ step \in [Nat -> [State -> State]]
      /\ << >> \in State /\ first[0] = << >>
      /\ \A k \in Nat : k # 0 => first[k] = <<c(k)>> /\ <<c(k)>> \in State
      /\ \A k \in Nat, s \in State : k # 0 => step[k][s] = <<c(k)>> \o s
  <2>1. \A k \in Nat : k # 0 => <<c(k)>> \in State
    BY <1>1
  <2>2. << >> \in State
    OBVIOUS
  <2>3. \A k \in Nat, s \in State : k # 0 => <<c(k)>> \o s \in State
    BY <2>1, ConcatProperties
  <2> HIDE DEF State
  <2>4. QED
    BY <2>1, <2>2, <2>3
<1>3. \A s \in State : s \o << >> = s
  BY ConcatEmptySeq
<1> HIDE DEF first, step, State
<1>4. ASSUME NEW h \in Nat
      PROVE  written(h) \in [0 .. h -> State] /\ Digitwise(written(h), h, first, step)
  <2>1. PICK d \in [0 .. h -> State] : Digitwise(d, h, first, step)
    BY <1>2, DigitByDigit
  <2>2. d[0] = << >>
    BY <1>2, <2>1 DEF Digitwise
  <2>3. ASSUME NEW k \in 0 .. h
        PROVE  d[k] = IF k = 0 THEN << >> ELSE <<c(k)>> \o d[k \div 10]
    <3>1. CASE k = 0
      BY <2>2, <3>1
    <3>2. CASE k # 0 /\ k < 10
      <4>1. k \in Nat /\ k \div 10 = 0
        BY <3>2
      <4>2. d[k] = <<c(k)>>
        BY <1>2, <2>1, <3>2, <4>1 DEF Digitwise
      <4>3. <<c(k)>> \o << >> = <<c(k)>>
        BY <1>2, <1>3, <3>2, <4>1
      <4>4. QED
        BY <2>2, <3>2, <4>1, <4>2, <4>3
    <3>3. CASE ~(k < 10)
      <4> DEFINE s == d[k \div 10]
      <4>1. k \div 10 \in 0 .. h /\ k \in Nat /\ k # 0
        BY <3>3, TenthIsSmaller
      <4>2. d[k] = step[k][s] /\ s \in State
        BY <2>1, <3>3, <4>1 DEF Digitwise
      <4> HIDE DEF s
      <4>3. d[k] = <<c(k)>> \o s
        BY <1>2, <4>1, <4>2
      <4>4. QED
        BY <4>1, <4>3 DEF s
    <3>4. QED
      BY <3>1, <3>2, <3>3
  <2>4. Is1(d, h)
    <3>1. d = [k \in 0 .. h |-> d[k]]
      OBVIOUS
    <3>2. QED
      BY <2>3, <3>1
  <2>5. Is1(written(h), h)
    BY <2>4
  <2> DEFINE g == written(h)
  <2> HIDE DEF written
  <2>6. \A k \in 0 .. h : g[k] = IF k = 0 THEN << >> ELSE <<c(k)>> \o g[k \div 10]
    BY <2>5
  <2>7. DOMAIN g = 0 .. h /\ g = [k \in 0 .. h |-> g[k]]
    <3> DEFINE value(k) == IF k = 0 THEN << >> ELSE <<c(k)>> \o g[k \div 10]
    <3>1. g = [k \in 0 .. h |-> value(k)]
      BY <2>5
    <3> HIDE DEF value, g
    <3>2. QED
      BY <3>1
  <2> HIDE DEF g
  <2>8. \A k \in Nat : k <= h => g[k] = d[k]
    <3> DEFINE S == {k \in Nat : k <= h => g[k] = d[k]}
    <3>1. ASSUME NEW k \in Nat, \A j \in 0 .. k - 1 : j \in S
          PROVE  k \in S
      <4>1. SUFFICES ASSUME k <= h
                     PROVE  g[k] = d[k]
        OBVIOUS
      <4>2. k \in 0 .. h
        BY <4>1
      <4>3. CASE k = 0
        BY <2>3, <2>6, <4>2, <4>3
      <4>4. CASE k # 0
        <5> DEFINE j == k \div 10
        <5>1. j \in 0 .. k - 1
          BY <4>4
        <5> HIDE DEF j
        <5>2. j \in S /\ j <= h
          BY <3>1, <4>1, <5>1
        <5>3. g[j] = d[j]
          BY <5>2
        <5>4. g[k] = <<c(k)>> \o g[j] /\ d[k] = <<c(k)>> \o d[j]
          BY <2>3, <2>6, <4>2, <4>4 DEF j
        <5>5. QED
          BY <5>3, <5>4
      <4>5. QED
        BY <4>3, <4>4
    <3>2. QED
      <4> HIDE DEF S
      <4>1. \A k \in Nat : k \in S
        BY <3>1, SmallerNumbers
      <4>2. QED
        BY <4>1 DEF S
  <2>9. g = d
    <3>1. \A k \in 0 .. h : g[k] = d[k]
      BY <2>8
    <3>2. QED
      BY <2>7, <3>1
  <2>10. QED
    BY <2>1, <2>9 DEF g
<1>5. \A h \in Nat : Written(n, h) = written(h)[h]
  BY DEF Written, c
<1> HIDE DEF written
<1>6. ASSUME NEW h \in Nat
      PROVE  /\ Written(n, h) \in State
             /\ h = 0 => Written(n, h) = << >>
             /\ h > 0 => Written(n, h) = <<c(h)>> \o Written(n, h \div 10)
  <2>1. h \in 0 .. h
    OBVIOUS
  <2>2. Written(n, h) \in State
    BY <1>4, <1>5, <2>1
  <2>3. \A k \in Nat : k = 0 => Written(n, k) = << >>
    BY <1>2, <1>4, <1>5 DEF Digitwise
  <2>4. ASSUME h > 0
        PROVE  Written(n, h) = <<c(h)>> \o Written(n, h \div 10)
    <3> DEFINE m == h \div 10
    <3>1. m \in 0 .. h - 1 /\ m \in Nat
      BY <2>4
    <3>2. CASE h < 10
      <4>1. m = 0
        BY <2>4, <3>2
      <4>2. written(h)[h] = first[h]
        BY <1>4, <2>1, <3>2 DEF Digitwise
      <4>3. first[h] = <<c(h)>> /\ <<c(h)>> \o << >> = <<c(h)>>
        <5>1. h # 0
          BY <2>4
        <5>2. first[h] = <<c(h)>> /\ <<c(h)>> \in State
          BY <1>2, <5>1
        <5>3. <<c(h)>> \o << >> = <<c(h)>>
          BY <1>3, <5>2
        <5>4. QED
          BY <5>2, <5>3
      <4> HIDE DEF m
      <4>4. Written(n, m) = << >>
        BY <2>3, <3>1, <4>1
      <4>5. QED
        BY <1>5, <4>2, <4>3, <4>4 DEF m
    <3>3. CASE ~(h < 10)
      <4>1. written(h)[h] = step[h][written(h)[m]]
        BY <1>4, <2>1, <3>3 DEF Digitwise
      <4> HIDE DEF m
      <4>2. written(h)[m] = written(m)[m]
        <5>1. m <= h /\ m <= m
          BY <3>1
        <5>2. Digitwise(written(h), h, first, step) /\ Digitwise(written(m), m, first, step)
          BY <1>4, <3>1
        <5>3. QED
          BY <3>1, <5>1, <5>2, DigitwiseIsUnique
      <4>3. written(m)[m] \in State
        <5>1. m \in 0 .. m
          BY <3>1
        <5>2. QED
          BY <1>4, <3>1, <5>1
      <4>4. Written(n, h) = <<c(h)>> \o Written(n, m)
        <5> DEFINE s == written(m)[m]
        <5>1. Written(n, m) = s /\ Written(n, h) = step[h][s] /\ s \in State
          BY <1>5, <3>1, <4>1, <4>2, <4>3
        <5> HIDE DEF s
        <5>2. h # 0
          BY <2>4
        <5>3. step[h][s] = <<c(h)>> \o s
          BY <1>2, <5>1, <5>2
        <5>4. QED
          BY <5>1, <5>3
      <4>5. QED
        BY <4>4 DEF m
    <3>4. QED
      BY <3>2, <3>3
  <2>5. QED
    BY <2>2, <2>3, <2>4
<1>7. QED
  BY <1>6 DEF State, c

(* The test for the next power of ten is right: it is taken when it is not *)
(* above the input, and one that does not fit is found out.                *)
LEMMA GrowsWhileBelow ==
    ASSUME NEW i \in 1 .. W32 - 1, NEW n \in 0 .. W32 - 1
    PROVE  /\ MayGrow(i, n) <=> 10 * i <= n
           /\ MayGrow(i, n) => Times10(i) = 10 * i /\ 10 * i \in i + 1 .. W32 - 1
<1> DEFINE a == i * 10
           t == a % W32
           q == a \div W32
<1>1. W32 \in Nat /\ W32 > 0 /\ a \in Nat
  BY NumbersAssumption
<1>2. Times10(i) = t
  BY DEF Times10
<1>3. t \in 0 .. W32 - 1 /\ t <= a
  <2> HIDE DEF a
  <2>1. t \in 0 .. W32 - 1 /\ q \in Int /\ a = W32 * q + t
    BY <1>1
  <2> HIDE DEF t, q
  <2>2. q >= 0
    <3>1. CASE q <= -1
      <4>1. W32 * (-1 - q) >= 0
        BY <1>1, <2>1, <3>1
      <4>2. W32 * q <= -W32
        BY <1>1, <2>1, <4>1
      <4>3. QED
        BY <1>1, <2>1, <4>2
    <3>2. QED
      BY <2>1, <3>1
  <2>3. W32 * q >= 0
    BY <1>1, <2>1, <2>2
  <2>4. QED
    BY <1>1, <2>1, <2>3
<1>4. \A b \in 0 .. W32 - 1 : b % W32 = b
  BY <1>1
<1>5. CASE 10 * i <= n
  <2>1. a \in 0 .. W32 - 1 /\ a = 10 * i
    BY <1>1, <1>5
  <2> HIDE DEF a
  <2>2. t = a
    BY <1>4, <2>1
  <2>3. a \div 10 = i
    BY <2>1
  <2> HIDE DEF t
  <2>4. QED
    BY <1>1, <1>2, <1>5, <2>1, <2>2, <2>3 DEF MayGrow
<1>6. CASE ~(10 * i <= n)
  <2> HIDE DEF t
  <2>1. ASSUME t <= n, t \div 10 = i
        PROVE  FALSE
    <3>1. t >= 10 * i
      BY <1>3, <2>1
    <3>2. QED
      BY <1>1, <1>3, <1>6, <2>1, <3>1
  <2>2. QED
    BY <1>2, <1>6, <2>1 DEF MayGrow
<1>7. QED
  BY <1>5, <1>6

(* The powers of ten from one up to the highest that is not above n.       *)
Climbs(h, n) ==
    \A i \in 1 .. W32 - 1 : h[i] = IF 10 * i <= n THEN h[10 * i] ELSE i

LEMMA HighestClimbs ==
    ASSUME NEW n \in 0 .. W32 - 1, W32 > 1
    PROVE  \E h \in [1 .. W32 - 1 -> 1 .. W32 - 1] : Climbs(h, n) /\ HighestIndex(n) = h[1]
<1> DEFINE Index == 1 .. W32 - 1
           Good(d, j) == \A i \in Index : i + j >= W32 => d[i] = IF 10 * i <= n THEN d[10 * i] ELSE i
           S == {j \in Nat : \E d \in [Index -> Index] : Good(d, j)}
           Is1(d) == d = [i \in Index |-> IF MayGrow(i, n) THEN d[Times10(i)] ELSE i]
           h == CHOOSE d : Is1(d)
<1>1. W32 \in Nat /\ 1 \in Index
  BY NumbersAssumption
<1>2. 0 \in S
  <2> DEFINE d == [i \in Index |-> i]
  <2>1. d \in [Index -> Index] /\ Good(d, 0)
    BY <1>1
  <2>2. QED
    BY <2>1
<1>3. ASSUME NEW j \in Nat, j \in S
      PROVE  j + 1 \in S
  <2>1. PICK d \in [Index -> Index] : Good(d, j)
    BY <1>3
  <2>2. CASE W32 - (j + 1) \notin Index
    <3>1. Good(d, j + 1)
      <4>1. \A i \in Index : i + (j + 1) >= W32 => i + j >= W32
        BY <1>1, <2>2
      <4>2. QED
        BY <2>1, <4>1
    <3> HIDE DEF Good
    <3>2. QED
      BY <2>1, <3>1
  <2>3. CASE W32 - (j + 1) \in Index
    <3> DEFINE x == W32 - (j + 1)
               value == IF 10 * x <= n THEN d[10 * x] ELSE x
               e == [d EXCEPT ![x] = value]
    <3>1. x \in Index /\ x + (j + 1) = W32 /\ ~(x + j >= W32)
      BY <1>1, <2>3
    <3>2. value \in Index
      <4> HIDE DEF x
      <4>1. 10 * x <= n => 10 * x \in Index
        BY <1>1, <3>1
      <4>2. QED
        BY <3>1, <4>1
    <3> HIDE DEF x, value
    <3>3. e \in [Index -> Index] /\ e[x] = value /\ \A i \in Index : i # x => e[i] = d[i]
      BY <3>1, <3>2
    <3> HIDE DEF e
    <3>4. ASSUME NEW i \in Index, i + (j + 1) >= W32
          PROVE  e[i] = IF 10 * i <= n THEN e[10 * i] ELSE i
      <4>1. 10 * i <= n => 10 * i \in Index /\ 10 * i # x /\ e[10 * i] = d[10 * i]
        <5>1. 10 * i <= n => 10 * i \in Index /\ 10 * i # x
          BY <1>1, <3>1, <3>4
        <5>2. QED
          BY <3>3, <5>1
      <4>2. CASE i = x
        BY <3>3, <4>1, <4>2 DEF value
      <4>3. CASE i # x
        <5>1. i + j >= W32
          BY <1>1, <3>1, <3>4, <4>3
        <5>2. d[i] = IF 10 * i <= n THEN d[10 * i] ELSE i
          BY <2>1, <5>1
        <5>3. QED
          BY <3>3, <4>1, <4>3, <5>2
      <4>4. QED
        BY <4>2, <4>3
    <3>5. Good(e, j + 1)
      BY <3>4
    <3> HIDE DEF Good
    <3>6. QED
      BY <3>3, <3>5
  <2>4. QED
    BY <2>2, <2>3
<1>4. W32 \in S
  <2> HIDE DEF S
  <2>1. \A j \in Nat : j \in S
    BY <1>2, <1>3, NatSetInduction
  <2>2. QED
    BY <1>1, <2>1
<1>5. PICK d \in [Index -> Index] : Good(d, W32)
  BY <1>4
<1>6. \A i \in Index : /\ MayGrow(i, n) <=> 10 * i <= n
                       /\ MayGrow(i, n) => Times10(i) = 10 * i /\ 10 * i \in Index
  BY <1>1, GrowsWhileBelow
<1>7. Is1(d)
  <2>1. d = [i \in Index |-> d[i]]
    OBVIOUS
  <2>2. ASSUME NEW i \in Index
        PROVE  d[i] = IF MayGrow(i, n) THEN d[Times10(i)] ELSE i
    <3>1. i + W32 >= W32
      BY <1>1
    <3>2. QED
      BY <1>5, <1>6, <3>1
  <2>3. QED
    BY <2>1, <2>2
<1>8. Is1(h)
  BY <1>7
<1>9. HighestIndex(n) = h[1]
  BY DEF HighestIndex
<1> HIDE DEF h
<1>10. \A i \in Index : h[i] = IF 10 * i <= n THEN h[10 * i] ELSE i
  BY <1>6, <1>8
<1>11. \A j \in Nat : j \in {k \in Nat : \A i \in Index : i + k >= W32 => h[i] \in Index}
  <2> DEFINE T == {k \in Nat : \A i \in Index : i + k >= W32 => h[i] \in Index}
  <2>1. 0 \in T
    BY <1>1
  <2>2. ASSUME NEW k \in Nat, k \in T
        PROVE  k + 1 \in T
    <3>1. ASSUME NEW i \in Index, i + (k + 1) >= W32
          PROVE  h[i] \in Index
      <4>1. CASE 10 * i <= n
        <5>1. 10 * i \in Index /\ 10 * i + k >= W32
          BY <1>1, <3>1, <4>1
        <5>2. h[10 * i] \in Index
          BY <2>2, <5>1
        <5>3. QED
          BY <1>10, <4>1, <5>2
      <4>2. CASE ~(10 * i <= n)
        BY <1>10, <4>2
      <4>3. QED
        BY <4>1, <4>2
    <3>2. QED
      BY <3>1
  <2>3. QED
    <3> HIDE DEF T
    <3>1. \A k \in Nat : k \in T
      BY <2>1, <2>2, NatSetInduction
    <3>2. QED
      BY <3>1 DEF T
<1>12. h \in [Index -> Index]
  <2>1. \A i \in Index : h[i] \in Index
    <3>1. \A i \in Index : i + W32 >= W32
      BY <1>1
    <3>2. QED
      BY <1>1, <1>11, <3>1
  <2>2. h = [i \in Index |-> h[i]]
    <3> DEFINE value(i) == IF MayGrow(i, n) THEN h[Times10(i)] ELSE i
    <3>1. h = [i \in Index |-> value(i)]
      BY <1>8
    <3> HIDE DEF value
    <3>2. QED
      BY <3>1
  <2>3. QED
    BY <2>1, <2>2
<1>13. QED
  BY <1>9, <1>10, <1>12 DEF Climbs

(* The highest power of ten in a number is ten times that in its tenth.    *)
LEMMA HighestOfTenth ==
    ASSUME W32 > 1
    PROVE  \A n \in 0 .. W32 - 1 :
               /\ HighestIndex(n) \in 1 .. W32 - 1
               /\ n < 10 => HighestIndex(n) = 1
               /\ n >= 10 => HighestIndex(n) = 10 * HighestIndex(n \div 10)
<1> DEFINE Index == 1 .. W32 - 1
<1>1. W32 \in Nat /\ 1 \in Index
  BY NumbersAssumption
<1>2. SUFFICES ASSUME NEW n \in 0 .. W32 - 1
               PROVE  /\ HighestIndex(n) \in Index
                      /\ n < 10 => HighestIndex(n) = 1
                      /\ n >= 10 => HighestIndex(n) = 10 * HighestIndex(n \div 10)
  OBVIOUS
<1>3. PICK h \in [Index -> Index] : Climbs(h, n) /\ HighestIndex(n) = h[1]
  BY HighestClimbs
<1>4. HighestIndex(n) \in Index
  BY <1>1, <1>3
<1>5. n < 10 => HighestIndex(n) = 1
  BY <1>1, <1>3 DEF Climbs
<1>6. ASSUME n >= 10
      PROVE  HighestIndex(n) = 10 * HighestIndex(n \div 10)
  <2> DEFINE m == n \div 10
  <2>1. m \in 0 .. W32 - 1 /\ m \in Nat /\ \A i \in Nat : i <= m <=> 10 * i <= n
    BY <1>1
  <2> HIDE DEF m
  <2>2. PICK g \in [Index -> Index] : Climbs(g, m) /\ HighestIndex(m) = g[1]
    BY <2>1, HighestClimbs
  <2> DEFINE S == {j \in Nat : \A i \in Index : 10 * i <= n /\ i + j >= W32 => h[10 * i] = 10 * g[i]}
  <2>3. 0 \in S
    BY <1>1
  <2>4. ASSUME NEW j \in Nat, j \in S
        PROVE  j + 1 \in S
    <3>1. ASSUME NEW i \in Index, 10 * i <= n, i + (j + 1) >= W32
          PROVE  h[10 * i] = 10 * g[i]
      <4> DEFINE x == 10 * i
      <4>1. x \in Index /\ x + j >= W32 /\ x \in Nat
        BY <1>1, <3>1
      <4>2. x <= m <=> 10 * x <= n
        BY <2>1, <4>1
      <4>3. g[i] = IF x <= m THEN g[x] ELSE i
        BY <2>2 DEF Climbs
      <4> HIDE DEF x
      <4>4. h[x] = IF 10 * x <= n THEN h[10 * x] ELSE x
        BY <1>3, <4>1 DEF Climbs
      <4>5. 10 * x <= n => h[10 * x] = 10 * g[x]
        BY <2>4, <4>1
      <4>6. QED
        BY <4>2, <4>3, <4>4, <4>5 DEF x
    <3>2. QED
      BY <3>1
  <2>5. \A j \in Nat : j \in S
    <3> HIDE DEF S
    <3>1. QED
      BY <2>3, <2>4, NatSetInduction
  <2>6. 10 * 1 = 10 /\ 10 <= n /\ 1 + W32 >= W32
    BY <1>1, <1>6
  <2>7. h[10] = 10 * g[1]
    <3>1. 10 * 1 <= n => h[10 * 1] = 10 * g[1]
      BY <1>1, <2>5, <2>6
    <3>2. QED
      BY <2>6, <3>1
  <2>8. h[1] = h[10]
    <3>1. h[1] = IF 10 * 1 <= n THEN h[10 * 1] ELSE 1
      BY <1>1, <1>3 DEF Climbs
    <3>2. QED
      BY <2>6, <3>1
  <2>9. QED
    BY <1>3, <2>2, <2>7, <2>8 DEF m
<1>7. QED
  BY <1>4, <1>5, <1>6

(* A tenth is divided as the number is by ten times as much.               *)
LEMMA TenthDivided ==
    ASSUME NEW n \in Nat, NEW b \in Nat \ {0}
    PROVE  (n \div 10) \div b = n \div (10 * b)
<1> DEFINE q == n \div 10
           r == n % 10
           p == q \div b
           s == q % b
<1>1. q \in Nat /\ r \in 0 .. 9 /\ n = 10 * q + r
  OBVIOUS
<1> HIDE DEF q, r
<1>2. b \in Nat /\ b > 0
  OBVIOUS
<1>3. p \in Int /\ s \in 0 .. b - 1 /\ q = b * p + s
  BY <1>1, <1>2
<1> HIDE DEF p, s
<1>4. n = (10 * b) * p + (10 * s + r)
  BY <1>1, <1>2, <1>3
<1>5. 10 * b \in Nat \ {0} /\ 10 * s + r \in 0 .. 10 * b - 1
  BY <1>1, <1>2, <1>3
<1>6. ((10 * b) * p + (10 * s + r)) \div (10 * b) = p
  <2> DEFINE w == 10 * b
             t == 10 * s + r
  <2>1. w \in Nat \ {0} /\ t \in 0 .. w - 1
    BY <1>5
  <2> HIDE DEF w, t
  <2>2. (w * p + t) \div w = p
    BY <1>3, <2>1, RestIsUnique
  <2>3. QED
    BY <2>2 DEF w, t
<1>7. QED
  BY <1>4, <1>6 DEF p, q

(* A text that begins at one is the last digit.                            *)
LEMMA DigitWritten ==
    \A n \in Nat : Written(n, 1) = <<n % 10>>
<1>1. SUFFICES ASSUME NEW n \in Nat
               PROVE  Written(n, 1) = <<n % 10>>
  OBVIOUS
<1>2. \A h \in Nat : /\ h = 0 => Written(n, h) = << >>
                     /\ h > 0 => Written(n, h) = <<(n \div h) % 10>> \o Written(n, h \div 10)
  BY WrittenByTenth
<1>3. 1 \in Nat /\ 1 > 0 /\ 1 \div 10 = 0 /\ n \div 1 = n /\ n % 10 \in Nat
  OBVIOUS
<1>4. Written(n, 1) = <<(n \div 1) % 10>> \o Written(n, 1 \div 10) /\ Written(n, 0) = << >>
  BY <1>2, <1>3
<1>5. Written(n, 1) = <<n % 10>> \o << >>
  BY <1>3, <1>4
<1>6. <<n % 10>> \in Seq(Nat)
  BY <1>3
<1>7. <<n % 10>> \o << >> = <<n % 10>>
  <2> DEFINE d == <<n % 10>>
  <2>1. d \in Seq(Nat)
    BY <1>6
  <2> HIDE DEF d
  <2>2. d \o << >> = d
    BY <2>1, ConcatEmptySeq
  <2>3. QED
    BY <2>2 DEF d
<1>8. QED
  BY <1>5, <1>7

(* The text that begins at ten times a power of ten is that of the tenth   *)
(* and the last digit.                                                     *)
LEMMA LastDigitWritten ==
    ASSUME W32 > 1
    PROVE  \A m \in Nat : m \in 0 .. W32 - 1 => \A n \in Nat :
               Written(n, 10 * HighestIndex(m)) = Append(Written(n \div 10, HighestIndex(m)), n % 10)
<1> DEFINE H(m) == HighestIndex(m)
           Ends(n, j) == Written(n, 10 * j) = Append(Written(n \div 10, j), n % 10)
           S == {m \in Nat : m \in 0 .. W32 - 1 => \A n \in Nat : Ends(n, H(m))}
<1>1. ASSUME NEW n \in Nat
      PROVE  /\ n \div 10 \in Nat /\ n % 10 \in Nat /\ (n \div 10) % 10 \in Nat
             /\ Written(n, 1) = <<n % 10>> /\ Written(n, 10) = <<(n \div 10) % 10>> \o Written(n, 1)
             /\ Written(n \div 10, 1) = <<(n \div 10) % 10>>
  <2>1. \A k \in Nat : k % 10 \in Nat /\ k \div 10 \in Nat
    OBVIOUS
  <2>2. Written(n, 10) = <<(n \div 10) % 10>> \o Written(n, 10 \div 10)
    <3>1. \A h \in Nat : h > 0 => Written(n, h) = <<(n \div h) % 10>> \o Written(n, h \div 10)
      BY WrittenByTenth
    <3>2. 10 \in Nat /\ 10 > 0
      OBVIOUS
    <3>3. QED
      BY <3>1, <3>2
  <2>3. 10 \div 10 = 1
    OBVIOUS
  <2>4. QED
    BY <2>1, <2>2, <2>3, DigitWritten
<1>2. ASSUME NEW m \in Nat, \A k \in 0 .. m - 1 : k \in S
      PROVE  m \in S
  <2>1. SUFFICES ASSUME m \in 0 .. W32 - 1, NEW n \in Nat
                 PROVE  Ends(n, H(m))
    OBVIOUS
  <2>2. CASE m < 10
    <3>1. H(m) = 1
      BY <2>1, <2>2, HighestOfTenth
    <3>2. Written(n, 10) = Append(Written(n \div 10, 1), n % 10)
      <4> DEFINE c == (n \div 10) % 10
                 d == n % 10
      <4>1. c \in Nat /\ d \in Nat
        BY <1>1
      <4>2. Written(n, 10) = <<c>> \o <<d>> /\ Written(n \div 10, 1) = <<c>>
        BY <1>1
      <4> HIDE DEF c, d
      <4>3. Append(<<c>>, d) = <<c>> \o <<d>>
        BY <4>1, AppendIsConcat
      <4>4. Append(Written(n \div 10, 1), d) = Written(n, 10)
        BY <4>2, <4>3
      <4>5. QED
        BY <4>4 DEF d
    <3>3. QED
      BY <3>1, <3>2
  <2>3. CASE m >= 10
    <3> DEFINE k == m \div 10
               j == H(k)
               c == (n \div (100 * j)) % 10
    <3>1. k \in 0 .. m - 1 /\ k \in 0 .. W32 - 1
      BY <2>1, <2>3, TenthIsSmaller, NumbersAssumption
    <3>2. H(m) = 10 * j /\ j \in 1 .. W32 - 1
      BY <2>1, <2>3, <3>1, HighestOfTenth
    <3>3. \A x \in Nat : Ends(x, j)
      BY <1>2, <3>1
    <3> HIDE DEF j, k
    <3>4. j \in Nat \ {0} /\ 10 * (10 * j) = 100 * j /\ 100 * j \in Nat /\ 100 * j > 0 /\ 10 * j \in Nat
          /\ 10 * j > 0 /\ (100 * j) \div 10 = 10 * j /\ (10 * j) \div 10 = j
      BY <3>2
    <3>5. Written(n, 100 * j) = <<c>> \o Written(n, 10 * j)
      <4> DEFINE h == 100 * j
      <4>1. h \in Nat /\ h > 0 /\ h \div 10 = 10 * j
        BY <3>4
      <4> HIDE DEF h
      <4>2. Written(n, h) = <<(n \div h) % 10>> \o Written(n, h \div 10)
        BY <4>1, WrittenByTenth
      <4>3. QED
        BY <4>1, <4>2 DEF h
    <3>6. Written(n \div 10, 10 * j) = <<c>> \o Written(n \div 10, j)
      <4>1. (n \div 10) \div (10 * j) = n \div (100 * j)
        <5>1. 10 * j \in Nat \ {0}
          BY <3>4
        <5>2. (n \div 10) \div (10 * j) = n \div (10 * (10 * j))
          BY <5>1, TenthDivided
        <5>3. QED
          BY <3>4, <5>2
      <4>2. Written(n \div 10, 10 * j)
               = <<((n \div 10) \div (10 * j)) % 10>> \o Written(n \div 10, (10 * j) \div 10)
        BY <1>1, <3>4, WrittenByTenth
      <4>3. QED
        BY <3>4, <4>1, <4>2
    <3>7. Written(n, 10 * j) = Append(Written(n \div 10, j), n % 10)
      BY <3>3
    <3> DEFINE tenth == Written(n \div 10, j)
    <3>8. tenth \in Seq(Nat) /\ <<c>> \in Seq(Nat) /\ n % 10 \in Nat
      <4>1. c \in Nat
        <5> DEFINE w == 100 * j
        <5>1. w \in Nat /\ w > 0
          BY <3>4
        <5> HIDE DEF w
        <5>2. n \div w \in Nat
          BY <5>1
        <5>3. (n \div w) % 10 \in Nat
          BY <5>2
        <5>4. QED
          BY <5>3 DEF w
      <4> HIDE DEF c
      <4>2. n \div 10 \in Nat /\ n % 10 \in Nat /\ j \in Nat
        BY <1>1, <3>4
      <4>3. tenth \in Seq(Nat)
        BY <4>2, WrittenByTenth
      <4>4. QED
        BY <4>1, <4>2, <4>3
    <3> HIDE DEF tenth, c
    <3>9. <<c>> \o Append(tenth, n % 10) = Append(<<c>> \o tenth, n % 10)
      <4>1. <<c>> \o tenth \in Seq(Nat) /\ <<n % 10>> \in Seq(Nat)
        BY <3>8, ConcatProperties
      <4>2. /\ Append(tenth, n % 10) = tenth \o <<n % 10>>
            /\ Append(<<c>> \o tenth, n % 10) = (<<c>> \o tenth) \o <<n % 10>>
        BY <3>8, <4>1, AppendIsConcat
      <4>3. QED
        BY <3>8, <4>1, <4>2, ConcatAssociative, SMTT(30)
    <3>10. Written(n, 10 * (10 * j)) = Append(Written(n \div 10, 10 * j), n % 10)
      BY <3>4, <3>5, <3>6, <3>7, <3>9 DEF tenth
    <3>11. QED
      BY <3>2, <3>10
  <2>4. QED
    BY <2>1, <2>2, <2>3
<1>3. \A m \in Nat : m \in S
  <2> HIDE DEF S
  <2>1. QED
    BY <1>2, SmallerNumbers
<1>4. QED
  BY <1>3

(* Every length is hashed as its decimal text, for all of 32 bits, and for *)
(* any other width too (uint32_t_to_char_array).                           *)
THEOREM LengthsAreDecimal ==
    ASSUME NoInput.kind # "u32", W32 > 1,
           \A i \in Input : i.kind = "u32" => i.n \in 0 .. W32 - 1
    PROVE  TextSpec => []LengthTextIsDecimal
<1>1. W32 \in Nat
  BY NumbersAssumption
<1> DEFINE S == {n \in Nat : n \in 0 .. W32 - 1 => uint32_t_to_char_array(n) = DigitsOf(n)}
<1>2. ASSUME NEW n \in Nat, \A k \in 0 .. n - 1 : k \in S
      PROVE  n \in S
  <2>1. SUFFICES ASSUME n \in 0 .. W32 - 1
                 PROVE  Written(n, HighestIndex(n)) = DigitsOf(n)
    BY DEF uint32_t_to_char_array
  <2>2. CASE n < 10
    <3>1. HighestIndex(n) = 1
      BY <2>1, <2>2, HighestOfTenth
    <3>2. Written(n, 1) = <<n % 10>> /\ n % 10 = n
      BY <2>2, DigitWritten
    <3>3. DigitsOf(n) = <<n>>
      BY <2>2, DigitsOfTenth
    <3>4. QED
      BY <3>1, <3>2, <3>3
  <2>3. CASE n >= 10
    <3> DEFINE m == n \div 10
    <3>1. m \in 0 .. n - 1 /\ m \in 0 .. W32 - 1 /\ m \in Nat
      BY <1>1, <2>1, <2>3, TenthIsSmaller
    <3>2. HighestIndex(n) = 10 * HighestIndex(m)
      BY <2>1, <2>3, HighestOfTenth
    <3>3. DigitsOf(n) = Append(DigitsOf(m), n % 10)
      BY <2>3, DigitsOfTenth
    <3>4. Written(n, 10 * HighestIndex(m)) = Append(Written(m, HighestIndex(m)), n % 10)
      BY <3>1, LastDigitWritten
    <3> HIDE DEF m
    <3>5. Written(m, HighestIndex(m)) = DigitsOf(m)
      BY <1>2, <3>1 DEF uint32_t_to_char_array
    <3>6. QED
      BY <3>2, <3>3, <3>4, <3>5
  <2>4. QED
    BY <2>1, <2>2, <2>3
<1>3. \A n \in Nat : n \in S
  <2> HIDE DEF S
  <2>1. QED
    BY <1>2, SmallerNumbers
<1>4. \A n \in 0 .. W32 - 1 : uint32_t_to_char_array(n) = DigitsOf(n)
  BY <1>1, <1>3
<1>5. input \in Input \cup {NoInput} => LengthTextIsDecimal
  BY <1>4 DEF LengthTextIsDecimal, Is
<1>6. QED
  BY <1>5, InputStays, PTL

(***************************************************************************)
(* Origins.                                                                *)
(***************************************************************************)
(* Division takes what is below a place away.                             *)
LEMMA AbovePlace ==
    ASSUME NEW w \in Nat, w > 0, NEW y \in Int, NEW low \in Nat, low < w, NEW x, x = w * y + low
    PROVE  x \div w = y
<1>1. low \in 0 .. w - 1 /\ w \in Nat \ {0}
  OBVIOUS
<1>2. QED
  BY <1>1, RestIsUnique

(* Three bytes as a number, the four characters it is written in, and what *)
(* is decoded of it.                                                       *)
Byte == 0 .. 255
SixBits == 0 .. 63
HoldsBytes(x, a, b, c) == x = (a * 256 + b) * 256 + c
GroupIs(x, c1, c2, c3, c4) ==
    /\ (x \div (64 * 64 * 64)) % 64 = c1 /\ (x \div (64 * 64)) % 64 = c2
    /\ (x \div 64) % 64 = c3 /\ (x \div 1) % 64 = c4
    /\ ((c1 * 64 + c2) * 64 + c3) * 64 + c4 = x
SomeGroup(x, b, c) ==
    \E c1, c2, c3, c4 \in SixBits :
        GroupIs(x, c1, c2, c3, c4) /\ (b = 0 /\ c = 0 => c3 = 0) /\ (c = 0 => c4 = 0)
DecodesTo(x, a, b, c) == DecodedByte(x, 0) = a /\ DecodedByte(x, 1) = b /\ DecodedByte(x, 2) = c

(* The four characters of three bytes give them back, and those that hold  *)
(* nothing of the bytes that are there are zero.                           *)
LEMMA GroupIsDecoded ==
    ASSUME NEW a \in Byte, NEW b \in Byte, NEW c \in Byte, NEW x, HoldsBytes(x, a, b, c)
    PROVE  SomeGroup(x, b, c) /\ DecodesTo(x, a, b, c)
<1> USE DEF Byte
<1> DEFINE w2 == 64 * 64
           w3 == 64 * 64 * 64
           v2 == 256 * 256
<1>1. PICK a1 \in 0 .. 63, a0 \in 0 .. 3 : a = 4 * a1 + a0
  <2>1. a \div 4 \in 0 .. 63 /\ a % 4 \in 0 .. 3 /\ a = 4 * (a \div 4) + (a % 4)
    OBVIOUS
  <2>2. QED
    BY <2>1
<1>2. PICK b1 \in 0 .. 15, b0 \in 0 .. 15 : b = 16 * b1 + b0
  <2>1. b \div 16 \in 0 .. 15 /\ b % 16 \in 0 .. 15 /\ b = 16 * (b \div 16) + (b % 16)
    OBVIOUS
  <2>2. QED
    BY <2>1
<1>3. PICK k1 \in 0 .. 3, k0 \in 0 .. 63 : c = 64 * k1 + k0
  <2>1. c \div 64 \in 0 .. 3 /\ c % 64 \in 0 .. 63 /\ c = 64 * (c \div 64) + (c % 64)
    OBVIOUS
  <2>2. QED
    BY <2>1
<1> DEFINE s2 == 16 * a0 + b1
           s3 == 4 * b0 + k1
           y2 == 64 * a1 + s2
           y3 == 64 * y2 + s3
<1>4. a1 \in 0 .. 63 /\ s2 \in 0 .. 63 /\ s3 \in 0 .. 63 /\ k0 \in 0 .. 63
  OBVIOUS
<1>5. x = 64 * y3 + k0 /\ x \in Nat /\ y3 = 64 * y2 + s3 /\ y2 = 64 * a1 + s2
  BY <1>1, <1>2, <1>3 DEF HoldsBytes
<1>6. (b = 0 /\ c = 0 => s3 = 0) /\ (c = 0 => k0 = 0)
  BY <1>2, <1>3
<1>7. x = 256 * (256 * a + b) + c
  BY DEF HoldsBytes
<1> HIDE DEF s2, s3, y2, y3
<1>8. y2 \in Nat /\ y3 \in Nat
  BY <1>4, <1>5
<1>9. x \div 1 = x /\ x % 64 = k0 /\ x \div 64 = y3
  <2>1. (64 * y3 + k0) % 64 = k0 /\ (64 * y3 + k0) \div 64 = y3
    BY <1>4, <1>8, RestIsUnique
  <2>2. x \div 1 = x
    BY <1>5
  <2>3. QED
    BY <1>5, <2>1, <2>2
<1>10. y3 % 64 = s3 /\ y2 % 64 = s2 /\ a1 % 64 = a1
  <2>1. (64 * y2 + s3) % 64 = s3 /\ (64 * a1 + s2) % 64 = s2
    BY <1>4, <1>8, RestIsUnique
  <2>2. a1 % 64 = a1
    BY <1>4
  <2>3. QED
    BY <1>5, <2>1, <2>2
<1>11. x \div w2 = y2
  <2> DEFINE low == 64 * s3 + k0
  <2>1. low \in Nat /\ low < 64 * 64 /\ x = (64 * 64) * y2 + low
    BY <1>4, <1>5, <1>8
  <2>2. w2 \in Nat /\ w2 > 0 /\ w2 = 64 * 64
    OBVIOUS
  <2> HIDE DEF low, w2
  <2>3. low \in Nat /\ low < w2 /\ x = w2 * y2 + low /\ w2 \in Nat /\ w2 > 0 /\ y2 \in Int
    BY <1>8, <2>1, <2>2
  <2>4. QED
    BY <2>3, AbovePlace
<1>12. x \div w3 = a1
  <2> DEFINE low == 64 * (64 * s2 + s3) + k0
  <2>1. low \in Nat /\ low < 64 * 64 * 64 /\ x = (64 * 64 * 64) * a1 + low
    BY <1>4, <1>5, <1>8
  <2>2. w3 \in Nat /\ w3 > 0 /\ w3 = 64 * 64 * 64
    OBVIOUS
  <2> HIDE DEF low, w3
  <2>3. low \in Nat /\ low < w3 /\ x = w3 * a1 + low /\ w3 \in Nat /\ w3 > 0 /\ a1 \in Int
    BY <1>4, <2>1, <2>2
  <2>4. QED
    BY <2>3, AbovePlace
<1>13. x \div v2 = a
  <2> DEFINE low == 256 * b + c
  <2>1. low \in Nat /\ low < 256 * 256 /\ x = (256 * 256) * a + low
    BY <1>7
  <2>2. v2 \in Nat /\ v2 > 0 /\ v2 = 256 * 256
    OBVIOUS
  <2> HIDE DEF low, v2
  <2>3. low \in Nat /\ low < v2 /\ x = v2 * a + low /\ v2 \in Nat /\ v2 > 0 /\ a \in Int
    BY <2>1, <2>2
  <2>4. QED
    BY <2>3, AbovePlace
<1>14. x \div 256 = 256 * a + b /\ x % 256 = c
  <2> DEFINE q == 256 * a + b
  <2>1. q \in Int /\ x = 256 * q + c
    BY <1>7
  <2> HIDE DEF q
  <2>2. x \div 256 = q /\ x % 256 = c
    BY <2>1, RestIsUnique
  <2>3. QED
    BY <2>2 DEF q
<1>15. (256 * a + b) % 256 = b
  BY RestIsUnique
<1>16. ((a1 * 64 + s2) * 64 + s3) * 64 + k0 = x
  BY <1>4, <1>5, <1>8
<1>17. GroupIs(x, a1, s2, s3, k0)
  BY <1>9, <1>10, <1>11, <1>12, <1>16 DEF GroupIs
<1>18. SomeGroup(x, b, c)
  <2>1. a1 \in SixBits /\ s2 \in SixBits /\ s3 \in SixBits /\ k0 \in SixBits
    BY <1>4 DEF SixBits
  <2> HIDE DEF Byte
  <2>2. QED
    BY <1>6, <1>17, <2>1 DEF SomeGroup
<1>19. QED
  BY <1>13, <1>14, <1>15, <1>18 DEF DecodesTo, DecodedByte

(* The groups of the padded text hold all bytes and at most two more; the  *)
(* padding stands where only bytes that are not there would be.            *)
LEMMA PaddingFits ==
    ASSUME NEW N \in Nat
    PROVE  LET L == (4 * N + 2) \div 3
               G == (L + PaddingCount(L)) \div 4
           IN  /\ L \in Nat /\ PaddingCount(L) \in Nat /\ G \in Nat
               /\ L + PaddingCount(L) = 4 * G /\ 3 * G \in N .. N + 2
               /\ \A g \in 0 .. G - 1 :
                     /\ 4 * g + 2 <= L
                     /\ 4 * g + 3 > L => 3 * g + 2 > N
                     /\ 4 * g + 4 > L => 3 * g + 3 > N
<1> DEFINE L == (4 * N + 2) \div 3
           P == PaddingCount(L)
           G == (L + P) \div 4
           q == N \div 3
<1>1. PICK k \in Nat, r \in 0 .. 2 : N = 3 * k + r
  <2>1. q \in Nat /\ N % 3 \in 0 .. 2 /\ N = 3 * q + (N % 3)
    OBVIOUS
  <2>2. QED
    BY <2>1
<1> DEFINE e == IF r = 0 THEN 0 ELSE r + 1
           p == IF r = 0 THEN 0 ELSE 4 - e
           h == IF r = 0 THEN k ELSE k + 1
<1>2. L = 4 * k + e
  <2> DEFINE rest == 4 * N + 2 - 3 * (4 * k + e)
  <2>1. rest \in 0 .. 2 /\ 4 * k + e \in Int /\ 4 * N + 2 = 3 * (4 * k + e) + rest
    BY <1>1
  <2> HIDE DEF rest, e
  <2>2. (3 * (4 * k + e) + rest) \div 3 = 4 * k + e
    BY <2>1, RestIsUnique
  <2>3. QED
    BY <2>1, <2>2
<1>3. e \in 0 .. 3 /\ p \in 0 .. 2 /\ h \in Nat /\ e + p = 4 * (h - k) /\ e = (IF r = 0 THEN 0 ELSE r + 1)
      /\ p = (IF e = 0 THEN 0 ELSE 4 - e) /\ h = (IF r = 0 THEN k ELSE k + 1)
  OBVIOUS
<1> HIDE DEF e, p, h, L
<1>4. P = p
  <2>1. (4 * k + e) % 4 = e
    BY <1>3, RestIsUnique
  <2>2. QED
    BY <1>2, <1>3, <2>1 DEF PaddingCount
<1>5. L + P = 4 * h
  BY <1>2, <1>3, <1>4
<1> HIDE DEF P
<1>6. G = h
  <2>1. (4 * h + 0) \div 4 = h
    BY <1>3, RestIsUnique
  <2>2. 4 * h + 0 = 4 * h
    BY <1>3
  <2>3. QED
    BY <1>5, <2>1, <2>2
<1> HIDE DEF G
<1>7. L \in Nat /\ P \in Nat /\ G \in Nat /\ L + P = 4 * G /\ 3 * G \in N .. N + 2
  BY <1>1, <1>2, <1>3, <1>4, <1>5, <1>6
<1>8. ASSUME NEW g \in 0 .. G - 1
      PROVE  4 * g + 2 <= L /\ (4 * g + 3 > L => 3 * g + 2 > N) /\ (4 * g + 4 > L => 3 * g + 3 > N)
  BY <1>1, <1>2, <1>3, <1>6
<1>9. QED
  BY <1>7, <1>8 DEF L, P, G

(* The characters of a group in the text of an origin.                     *)
CharactersAre(bytes, g, c1, c2, c3, c4) ==
    /\ CharacterOf(bytes, 4 * g + 1) = c1 /\ CharacterOf(bytes, 4 * g + 2) = c2
    /\ CharacterOf(bytes, 4 * g + 3) = c3 /\ CharacterOf(bytes, 4 * g + 4) = c4
    /\ ((c1 * 64 + c2) * 64 + c3) * 64 + c4 = GroupOf(bytes, g)
    /\ 3 * g + 2 > Len(bytes) => c3 = 0
    /\ 3 * g + 3 > Len(bytes) => c4 = 0
SomeCharacters(bytes, g) ==
    \E c1, c2, c3, c4 \in SixBits : CharactersAre(bytes, g, c1, c2, c3, c4)
LEMMA CharactersOfGroup ==
    ASSUME NEW bytes \in Seq(Byte), NEW g \in Nat
    PROVE  /\ SomeCharacters(bytes, g)
           /\ DecodesTo(GroupOf(bytes, g), ByteOf(bytes, 3 * g + 1), ByteOf(bytes, 3 * g + 2),
                        ByteOf(bytes, 3 * g + 3))
<1> DEFINE N == Len(bytes)
           a == ByteOf(bytes, 3 * g + 1)
           b == ByteOf(bytes, 3 * g + 2)
           c == ByteOf(bytes, 3 * g + 3)
           x == GroupOf(bytes, g)
<1>1. N \in Nat /\ \A i \in Nat \ {0} : ByteOf(bytes, i) \in Byte /\ (i > N => ByteOf(bytes, i) = 0)
  <2>1. N \in Nat /\ \A i \in 1 .. N : bytes[i] \in Byte
    BY LenProperties, ElementOfSeq
  <2>2. 0 \in Byte
    BY DEF Byte
  <2>3. QED
    BY <2>1, <2>2 DEF ByteOf
<1> HIDE DEF N
<1>2. /\ a \in Byte /\ b \in Byte /\ c \in Byte
      /\ 3 * g + 2 > N => b = 0 /\ c = 0
      /\ 3 * g + 3 > N => c = 0
  <2>1. 3 * g + 1 \in Nat \ {0} /\ 3 * g + 2 \in Nat \ {0} /\ 3 * g + 3 \in Nat \ {0}
    OBVIOUS
  <2>2. 3 * g + 2 > N => 3 * g + 3 > N
    BY <1>1
  <2>3. QED
    BY <1>1, <2>1, <2>2
<1>3. HoldsBytes(x, a, b, c)
  BY DEF GroupOf, HoldsBytes
<1> HIDE DEF a, b, c, x
<1>4. SomeGroup(x, b, c) /\ DecodesTo(x, a, b, c)
  BY <1>2, <1>3, GroupIsDecoded
<1>5. CharacterOf(bytes, 4 * g + 1) = (x \div (64 * 64 * 64)) % 64
      /\ CharacterOf(bytes, 4 * g + 2) = (x \div (64 * 64)) % 64
      /\ CharacterOf(bytes, 4 * g + 3) = (x \div 64) % 64
      /\ CharacterOf(bytes, 4 * g + 4) = (x \div 1) % 64
  <2>1. ASSUME NEW j \in 1 .. 4
        PROVE  (4 * g + j - 1) \div 4 = g /\ 1 + ((4 * g + j - 1) % 4) = j
    <3>1. 4 * g + j - 1 = 4 * g + (j - 1) /\ j - 1 \in 0 .. 3
      OBVIOUS
    <3>2. (4 * g + (j - 1)) \div 4 = g /\ (4 * g + (j - 1)) % 4 = j - 1
      BY <3>1, RestIsUnique
    <3>3. QED
      BY <3>1, <3>2
  <2>2. \A j \in 1 .. 4 : CharacterOf(bytes, 4 * g + j) = (x \div Weight[j]) % 64
    <3>1. \A j \in 1 .. 4 : CharacterOf(bytes, 4 * g + j) =
             (GroupOf(bytes, (4 * g + j - 1) \div 4) \div Weight[1 + ((4 * g + j - 1) % 4)]) % 64
      BY DEF CharacterOf
    <3>2. QED
      BY <2>1, <3>1 DEF x
  <2>3. Weight[1] = 64 * 64 * 64 /\ Weight[2] = 64 * 64 /\ Weight[3] = 64 /\ Weight[4] = 1
    BY DEF Weight
  <2>4. 1 \in 1 .. 4 /\ 2 \in 1 .. 4 /\ 3 \in 1 .. 4 /\ 4 \in 1 .. 4
    OBVIOUS
  <2>5. QED
    BY <2>2, <2>3, <2>4
<1>6. ASSUME NEW c1 \in SixBits, NEW c2 \in SixBits, NEW c3 \in SixBits, NEW c4 \in SixBits,
             GroupIs(x, c1, c2, c3, c4), b = 0 /\ c = 0 => c3 = 0, c = 0 => c4 = 0
      PROVE  CharactersAre(bytes, g, c1, c2, c3, c4)
  <2>1. (3 * g + 2 > N => c3 = 0) /\ (3 * g + 3 > N => c4 = 0)
    BY <1>2, <1>6
  <2>2. /\ CharacterOf(bytes, 4 * g + 1) = c1 /\ CharacterOf(bytes, 4 * g + 2) = c2
        /\ CharacterOf(bytes, 4 * g + 3) = c3 /\ CharacterOf(bytes, 4 * g + 4) = c4
    BY <1>5, <1>6 DEF GroupIs
  <2>3. ((c1 * 64 + c2) * 64 + c3) * 64 + c4 = GroupOf(bytes, g)
    BY <1>6 DEF GroupIs, x
  <2>4. QED
    BY <2>1, <2>2, <2>3 DEF CharactersAre, N
<1>7. SomeCharacters(bytes, g)
  <2>1. PICK c1, c2, c3, c4 \in SixBits :
           GroupIs(x, c1, c2, c3, c4) /\ (b = 0 /\ c = 0 => c3 = 0) /\ (c = 0 => c4 = 0)
    BY <1>4 DEF SomeGroup
  <2>2. CharactersAre(bytes, g, c1, c2, c3, c4)
    BY <1>6, <2>1
  <2>3. QED
    BY <2>2 DEF SomeCharacters
<1>8. QED
  BY <1>4, <1>7 DEF a, b, c, x

(* The text decoded from an origin is its bytes, printed, with at most two *)
(* zeros behind them.                                                      *)
LEMMA OriginIsDecoded ==
    ASSUME NEW bytes \in Seq(Byte), NEW source, source = Padded(EncodedBytes(bytes))
    PROVE  /\ base64decode(source).ok
           /\ base64decode(source).text \in Seq(Nat)
           /\ Len(base64decode(source).text) \in Len(bytes) .. Len(bytes) + 2
           /\ \A i \in 1 .. Len(base64decode(source).text) :
                 base64decode(source).text[i] = Printed(ByteOf(bytes, i))
<1> DEFINE N == Len(bytes)
           E == EncodedBytes(bytes)
           L == (4 * N + 2) \div 3
           P == PaddingCount(L)
           G == (L + P) \div 4
<1>1. N \in Nat /\ \A i \in Nat \ {0} : ByteOf(bytes, i) \in Byte /\ (i > N => ByteOf(bytes, i) = 0)
  <2>1. N \in Nat /\ \A i \in 1 .. N : bytes[i] \in Byte
    BY LenProperties, ElementOfSeq
  <2>2. 0 \in Byte
    BY DEF Byte
  <2>3. QED
    BY <2>1, <2>2 DEF ByteOf
<1>2. /\ L \in Nat /\ P \in Nat /\ G \in Nat /\ L + P = 4 * G /\ 3 * G \in N .. N + 2
      /\ \A g \in 0 .. G - 1 :
            /\ 4 * g + 2 <= L
            /\ 4 * g + 3 > L => 3 * g + 2 > N
            /\ 4 * g + 4 > L => 3 * g + 3 > N
  BY <1>1, PaddingFits
<1> HIDE DEF G, P, N
<1>5. E = [i \in 1 .. L |-> CharacterOf(bytes, i)]
  BY DEF EncodedBytes, N
<1>6. ASSUME NEW i \in 1 .. 4 * G
      PROVE  \E g \in 0 .. G - 1, j \in 1 .. 4 : i = 4 * g + j
  <2> DEFINE k == i - 1
  <2>1. k \in Nat /\ k < 4 * G /\ i = k + 1
    BY <1>2
  <2> HIDE DEF k
  <2>2. k \div 4 \in Nat /\ k % 4 \in 0 .. 3 /\ k = 4 * (k \div 4) + (k % 4)
    BY <2>1
  <2>3. k \div 4 \in 0 .. G - 1 /\ 1 + (k % 4) \in 1 .. 4 /\ i = 4 * (k \div 4) + (1 + (k % 4))
    BY <1>2, <2>1, <2>2
  <2>4. QED
    BY <2>3
<1>7. \A i \in 1 .. L : CharacterOf(bytes, i) \in SixBits
  <2>1. ASSUME NEW i \in 1 .. L
        PROVE  CharacterOf(bytes, i) \in SixBits
    <3>1. i \in 1 .. 4 * G
      BY <1>2
    <3>2. PICK g \in 0 .. G - 1, j \in 1 .. 4 : i = 4 * g + j
      BY <1>6, <3>1
    <3>3. g \in Nat
      BY <1>2
    <3>4. PICK c1, c2, c3, c4 \in SixBits : CharactersAre(bytes, g, c1, c2, c3, c4)
      BY <3>3, CharactersOfGroup DEF SomeCharacters
    <3>5. j = 1 \/ j = 2 \/ j = 3 \/ j = 4
      OBVIOUS
    <3>6. QED
      BY <3>2, <3>4, <3>5 DEF CharactersAre
  <2>2. QED
    BY <2>1
<1> HIDE DEF E, L
<1>8. E \in Seq(Nat) /\ Len(E) = L /\ \A i \in 1 .. L : E[i] = CharacterOf(bytes, i)
  <2>1. E \in [1 .. L -> Nat]
    <3>1. SixBits \subseteq Nat
      BY DEF SixBits
    <3>2. QED
      BY <1>5, <1>7, <3>1
  <2>2. QED
    BY <1>2, <1>5, <2>1, SeqDef, LenProperties
<1>9. /\ source \in Seq(Nat) /\ Len(source) = 4 * G
      /\ \A i \in 1 .. 4 * G : source[i] = IF i <= L THEN CharacterOf(bytes, i) ELSE Pad
  <2> DEFINE pads == [i \in 1 .. P |-> Pad]
  <2>1. pads \in Seq(Nat) /\ Len(pads) = P /\ \A i \in 1 .. P : pads[i] = Pad
    <3>1. pads \in [1 .. P -> Nat]
      BY DEF Pad
    <3>2. QED
      BY <1>2, <3>1, IsASeq, LenProperties
  <2>2. source = E \o pads
    BY <1>8 DEF Padded, E, P
  <2> HIDE DEF pads
  <2>3. /\ E \o pads \in Seq(Nat) /\ Len(E \o pads) = Len(E) + Len(pads)
        /\ \A i \in 1 .. Len(E) + Len(pads) :
              (E \o pads)[i] = IF i <= Len(E) THEN E[i] ELSE pads[i - Len(E)]
    BY <1>8, <2>1, ConcatProperties, ZenonT(60)
  <2>4. /\ source \in Seq(Nat) /\ Len(source) = 4 * G
        /\ \A i \in 1 .. 4 * G : source[i] = IF i <= L THEN E[i] ELSE pads[i - L]
    BY <1>2, <1>8, <2>1, <2>2, <2>3
  <2>5. \A i \in 1 .. 4 * G : ~(i <= L) => i - L \in 1 .. P
    BY <1>2
  <2>6. \A i \in 1 .. 4 * G : i <= L => i \in 1 .. L
    BY <1>2
  <2>7. QED
    BY <1>8, <2>1, <2>4, <2>5, <2>6
<1>10. ASSUME NEW g \in 0 .. G - 1
       PROVE  Data(source, g) = GroupOf(bytes, g)
  <2>1. /\ g \in Nat /\ 4 * g + 1 \in 1 .. 4 * G /\ 4 * g + 2 \in 1 .. 4 * G
        /\ 4 * g + 3 \in 1 .. 4 * G /\ 4 * g + 4 \in 1 .. 4 * G
        /\ 4 * g + 1 <= L /\ 4 * g + 2 <= L
    <3>1. G \in Nat /\ L \in Nat /\ 4 * g + 2 <= L
      BY <1>2
    <3>2. g \in Nat /\ g + 1 <= G
      BY <3>1
    <3>3. 4 * g + 4 <= 4 * G
      BY <3>1, <3>2
    <3>4. QED
      BY <3>1, <3>2, <3>3
  <2>2. PICK c1, c2, c3, c4 \in SixBits : CharactersAre(bytes, g, c1, c2, c3, c4)
    BY <2>1, CharactersOfGroup DEF SomeCharacters
  <2>3. base64decode_byte(Pad) = 0 /\ \A c \in SixBits : base64decode_byte(c) = c
    BY DEF SixBits, base64decode_byte, Pad
  <2>4. base64decode_byte(source[4 * g + 1]) = c1 /\ base64decode_byte(source[4 * g + 2]) = c2
    BY <1>9, <2>1, <2>2, <2>3 DEF CharactersAre
  <2>5. base64decode_byte(source[4 * g + 3]) = c3
    <3>1. 4 * g + 3 > L => c3 = 0
      BY <1>2, <2>2 DEF CharactersAre, N
    <3>2. source[4 * g + 3] = IF 4 * g + 3 <= L THEN c3 ELSE Pad
      BY <1>9, <2>1, <2>2 DEF CharactersAre
    <3>3. 4 * g + 3 <= L \/ 4 * g + 3 > L
      BY <1>2, <2>1
    <3>4. QED
      BY <2>3, <3>1, <3>2, <3>3
  <2>6. base64decode_byte(source[4 * g + 4]) = c4
    <3>1. 4 * g + 4 > L => c4 = 0
      BY <1>2, <2>2 DEF CharactersAre, N
    <3>2. source[4 * g + 4] = IF 4 * g + 4 <= L THEN c4 ELSE Pad
      BY <1>9, <2>1, <2>2 DEF CharactersAre
    <3>3. 4 * g + 4 <= L \/ 4 * g + 4 > L
      BY <1>2, <2>1
    <3>4. QED
      BY <2>3, <3>1, <3>2, <3>3
  <2>7. QED
    BY <2>2, <2>4, <2>5, <2>6 DEF Data, CharactersAre
<1>11. /\ Len(source) \div 4 = G
       /\ \A i \in 1 .. 4 * (Len(source) \div 4) : isBase64Char(source[i])
  <2>1. (4 * G + 0) \div 4 = G /\ 4 * G + 0 = 4 * G
    BY <1>2, RestIsUnique
  <2>2. Len(source) \div 4 = G
    BY <1>9, <2>1
  <2>3. ASSUME NEW i \in 1 .. 4 * G
        PROVE  source[i] \in 0 .. Pad
    <3>1. i <= L => i \in 1 .. L
      BY <1>2
    <3>2. i <= L => source[i] \in SixBits
      BY <1>7, <1>9, <3>1
    <3>3. ~(i <= L) => source[i] = 64
      BY <1>9 DEF Pad
    <3>4. QED
      BY <3>2, <3>3 DEF Pad, SixBits
  <2>4. QED
    BY <2>2, <2>3 DEF isBase64Char
<1> DEFINE txt == [i \in 1 .. 3 * G |-> Printed(DecodedByte(Data(source, (i - 1) \div 3), (i - 1) % 3))]
<1>12. base64decode(source) = [ok |-> TRUE, text |-> txt]
  BY <1>11 DEF base64decode
<1>13. ASSUME NEW i \in 1 .. 3 * G
       PROVE  txt[i] = Printed(ByteOf(bytes, i))
  <2> DEFINE k == i - 1
             g == k \div 3
             j == k % 3
  <2>1. k \in Nat /\ k < 3 * G /\ i = k + 1
    BY <1>2
  <2>2. txt[i] = Printed(DecodedByte(Data(source, g), j))
    OBVIOUS
  <2> HIDE DEF k, txt
  <2>3. g \in Nat /\ j \in 0 .. 2 /\ k = 3 * g + j
    BY <2>1
  <2> HIDE DEF g, j
  <2>4. g \in 0 .. G - 1
    BY <1>2, <2>1, <2>3
  <2>5. Data(source, g) = GroupOf(bytes, g)
    BY <1>10, <2>4
  <2>6. DecodedByte(GroupOf(bytes, g), j) = ByteOf(bytes, 3 * g + (j + 1))
    <3>1. DecodesTo(GroupOf(bytes, g), ByteOf(bytes, 3 * g + 1), ByteOf(bytes, 3 * g + 2),
                    ByteOf(bytes, 3 * g + 3))
      BY <2>3, CharactersOfGroup
    <3>2. ASSUME j = 0
          PROVE  DecodedByte(GroupOf(bytes, g), j) = ByteOf(bytes, 3 * g + (j + 1))
      <4>1. 3 * g + (j + 1) = 3 * g + 1
        BY <2>3, <3>2
      <4>2. QED
        BY <3>1, <3>2, <4>1 DEF DecodesTo
    <3>3. ASSUME j = 1
          PROVE  DecodedByte(GroupOf(bytes, g), j) = ByteOf(bytes, 3 * g + (j + 1))
      <4>1. 3 * g + (j + 1) = 3 * g + 2
        BY <2>3, <3>3
      <4>2. QED
        BY <3>1, <3>3, <4>1 DEF DecodesTo
    <3>4. ASSUME j = 2
          PROVE  DecodedByte(GroupOf(bytes, g), j) = ByteOf(bytes, 3 * g + (j + 1))
      <4>1. 3 * g + (j + 1) = 3 * g + 3
        BY <2>3, <3>4
      <4>2. QED
        BY <3>1, <3>4, <4>1 DEF DecodesTo
    <3>5. QED
      BY <2>3, <3>2, <3>3, <3>4
  <2>7. i = 3 * g + (j + 1)
    BY <2>1, <2>3
  <2>8. QED
    BY <2>2, <2>5, <2>6, <2>7
<1>14. 3 * G \in Nat /\ \A i \in 1 .. 3 * G : i \in Nat \ {0} /\ Printed(ByteOf(bytes, i)) \in Nat
  <2>1. 3 * G \in Nat
    BY <1>2
  <2>2. ASSUME NEW i \in 1 .. 3 * G
        PROVE  Printed(ByteOf(bytes, i)) \in Nat
    <3>1. i \in Nat \ {0}
      BY <2>1
    <3>2. ByteOf(bytes, i) \in Byte
      BY <1>1, <3>1
    <3>3. \A byte \in Nat : Printed(byte) \in Nat
      BY DEF Printed, Unprintable, BASE_64_INVALID_CHAR
    <3>4. Byte \subseteq Nat
      BY DEF Byte
    <3>5. QED
      BY <3>2, <3>3, <3>4
  <2>3. QED
    BY <2>1, <2>2
<1>15. txt \in Seq(Nat) /\ Len(txt) = 3 * G
  <2>1. txt \in [1 .. 3 * G -> Nat]
    <3>1. txt = [i \in 1 .. 3 * G |-> txt[i]]
      OBVIOUS
    <3> HIDE DEF txt
    <3>2. \A i \in 1 .. 3 * G : txt[i] \in Nat
      BY <1>13, <1>14
    <3>3. QED
      BY <3>1, <3>2
  <2> HIDE DEF txt
  <2>2. QED
    BY <1>14, <2>1, IsASeq, LenProperties
<1> HIDE DEF txt
<1>16. QED
  BY <1>2, <1>12, <1>13, <1>15 DEF N

(* A text with the characters of the beginning of another is a prefix of   *)
(* it.                                                                     *)
LEMMA PrefixByCharacters ==
    ASSUME NEW S, NEW s \in Seq(S), NEW t \in Seq(S), Len(s) <= Len(t),
           \A i \in 1 .. Len(s) : s[i] = t[i]
    PROVE  IsPrefix(s, t)
<1>1. Len(s) \in Nat /\ Len(t) \in Nat /\ \A i \in 1 .. Len(t) : t[i] \in S
  BY LenProperties, ElementOfSeq
<1>2. \A i \in 1 .. Len(s) : s[i] \in S /\ t[i] \in S
  BY <1>1
<1> DEFINE a == SubSeq(s, 1, Len(s))
           b == SubSeq(t, 1, Len(s))
           n == Len(s)
<1>3. n \in Nat /\ n <= Len(t) /\ \A i \in 1 .. n : s[i] = t[i]
  BY <1>1
<1>4. /\ a \in Seq(S) /\ Len(a) = (IF 1 <= n THEN n - 1 + 1 ELSE 0)
      /\ \A i \in 1 .. n - 1 + 1 : a[i] = s[1 + i - 1]
  BY <1>1, <1>2, SubSeqProperties
<1>5. /\ b \in Seq(S) /\ Len(b) = (IF 1 <= n THEN n - 1 + 1 ELSE 0)
      /\ \A i \in 1 .. n - 1 + 1 : b[i] = t[1 + i - 1]
  BY <1>1, <1>2, SubSeqProperties
<1> HIDE DEF a, b, n
<1>6. Len(a) = n /\ Len(b) = n
  BY <1>3, <1>4, <1>5
<1>7. ASSUME NEW i \in 1 .. n
      PROVE  a[i] = b[i]
  <2>1. i \in 1 .. n - 1 + 1 /\ 1 + i - 1 = i
    BY <1>3
  <2>2. QED
    BY <1>3, <1>4, <1>5, <2>1
<1>8. a = b
  BY <1>4, <1>5, <1>6, <1>7, SeqEqual
<1>9. QED
  BY <1>3, <1>8 DEF IsPrefix, a, b, n

(* A text backwards.                                                       *)
LEMMA ReverseCharacters ==
    ASSUME NEW S, NEW s \in Seq(S)
    PROVE  /\ Reverse(s) \in Seq(S) /\ Len(Reverse(s)) = Len(s)
           /\ \A i \in 1 .. Len(s) : Reverse(s)[i] = s[(Len(s) - i) + 1]
<1> DEFINE n == Len(s)
           r == Reverse(s)
<1>1. n \in Nat /\ \A i \in 1 .. n : s[i] \in S
  BY LenProperties, ElementOfSeq
<1>2. \A i \in 1 .. n : (n - i) + 1 \in 1 .. n
  BY <1>1
<1>3. r = [i \in 1 .. n |-> s[(n - i) + 1]]
  BY DEF Reverse
<1> HIDE DEF n, r
<1>4. r \in [1 .. n -> S] /\ \A i \in 1 .. n : r[i] = s[(n - i) + 1]
  BY <1>1, <1>2, <1>3
<1>5. r \in Seq(S) /\ Len(r) = n
  BY <1>1, <1>4, SeqDef, LenProperties
<1>6. QED
  BY <1>4, <1>5 DEF n, r

(* A text with the characters of the end of another is a suffix of it.     *)
LEMMA SuffixByCharacters ==
    ASSUME NEW S, NEW s \in Seq(S), NEW t \in Seq(S), Len(s) <= Len(t),
           \A i \in 1 .. Len(s) : s[i] = t[Len(t) - Len(s) + i]
    PROVE  IsSuffix(s, t)
<1> DEFINE m == Len(s)
           n == Len(t)
           a == Reverse(s)
           b == Reverse(t)
<1>1. /\ a \in Seq(S) /\ Len(a) = m /\ \A i \in 1 .. m : a[i] = s[(m - i) + 1]
      /\ b \in Seq(S) /\ Len(b) = n /\ \A i \in 1 .. n : b[i] = t[(n - i) + 1]
  BY ReverseCharacters
<1>2. m \in Nat /\ n \in Nat /\ m <= n /\ \A i \in 1 .. m : s[i] = t[n - m + i]
  BY LenProperties
<1> HIDE DEF m, n, a, b
<1>3. ASSUME NEW i \in 1 .. m
      PROVE  a[i] = b[i]
  <2> DEFINE j == (m - i) + 1
  <2>1. i \in 1 .. n /\ j \in 1 .. m /\ n - m + j = (n - i) + 1
    BY <1>2
  <2>2. a[i] = s[j] /\ b[i] = t[(n - i) + 1]
    BY <1>1, <2>1
  <2> HIDE DEF j
  <2>3. s[j] = t[n - m + j]
    BY <1>2, <2>1
  <2>4. QED
    BY <2>1, <2>2, <2>3
<1>4. IsPrefix(a, b)
  BY <1>1, <1>2, <1>3, PrefixByCharacters
<1>5. QED
  BY <1>4 DEF IsSuffix, a, b

(* What is left of a text without the question marks at its end is a       *)
(* beginning of it, with nothing else behind it.                           *)
LEMMA EndIsTaken ==
    ASSUME NEW t \in Seq(Nat), NEW N \in Nat \ {0}, N <= Len(t),
           \A i \in N + 1 .. Len(t) : t[i] = BASE_64_INVALID_CHAR
    PROVE  \E n \in 1 .. N : /\ WithoutInvalidEnd(t) = SubSeq(t, 1, n)
                             /\ \A i \in n + 1 .. N : t[i] = BASE_64_INVALID_CHAR
<1> DEFINE k == LastNot(BASE_64_INVALID_CHAR, t)
<1>1. Len(t) \in Nat
  BY LenProperties
<1>2. WithoutInvalidEnd(t) = SubSeq(t, 1, IF k = 0 THEN 1 ELSE k)
  BY DEF WithoutInvalidEnd, LastNot
<1>3. CASE \E p \in 1 .. Len(t) : t[p] # BASE_64_INVALID_CHAR
  <2>1. PICK p \in 1 .. Len(t) : t[p] # BASE_64_INVALID_CHAR
    BY <1>3
  <2>2. /\ k \in p .. Len(t) /\ t[k] # BASE_64_INVALID_CHAR
        /\ \A i \in k + 1 .. Len(t) : t[i] = BASE_64_INVALID_CHAR
    BY <2>1, LastIsFound
  <2> HIDE DEF k
  <2>3. k \in 1 .. N /\ k # 0
    <3>1. k \notin N + 1 .. Len(t)
      BY <2>2
    <3>2. QED
      BY <1>1, <2>1, <2>2, <3>1
  <2>4. \A i \in k + 1 .. N : i \in k + 1 .. Len(t)
    BY <1>1, <2>3
  <2>5. WithoutInvalidEnd(t) = SubSeq(t, 1, k)
    BY <1>2, <2>3
  <2>6. QED
    BY <2>2, <2>3, <2>4, <2>5
<1>4. CASE \A p \in 1 .. Len(t) : t[p] = BASE_64_INVALID_CHAR
  <2>1. k = 0
    BY <1>4 DEF LastNot, SelectLastInSeq
  <2>2. WithoutInvalidEnd(t) = SubSeq(t, 1, 1)
    BY <1>2, <2>1
  <2>3. 1 \in 1 .. N /\ \A i \in 1 + 1 .. N : i \in 1 .. Len(t)
    BY <1>1
  <2>4. QED
    BY <1>4, <2>2, <2>3
<1>5. QED
  BY <1>3, <1>4

(* What is cut out of the middle leaves the beginning and the end, and a   *)
(* text of the size of the display.                                        *)
LEMMA EndsAreShown ==
    ASSUME NEW t \in Seq(Nat), Len(t) > MAX_AUTH_TOKEN_ORIGIN_SIZE,
           NEW half, half = (MAX_AUTH_TOKEN_ORIGIN_SIZE - 3) \div 2,
           NEW shown, shown = truncate_if_needed(t, MAX_AUTH_TOKEN_ORIGIN_SIZE)
    PROVE  /\ IsPrefix(SubSeq(t, 1, half), shown)
           /\ IsSuffix(SubSeq(t, Len(t) - half + 1, Len(t)), shown)
           /\ Len(shown) = MAX_AUTH_TOKEN_ORIGIN_SIZE
<1> DEFINE M == MAX_AUTH_TOKEN_ORIGIN_SIZE
           n == Len(t)
           remaining == M - half - 3
           first == SubSeq(t, 1, half)
           end == SubSeq(t, n - remaining + 1, n)
           tail == SubSeq(t, n - half + 1, n)
           middle == first \o Ellipsis
<1>1. /\ M \in Nat /\ n \in Nat /\ n > M /\ half \in Nat /\ remaining \in Nat
      /\ half + half + 3 <= M /\ half <= remaining /\ remaining <= n /\ half <= n
  <2>1. M \in Nat /\ M >= 3
    BY TokenTextAssumption
  <2>2. n \in Nat
    BY LenProperties
  <2>3. half \in Nat /\ half + half + 3 <= M
    <3>1. \A k \in Nat : k \div 2 \in Nat /\ (k \div 2) + (k \div 2) <= k
      OBVIOUS
    <3>2. M - 3 \in Nat
      BY <2>1
    <3>3. half \in Nat /\ half + half <= M - 3
      BY <3>1, <3>2
    <3> HIDE DEF M
    <3>4. QED
      BY <2>1, <3>3
  <2> HIDE DEF M, n
  <2>4. n > M
    BY DEF n, M
  <2>5. QED
    BY <2>1, <2>2, <2>3, <2>4
<1>2. Ellipsis \in Seq(Nat) /\ Len(Ellipsis) = 3
  BY DEF Ellipsis
<1>3. shown = middle \o end
  <2>1. ~(Len(t) <= M)
    BY <1>1
  <2>2. replacement_index(M) = half /\ M - half - Len(Ellipsis) = remaining
    BY <1>2 DEF replacement_index
  <2> HIDE DEF M
  <2>3. truncate_if_needed(t, M) =
           SubSeq(t, 1, replacement_index(M)) \o Ellipsis
             \o SubSeq(t, Len(t) - (M - replacement_index(M) - Len(Ellipsis)) + 1, Len(t))
    BY <2>1 DEF truncate_if_needed
  <2>4. shown = truncate_if_needed(t, M)
    BY DEF M
  <2>5. QED
    BY <2>2, <2>3, <2>4
<1>4. \A i \in 1 .. n : t[i] \in Nat
  BY ElementOfSeq
<1> HIDE DEF M, n, remaining
<1>5. first \in Seq(Nat) /\ Len(first) = half /\ \A i \in 1 .. half : first[i] = t[i]
  <2>1. 1 \in Int /\ half \in Int /\ \A i \in 1 .. half : t[i] \in Nat
    BY <1>1, <1>4
  <2>2. /\ first \in Seq(Nat) /\ Len(first) = (IF 1 <= half THEN half - 1 + 1 ELSE 0)
        /\ \A i \in 1 .. half - 1 + 1 : first[i] = t[1 + i - 1]
    BY <2>1, SubSeqProperties
  <2> HIDE DEF first
  <2>3. half - 1 + 1 = half /\ \A i \in 1 .. half : 1 + i - 1 = i
    BY <1>1
  <2>4. QED
    BY <1>1, <2>2, <2>3, SMTT(30)
<1>6. end \in Seq(Nat) /\ Len(end) = remaining /\ \A i \in 1 .. remaining : end[i] = t[n - remaining + i]
  <2> DEFINE from == n - remaining + 1
  <2>1. from \in Int /\ n \in Int /\ (\A i \in from .. n : t[i] \in Nat) /\ n - from + 1 = remaining
    BY <1>1, <1>4
  <2> HIDE DEF from
  <2>2. /\ SubSeq(t, from, n) \in Seq(Nat)
        /\ Len(SubSeq(t, from, n)) = (IF from <= n THEN n - from + 1 ELSE 0)
        /\ \A i \in 1 .. n - from + 1 : SubSeq(t, from, n)[i] = t[from + i - 1]
    BY <2>1, SubSeqProperties
  <2>3. (from <= n \/ remaining = 0) /\ \A i \in 1 .. remaining : from + i - 1 = n - remaining + i
    BY <1>1 DEF from
  <2>4. end = SubSeq(t, from, n)
    BY DEF from
  <2> HIDE DEF end
  <2>5. QED
    BY <1>1, <2>1, <2>2, <2>3, <2>4
<1>7. tail \in Seq(Nat) /\ Len(tail) = half /\ \A i \in 1 .. half : tail[i] = t[n - half + i]
  <2> DEFINE from == n - half + 1
  <2>1. from \in Int /\ n \in Int /\ (\A i \in from .. n : t[i] \in Nat) /\ n - from + 1 = half
    BY <1>1, <1>4, SMTT(30)
  <2> HIDE DEF from
  <2>2. /\ SubSeq(t, from, n) \in Seq(Nat)
        /\ Len(SubSeq(t, from, n)) = (IF from <= n THEN n - from + 1 ELSE 0)
        /\ \A i \in 1 .. n - from + 1 : SubSeq(t, from, n)[i] = t[from + i - 1]
    BY <2>1, SubSeqProperties
  <2>3. (from <= n \/ half = 0) /\ \A i \in 1 .. half : from + i - 1 = n - half + i
    BY <1>1, SMTT(30) DEF from
  <2>4. tail = SubSeq(t, from, n)
    BY DEF from
  <2> HIDE DEF tail
  <2>5. QED
    BY <1>1, <2>1, <2>2, <2>3, <2>4
<1> HIDE DEF first, end, tail
<1>8. middle \in Seq(Nat) /\ Len(middle) = half + 3 /\ \A i \in 1 .. half : middle[i] = first[i]
  <2>1. /\ middle \in Seq(Nat) /\ Len(middle) = Len(first) + Len(Ellipsis)
        /\ \A i \in 1 .. Len(first) + Len(Ellipsis) :
              middle[i] = IF i <= Len(first) THEN first[i] ELSE Ellipsis[i - Len(first)]
    BY <1>2, <1>5, ConcatProperties, ZenonT(60)
  <2>2. \A i \in 1 .. half : i \in 1 .. half + 3 /\ i <= half
    BY <1>1
  <2> HIDE DEF middle
  <2>3. QED
    BY <1>2, <1>5, <2>1, <2>2
<1> HIDE DEF middle
<1>9. /\ shown \in Seq(Nat) /\ Len(shown) = M
      /\ \A i \in 1 .. half : shown[i] = t[i]
      /\ \A i \in 1 .. remaining : shown[half + 3 + i] = end[i]
  <2>1. /\ middle \o end \in Seq(Nat) /\ Len(middle \o end) = Len(middle) + Len(end)
        /\ \A i \in 1 .. Len(middle) + Len(end) :
              (middle \o end)[i] = IF i <= Len(middle) THEN middle[i] ELSE end[i - Len(middle)]
    <3>1. middle \in Seq(Nat) /\ end \in Seq(Nat)
      BY <1>6, <1>8
    <3>2. QED
      BY <3>1, ConcatProperties, ZenonT(60)
  <2>2. Len(middle) = half + 3 /\ Len(end) = remaining
    BY <1>6, <1>8
  <2>3. half \in Nat /\ remaining \in Nat /\ M \in Nat /\ half + 3 + remaining = M
    BY <1>1 DEF remaining
  <2> DEFINE both == middle \o end
  <2>4. /\ both \in Seq(Nat) /\ Len(both) = M
        /\ \A i \in 1 .. M : both[i] = IF i <= half + 3 THEN middle[i] ELSE end[i - (half + 3)]
    BY <2>1, <2>2, <2>3
  <2> HIDE DEF both
  <2>5. ASSUME NEW i \in 1 .. half
        PROVE  both[i] = t[i]
    <3>1. i \in 1 .. M /\ i <= half + 3
      BY <2>3
    <3>2. both[i] = middle[i]
      BY <2>4, <3>1
    <3>3. QED
      BY <1>5, <1>8, <3>2
  <2>6. ASSUME NEW i \in 1 .. remaining
        PROVE  both[half + 3 + i] = end[i]
    <3> DEFINE k == half + 3 + i
    <3>1. k \in 1 .. M /\ ~(k <= half + 3) /\ k - (half + 3) = i
      <4>1. i \in Nat /\ 1 <= i /\ i <= remaining
        BY <2>3
      <4>2. QED
        BY <2>3, <4>1
    <3> HIDE DEF k
    <3>2. both[k] = end[i]
      BY <2>4, <3>1
    <3>3. QED
      BY <3>2 DEF k
  <2>7. shown = both
    BY <1>3 DEF both
  <2>8. shown \in Seq(Nat) /\ Len(shown) = M
    BY <2>4, <2>7
  <2>9. \A i \in 1 .. half : shown[i] = t[i]
    BY <2>5, <2>7, Zenon
  <2>10. \A i \in 1 .. remaining : shown[half + 3 + i] = end[i]
    BY <2>6, <2>7, Zenon
  <2>11. QED
    BY <2>8, <2>9, <2>10
<1>10. IsPrefix(first, shown)
  <2>1. Len(first) <= Len(shown)
    BY <1>1, <1>5, <1>9
  <2>2. \A i \in 1 .. Len(first) : first[i] = shown[i]
    BY <1>5, <1>9, Zenon
  <2>3. first \in Seq(Nat) /\ shown \in Seq(Nat)
    BY <1>5, <1>9
  <2>4. QED
    BY <2>1, <2>2, <2>3, PrefixByCharacters, Zenon
<1>11. IsSuffix(tail, shown)
  <2>1. ASSUME NEW i \in 1 .. half
        PROVE  tail[i] = shown[M - half + i]
    <3> DEFINE j == remaining - half + i
    <3>1. j \in 1 .. remaining /\ half + 3 + j = M - half + i /\ n - remaining + j = n - half + i
      <4>1. /\ half \in Nat /\ remaining \in Nat /\ M \in Nat /\ n \in Nat
            /\ half <= remaining /\ half + 3 + remaining = M
        BY <1>1 DEF remaining
      <4>2. i \in Nat /\ 1 <= i /\ i <= half
        BY <4>1
      <4>3. j \in Nat /\ 1 <= j /\ j <= remaining
        BY <4>1, <4>2
      <4>4. half + 3 + j = M - half + i
        BY <4>1, <4>2, SMTT(30)
      <4>5. n - remaining + j = n - half + i
        BY <4>1, <4>2
      <4>6. QED
        BY <4>1, <4>3, <4>4, <4>5
    <3> HIDE DEF j
    <3>2. shown[half + 3 + j] = end[j] /\ end[j] = t[n - remaining + j]
      BY <1>6, <1>9, <3>1
    <3>3. tail[i] = t[n - half + i]
      BY <1>7
    <3>4. QED
      BY <3>1, <3>2, <3>3
  <2>2. half <= M
    BY <1>1
  <2>3. QED
    BY <1>7, <1>9, <2>1, <2>2, SuffixByCharacters
<1>12. QED
  BY <1>9, <1>10, <1>11 DEF first, tail, n, M

(* A prefix has the characters of what it begins.                          *)
LEMMA CharactersOfPrefix ==
    ASSUME NEW S, NEW s \in Seq(S), NEW t \in Seq(S), IsPrefix(s, t)
    PROVE  Len(s) <= Len(t) /\ \A i \in 1 .. Len(s) : s[i] = t[i]
<1> DEFINE n == Len(s)
           a == SubSeq(s, 1, n)
           b == SubSeq(t, 1, n)
<1>1. n \in Nat /\ Len(t) \in Nat /\ n <= Len(t) /\ a = b
  BY LenProperties DEF IsPrefix
<1>2. /\ \A i \in 1 .. n : s[i] \in S
      /\ \A i \in 1 .. Len(t) : t[i] \in S
  BY ElementOfSeq
<1> HIDE DEF n
<1>3. \A i \in 1 .. n : s[i] \in S /\ t[i] \in S
  BY <1>1, <1>2 DEF n
<1>4. \A i \in 1 .. n - 1 + 1 : a[i] = s[1 + i - 1]
  BY <1>1, <1>3, SubSeqProperties
<1>5. \A i \in 1 .. n - 1 + 1 : b[i] = t[1 + i - 1]
  BY <1>1, <1>3, SubSeqProperties
<1> HIDE DEF a, b
<1>6. n - 1 + 1 = n /\ \A i \in 1 .. n : 1 + i - 1 = i
  BY <1>1
<1>7. \A i \in 1 .. n : s[i] = t[i]
  BY <1>1, <1>4, <1>5, <1>6
<1>8. QED
  BY <1>1, <1>7 DEF n

(* The beginnings of two texts with the same characters there are one.     *)
LEMMA SameBeginning ==
    ASSUME NEW s \in Seq(Nat), NEW t \in Seq(Nat), NEW n \in Nat, n <= Len(s), n <= Len(t),
           \A i \in 1 .. n : s[i] = t[i]
    PROVE  /\ SubSeq(s, 1, n) = SubSeq(t, 1, n)
           /\ SubSeq(s, 1, n) \in Seq(Nat) /\ Len(SubSeq(s, 1, n)) = n
<1> DEFINE a == SubSeq(s, 1, n)
           b == SubSeq(t, 1, n)
<1>1. \A i \in 1 .. n : s[i] \in Nat /\ t[i] \in Nat
  <2>1. /\ \A i \in 1 .. Len(s) : s[i] \in Nat
        /\ Len(s) \in Nat
    BY ElementOfSeq, LenProperties
  <2>2. QED
    BY <2>1, SMTT(30)
<1>2. /\ a \in Seq(Nat) /\ Len(a) = (IF 1 <= n THEN n - 1 + 1 ELSE 0)
      /\ \A i \in 1 .. n - 1 + 1 : a[i] = s[1 + i - 1]
  BY <1>1, SubSeqProperties
<1>3. /\ b \in Seq(Nat) /\ Len(b) = (IF 1 <= n THEN n - 1 + 1 ELSE 0)
      /\ \A i \in 1 .. n - 1 + 1 : b[i] = t[1 + i - 1]
  BY <1>1, SubSeqProperties
<1> HIDE DEF a, b
<1>4. Len(a) = n /\ Len(b) = n /\ n - 1 + 1 = n
  BY <1>2, <1>3
<1>5. ASSUME NEW i \in 1 .. n
      PROVE  a[i] = b[i]
  <2>1. i \in 1 .. n - 1 + 1 /\ 1 + i - 1 = i
    BY <1>4
  <2>2. a[i] = s[i] /\ b[i] = t[i]
    BY <1>2, <1>3, <2>1
  <2>3. QED
    BY <2>2
<1>6. a = b
  BY <1>2, <1>3, <1>4, <1>5, SeqEqual
<1>7. QED
  BY <1>2, <1>4, <1>6 DEF a, b

(* An encoding that fits the buffer; a reserved prefix that can be told    *)
(* from what is not printed; and what is displayed of a printed origin.    *)
EncodingFits(bytes) == (4 * Len(bytes) + 2) \div 3 < AUTH_TOKEN_ENCODED_ORIGIN_MAX_SIZE
WithoutQuestionMark(prefix) == \A k \in 1 .. Len(prefix) : prefix[k] # BASE_64_INVALID_CHAR
DisplayIsOf(display, prefix, printed) ==
    IF IsPrefix(prefix, printed) THEN display.ret = "BAD_REQUEST"
    ELSE /\ display.ret = "OK"
         /\ \E n \in 1 .. Len(printed) :
               /\ \A i \in n + 1 .. Len(printed) : printed[i] = BASE_64_INVALID_CHAR
               /\ SubSeq(printed, 1, n) \in Seq(Nat) /\ Len(SubSeq(printed, 1, n)) = n
               /\ display.origin = truncate_if_needed(SubSeq(printed, 1, n),
                                                      MAX_AUTH_TOKEN_ORIGIN_SIZE)

(* An origin whose encoding fits is refused when its printed bytes begin   *)
(* with the reserved prefix, and otherwise shown.                          *)
LEMMA OriginIsShown ==
    ASSUME NEW bytes \in Seq(Byte), bytes # << >>,
           EncodingFits(bytes),
           NEW prefix \in Seq(Nat), prefix = AUTH_TOKEN_INVALID_ORIGIN_PREFIX,
           WithoutQuestionMark(prefix),
           NEW printed, printed = [i \in DOMAIN bytes |-> Printed(bytes[i])],
           NEW display, display = compute_token_display(EncodedBytes(bytes), << >>)
    PROVE  DisplayIsOf(display, prefix, printed)
<1> DEFINE N == Len(bytes)
           E == EncodedBytes(bytes)
           D == base64decode(Padded(E))
           decoded == D.text
<1>1. N \in Nat \ {0} /\ DOMAIN bytes = 1 .. N /\ \A i \in 1 .. N : bytes[i] \in Byte
  <2>1. N \in Nat /\ DOMAIN bytes = 1 .. N /\ \A i \in 1 .. N : bytes[i] \in Byte
    BY LenProperties, ElementOfSeq
  <2>2. N # 0
    BY EmptySeq
  <2>3. QED
    BY <2>1, <2>2
<1>2. /\ D.ok /\ decoded \in Seq(Nat) /\ Len(decoded) \in N .. N + 2
      /\ \A i \in 1 .. Len(decoded) : decoded[i] = Printed(ByteOf(bytes, i))
  BY OriginIsDecoded
<1>3. /\ printed \in Seq(Nat) /\ Len(printed) = N
      /\ \A i \in 1 .. N : printed[i] = Printed(bytes[i])
  <2>1. \A b \in Byte : Printed(b) \in Nat
    BY DEF Printed, BASE_64_INVALID_CHAR, Byte
  <2> HIDE DEF N
  <2>2. printed \in [1 .. N -> Nat] /\ \A i \in 1 .. N : printed[i] = Printed(bytes[i])
    BY <1>1, <2>1
  <2>3. QED
    BY <1>1, <2>2, SeqDef, LenProperties
<1>4. E # << >> /\ Len(E) < AUTH_TOKEN_ENCODED_ORIGIN_MAX_SIZE
  <2> DEFINE L == (4 * N + 2) \div 3
  <2>1. L \in Nat \ {0}
    BY <1>1
  <2>2. L < AUTH_TOKEN_ENCODED_ORIGIN_MAX_SIZE
    BY DEF EncodingFits
  <2>3. E = [i \in 1 .. L |-> CharacterOf(bytes, i)]
    BY DEF EncodedBytes
  <2> HIDE DEF L, E
  <2>4. Len(E) = L
    BY <2>1, <2>3
  <2>5. QED
    BY <2>1, <2>2, <2>4
<1> HIDE DEF E
<1>5. /\ IsPrefix(prefix, decoded) => display.ret = "BAD_REQUEST"
      /\ ~IsPrefix(prefix, decoded) =>
            /\ display.ret = "OK"
            /\ display.origin = truncate_if_needed(WithoutInvalidEnd(decoded), MAX_AUTH_TOKEN_ORIGIN_SIZE)
  <2>1. display = compute_token_display(E, << >>)
    BY DEF E
  <2>2. D.ok
    BY <1>2
  <2>3. CASE IsPrefix(prefix, decoded)
    <3>1. display = Display("BAD_REQUEST", << >>, << >>)
      BY <1>4, <2>1, <2>2, <2>3 DEF compute_token_display
    <3>2. QED
      BY <2>3, <3>1 DEF Display
  <2>4. CASE ~IsPrefix(prefix, decoded)
    <3>1. display = Display("OK", truncate_if_needed(WithoutInvalidEnd(decoded), MAX_AUTH_TOKEN_ORIGIN_SIZE), NoTime)
      BY <1>4, <2>1, <2>2, <2>4 DEF compute_token_display
    <3>2. QED
      BY <2>4, <3>1 DEF Display
  <2>5. QED
    BY <2>3, <2>4
<1> HIDE DEF D, decoded, N
<1>6. /\ Len(decoded) \in Nat /\ N <= Len(decoded)
      /\ \A i \in 1 .. N : decoded[i] = printed[i]
      /\ \A i \in N + 1 .. Len(decoded) : decoded[i] = BASE_64_INVALID_CHAR
  <2>1. Len(decoded) \in Nat /\ N <= Len(decoded)
    BY <1>1, <1>2
  <2>2. ASSUME NEW i \in 1 .. N
        PROVE  decoded[i] = printed[i]
    <3>1. i \in 1 .. Len(decoded)
      BY <1>1, <2>1
    <3>2. ByteOf(bytes, i) = bytes[i]
      BY <1>1 DEF ByteOf, N
    <3>3. QED
      BY <1>2, <1>3, <3>1, <3>2
  <2>3. ASSUME NEW i \in N + 1 .. Len(decoded)
        PROVE  decoded[i] = BASE_64_INVALID_CHAR
    <3>1. i \in 1 .. Len(decoded) /\ i > N
      BY <1>1, <2>1
    <3>2. ByteOf(bytes, i) = 0
      BY <1>1, <3>1 DEF ByteOf, N
    <3>3. Printed(0) = BASE_64_INVALID_CHAR
      BY DEF Printed, Unprintable
    <3>4. QED
      BY <1>2, <3>1, <3>2, <3>3
  <2>4. QED
    BY <2>1, <2>2, <2>3
<1>7. IsPrefix(prefix, decoded) <=> IsPrefix(prefix, printed)
  <2>1. Len(prefix) \in Nat
    BY LenProperties
  <2>2. ASSUME IsPrefix(prefix, decoded)
        PROVE  IsPrefix(prefix, printed)
    <3>1. Len(prefix) <= Len(decoded) /\ \A i \in 1 .. Len(prefix) : prefix[i] = decoded[i]
      BY <1>2, <2>2, CharactersOfPrefix
    <3>2. Len(prefix) <= N
      <4>1. SUFFICES ASSUME N < Len(prefix)
                     PROVE  FALSE
        BY <1>1, <2>1
      <4>2. N + 1 \in 1 .. Len(prefix) /\ N + 1 \in N + 1 .. Len(decoded)
        BY <1>1, <1>6, <2>1, <3>1, <4>1
      <4>3. prefix[N + 1] = BASE_64_INVALID_CHAR
        BY <1>6, <3>1, <4>2
      <4>4. QED
        BY <4>2, <4>3 DEF WithoutQuestionMark
    <3>3. \A i \in 1 .. Len(prefix) : prefix[i] = printed[i]
      BY <1>1, <1>6, <2>1, <3>1, <3>2
    <3>4. Len(prefix) <= Len(printed)
      BY <1>3, <3>2
    <3>5. QED
      BY <1>3, <3>3, <3>4, PrefixByCharacters
  <2>3. ASSUME IsPrefix(prefix, printed)
        PROVE  IsPrefix(prefix, decoded)
    <3>1. prefix \in Seq(Nat) /\ printed \in Seq(Nat)
      BY <1>3
    <3>2. Len(prefix) <= Len(printed) /\ \A i \in 1 .. Len(prefix) : prefix[i] = printed[i]
      BY <2>3, <3>1, CharactersOfPrefix, ZenonT(60)
    <3>3. Len(prefix) <= N
      BY <1>3, <3>2
    <3>4. \A i \in 1 .. Len(prefix) : i \in 1 .. N
      BY <1>1, <2>1, <3>3
    <3>5. \A i \in 1 .. Len(prefix) : prefix[i] = decoded[i]
      BY <1>6, <3>2, <3>4
    <3>6. Len(prefix) <= Len(decoded)
      BY <1>1, <1>6, <2>1, <3>3
    <3>7. QED
      BY <1>2, <3>1, <3>5, <3>6, PrefixByCharacters
  <2>4. QED
    BY <2>2, <2>3
<1>8. PICK n \in 1 .. N : /\ WithoutInvalidEnd(decoded) = SubSeq(decoded, 1, n)
                          /\ \A i \in n + 1 .. N : decoded[i] = BASE_64_INVALID_CHAR
  BY <1>1, <1>2, <1>6, EndIsTaken
<1>9. n \in Nat /\ n <= Len(printed) /\ n <= Len(decoded) /\ \A i \in 1 .. n : printed[i] = decoded[i]
  BY <1>1, <1>3, <1>6
<1>10. /\ SubSeq(printed, 1, n) = SubSeq(decoded, 1, n)
       /\ SubSeq(printed, 1, n) \in Seq(Nat) /\ Len(SubSeq(printed, 1, n)) = n
  BY <1>2, <1>3, <1>9, SameBeginning
<1>11. \A i \in n + 1 .. N : printed[i] = BASE_64_INVALID_CHAR
  <2>1. \A i \in n + 1 .. N : i \in 1 .. N
    BY <1>1
  <2>2. QED
    BY <1>6, <1>8, <2>1
<1>12. CASE IsPrefix(prefix, printed)
  BY <1>5, <1>7, <1>12 DEF DisplayIsOf
<1>13. CASE ~IsPrefix(prefix, printed)
  <2>1. /\ display.ret = "OK"
        /\ display.origin = truncate_if_needed(SubSeq(printed, 1, n), MAX_AUTH_TOKEN_ORIGIN_SIZE)
    BY <1>5, <1>7, <1>8, <1>10, <1>13
  <2>2. n \in 1 .. Len(printed) /\ Len(printed) = N
    BY <1>3
  <2>3. QED
    BY <1>10, <1>11, <1>13, <2>1, <2>2 DEF DisplayIsOf
<1>14. QED
  BY <1>12, <1>13

(* The origin shown to the user is the one in the token: it is refused     *)
(* when it begins with the reserved prefix and otherwise shown, whole or   *)
(* its beginning and its end, without the question marks at its end        *)
(* (compute_token_display); for origins of bytes whose encoding fits the   *)
(* buffer, and a reserved prefix without question marks.                   *)
THEOREM OriginsAreShown ==
    ASSUME NoInput.kind # "origin",
           AUTH_TOKEN_INVALID_ORIGIN_PREFIX \in Seq(Nat),
           \A k \in 1 .. Len(AUTH_TOKEN_INVALID_ORIGIN_PREFIX) :
               AUTH_TOKEN_INVALID_ORIGIN_PREFIX[k] # BASE_64_INVALID_CHAR,
           \A i \in Input : i.kind = "origin" =>
               /\ i.bytes \in Seq(0 .. 255) /\ i.bytes # << >>
               /\ (4 * Len(i.bytes) + 2) \div 3 < AUTH_TOKEN_ENCODED_ORIGIN_MAX_SIZE
    PROVE  TextSpec => []OriginShownIsOrigin
<1>1. input \in Input \cup {NoInput} => OriginShownIsOrigin
  <2>1. SUFFICES ASSUME input \in Input \cup {NoInput}, Is("origin")
                 PROVE  OriginShownIsOrigin
    BY DEF OriginShownIsOrigin
  <2> DEFINE bytes == input.bytes
             prefix == AUTH_TOKEN_INVALID_ORIGIN_PREFIX
             display == compute_token_display(EncodedBytes(bytes), << >>)
             printed == [i \in DOMAIN bytes |-> Printed(bytes[i])]
             shown == display.origin
             half == (MAX_AUTH_TOKEN_ORIGIN_SIZE - 3) \div 2
             origin(n) == SubSeq(printed, 1, n)
             ShowsUpTo(n) ==
                 /\ \A i \in n + 1 .. Len(printed) : printed[i] = BASE_64_INVALID_CHAR
                 /\ IF n <= MAX_AUTH_TOKEN_ORIGIN_SIZE THEN shown = origin(n)
                    ELSE /\ IsPrefix(SubSeq(origin(n), 1, half), shown)
                         /\ IsSuffix(SubSeq(origin(n), n - half + 1, n), shown)
                         /\ Len(shown) = MAX_AUTH_TOKEN_ORIGIN_SIZE
  <2>2. bytes \in Seq(Byte) /\ bytes # << >> /\ EncodingFits(bytes)
    BY <2>1 DEF Is, Byte, EncodingFits
  <2>3. DisplayIsOf(display, prefix, printed)
    <3>1. prefix \in Seq(Nat) /\ WithoutQuestionMark(prefix)
      BY DEF WithoutQuestionMark
    <3> HIDE DEF bytes, prefix, display, printed
    <3>2. prefix = AUTH_TOKEN_INVALID_ORIGIN_PREFIX
      BY DEF prefix
    <3>3. /\ display = compute_token_display(EncodedBytes(bytes), << >>)
          /\ printed = [i \in DOMAIN bytes |-> Printed(bytes[i])]
      BY DEF display, printed
    <3>4. QED
      BY <2>2, <3>1, <3>2, <3>3, OriginIsShown
  <2> HIDE DEF display, printed
  <2>4. ASSUME NEW n \in 1 .. Len(printed),
               \A i \in n + 1 .. Len(printed) : printed[i] = BASE_64_INVALID_CHAR,
               origin(n) \in Seq(Nat), Len(origin(n)) = n,
               shown = truncate_if_needed(origin(n), MAX_AUTH_TOKEN_ORIGIN_SIZE)
        PROVE  ShowsUpTo(n)
    <3> DEFINE t == origin(n)
    <3>1. t \in Seq(Nat) /\ Len(t) = n /\ shown = truncate_if_needed(t, MAX_AUTH_TOKEN_ORIGIN_SIZE)
      BY <2>4
    <3> HIDE DEF t
    <3>2. CASE n <= MAX_AUTH_TOKEN_ORIGIN_SIZE
      <4>1. shown = t
        BY <3>1, <3>2 DEF truncate_if_needed
      <4>2. QED
        BY <2>4, <3>2, <4>1 DEF t
    <3>3. CASE ~(n <= MAX_AUTH_TOKEN_ORIGIN_SIZE)
      <4>1. n \in Nat /\ MAX_AUTH_TOKEN_ORIGIN_SIZE \in Nat
        BY <3>1, LenProperties, TokenTextAssumption
      <4>2. Len(t) > MAX_AUTH_TOKEN_ORIGIN_SIZE
        BY <3>1, <3>3, <4>1
      <4>3. /\ IsPrefix(SubSeq(t, 1, half), shown)
            /\ IsSuffix(SubSeq(t, Len(t) - half + 1, Len(t)), shown)
            /\ Len(shown) = MAX_AUTH_TOKEN_ORIGIN_SIZE
        <5> HIDE DEF shown, half
        <5>1. half = (MAX_AUTH_TOKEN_ORIGIN_SIZE - 3) \div 2
          BY DEF half
        <5>2. QED
          BY <3>1, <4>2, <5>1, EndsAreShown
      <4>4. QED
        BY <2>4, <3>1, <3>3, <4>3 DEF t
    <3>4. QED
      BY <3>2, <3>3
  <2> HIDE DEF ShowsUpTo
  <2>5. IF IsPrefix(prefix, printed) THEN display.ret = "BAD_REQUEST"
        ELSE display.ret = "OK" /\ \E n \in 1 .. Len(printed) : ShowsUpTo(n)
    BY <2>3, <2>4 DEF DisplayIsOf
  <2>6. QED
    BY <2>1, <2>5 DEF OriginShownIsOrigin, ShowsUpTo, display, printed
<1>2. QED
  BY <1>1, InputStays, PTL
==============================================================================
