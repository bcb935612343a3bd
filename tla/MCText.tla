------------------------------- MODULE MCText --------------------------------
(***************************************************************************)
(* A small instance of the reader and of the functions on numbers and      *)
(* texts, with every width and every buffer scaled down.                   *)
(***************************************************************************)
EXTENDS TextProperties

(***************************************************************************)
(* Texts.  A document is a sequence of members; its text is cut anywhere   *)
(* by NextChunk.  v stands for value, r and ru for receiver and            *)
(* receiverUsername, da for data.                                          *)
(***************************************************************************)
MCDigit == {"1"}
MCFields == {<<"v">>, <<"r">>, <<"r", "u">>, <<"d", "a">>}
MCHidden == {<<"r", "u">>}
MCDataName == <<"d", "a">>
MCReceiverName == <<"r">>

Mem(name, value, quoted, size) ==
    [name |-> name, value |-> value, quoted |-> quoted, size |-> size]
FullMember == Mem(<<"v">>, <<"1", "1", "1", "1">>, FALSE, 0)
ValueMember == Mem(<<"v">>, <<"1">>, FALSE, 0)
DataMembers ==
    {Mem(MCDataName, <<"a", "a", "a", "a">>, TRUE, 3),
     Mem(MCDataName, <<"a", "a", "a", "=">>, TRUE, 2),
     Mem(MCDataName, <<"a", "a", "a", "a", "a", "a", "=", "=">>, TRUE, 4)}
UsernameMember == Mem(<<"r", "u">>, <<"a">>, TRUE, 0)
ReceiverMember == Mem(<<"r">>, <<"b">>, TRUE, 0)
MCMembers == {FullMember, ValueMember, UsernameMember, ReceiverMember} \cup DataMembers

MCDocs ==
    {<<m>> : m \in MCMembers}
        \cup {<<UsernameMember, ReceiverMember>>, <<ValueMember, UsernameMember>>}
        \cup {<<m, ValueMember>> : m \in DataMembers}

Quoted(s) == <<Quote>> \o s \o <<Quote>>
RenderMember(m) == Quoted(m.name) \o <<":">> \o (IF m.quoted THEN Quoted(m.value) ELSE m.value)
RenderDoc(doc) ==
    <<"{">> \o FoldLeft(LAMBDA s, i : s \o (IF i = 1 THEN << >> ELSE <<",">>) \o RenderMember(doc[i]),
                        << >>, [i \in DOMAIN doc |-> i]) \o <<"}">>

(* Names that go on behind that of a field, or end before it does, and     *)
(* what may stand behind the last brace.                                   *)
LongerNames ==
    {<<Mem(<<"v", "x">>, <<"1">>, FALSE, 0)>>, <<Mem(<<"r", "u", "x">>, <<"a">>, TRUE, 0)>>,
     <<Mem(<<"d", "a", "x">>, <<"a", "a", "a", "=">>, TRUE, 0)>>}
BeginningMember == Mem(<<"d">>, <<"a">>, TRUE, 0)
ShorterNames == {<<BeginningMember>>, <<ReceiverMember, BeginningMember>>}
Behind == {[doc |-> <<ValueMember>>, rest |-> <<"}">>],
           [doc |-> <<ReceiverMember>>, rest |-> <<"{", Quote>>]}

(* What is not a transaction: a sign left out, a name nobody knows, an     *)
(* empty name or value, a number with a letter, a value that is too long,  *)
(* a receiver under a longer name.                                         *)
Signs == {"{", Quote, ":", ",", "}"}
Broken == <<ValueMember, UsernameMember>>
Odd ==
    {RemoveAt(RenderDoc(Broken), i) : i \in {j \in DOMAIN RenderDoc(Broken) : RenderDoc(Broken)[j] \in Signs}}
        \cup {RenderDoc(<<m>>) : m \in
                {Mem(<<"x">>, <<"1">>, TRUE, 0), Mem(<< >>, <<"1">>, TRUE, 0),
                 Mem(<<"v">>, << >>, TRUE, 0), Mem(<<"v">>, <<"1", "x">>, FALSE, 0),
                 Mem(<<"v">>, <<"1", "1", "1", "1", "1">>, FALSE, 0),
                 Mem(<<"r">>, <<"1", "1", "1", "1", "1">>, TRUE, 0),
                 Mem(<<"r", "x">>, <<"1">>, TRUE, 0),
                 Mem(<<"d">>, <<"1", "1", "1", "1", "1">>, TRUE, 0),
                 Mem(<<"x", "x", "x", "x">>, <<"1">>, TRUE, 0)}}

(* The fields a name is taken for, and those it may be taken for if it is  *)
(* the beginning of their names only.                                      *)
TakenFor(name) ==
    {f \in MCFields : IsPrefix(f, name) /\ (f = MCReceiverName => f = name)}
Begins(name) == {f \in MCFields : IsStrictPrefix(name, f)}
IsOpen(m) == TakenFor(m.name) = {}
Fields(m) == (IF IsOpen(m) THEN Begins(m.name) ELSE TakenFor(m.name)) \ MCHidden

Kept(value) == SubSeq(value, 1, IF Len(value) < MAX_VALUE_LEN THEN Len(value) ELSE MAX_VALUE_LEN)
WrittenAs(doc, t) ==
    [text |-> t,
     members |-> [i \in DOMAIN doc |-> [fields |-> Fields(doc[i]), value |-> Kept(doc[i].value)]],
     size |-> [i \in {j \in DOMAIN doc : doc[j].name = MCDataName} |-> doc[i].size],
     holds |-> IF \E i \in DOMAIN doc : IsOpen(doc[i]) THEN "open" ELSE "yes"]
WellFormed(doc) == WrittenAs(doc, RenderDoc(doc))
Malformed(t) == [text |-> t, members |-> << >>, size |-> << >>, holds |-> "no"]
MCDocuments ==
    {WellFormed(doc) : doc \in MCDocs \cup LongerNames \cup ShorterNames}
        \cup {WrittenAs(b.doc, RenderDoc(b.doc) \o b.rest) : b \in Behind}
        \cup {Malformed(t) : t \in Odd}
MCTexts == {d.text : d \in MCDocuments}
MCChar == {Zero} \cup UNION {Range(t) : t \in MCTexts}

(***************************************************************************)
(* Inputs of the functions.                                                *)
(***************************************************************************)
NotADigit == 19
Strings(digits, n) == BoundedSeq(digits, n)
IntInputs == [kind : {"int"}, str : Strings({0, 1, 3, 9, NotADigit}, 3)]
FeeInputs ==
    [kind : {"fee"}, gas_limit : 0 .. W64 - 1, gas_price : {0, 1, 2, 3, 6, 62, 63}, data_size : 0 .. 3]
PrettyInputs ==
    [kind : {"pretty"}, amount : Strings({0, 5}, 6) \ {<< >>}, decimals : 0 .. 7,
     ticker_len : {0, PRETTY_SIZE - 2, PRETTY_SIZE - 1}]
U32Inputs == [kind : {"u32"}, n : 0 .. W32 - 1]

Letter == 20
Filler(n) == [i \in 1 .. n |-> Letter]
PadTo3(s) == s \o [i \in 1 .. ((3 - (Len(s) % 3)) % 3) |-> NotPrinted]
EsdtText(identifier_len, amount, more) ==
    PadTo3(Filler(ESDT_TRANSFER_PREFIX_LENGTH) \o Filler(identifier_len) \o <<SC_ARGS_SEPARATOR>>
               \o amount \o (IF more = 0 THEN << >> ELSE <<SC_ARGS_SEPARATOR>> \o Filler(more - 1)))
EsdtInputs ==
    {[kind |-> "esdt", amount |-> a, data |-> EsdtText(l, a, m)] :
        l \in 1 .. 4, a \in Strings({0, 1, 15}, 4), m \in {0, 1, 2, 3, 9}}
ASSUME TransfersAsWritten == \A i \in EsdtInputs : IsTransfer(i.data, i.amount)

TtlInputs ==
    [kind : {"ttl"}, str : {DigitsOf(n) : n \in
        {0, 1, 10, 59, 60, 61, 123, 1234, 3599, 3600, 3601, 12345, 43210, 43505, 86399, 86400,
         89999, 90000, 131071, 131072, 262143, 262144, 262204, 352144, 999999}} \cup {<<1, NotADigit>>}]
OriginInputs ==
    [kind : {"origin"}, bytes : (Strings({97, 109, 63, 200}, 4) \ {<< >>})
        \cup {[i \in 1 .. n |-> 96 + i] : n \in 5 .. 9}
        \cup {Append([i \in 1 .. n |-> 96 + i], 63) : n \in 6 .. 8}]
MCReserved == <<109, 97>>

MCInput == IntInputs \cup FeeInputs \cup PrettyInputs \cup U32Inputs \cup EsdtInputs
               \cup TtlInputs \cup OriginInputs
MCNoInput == [kind |-> "none"]
MCNoInputs == {}

(* The hosts of the runs that find a disagreement with a comment.          *)
PaddedDocuments == {WellFormed(<<m>>) : m \in DataMembers}
PaddedTexts == {d.text : d \in PaddedDocuments}
MCNoDocuments == {}
==============================================================================
