-------------------------- MODULE Transaction_proof --------------------------
(***************************************************************************)
(* Proofs that the review of a transaction shows the text whose hash is    *)
(* signed.  The parser sees the text one chunk at a time, keeps nothing of *)
(* it but its status and the fields, and shares the hash and the session   *)
(* state with the other signing commands.                                  *)
(***************************************************************************)
EXTENDS Review_proof, FiniteSetTheorems

(***************************************************************************)
(* Induction over the tokens of a chunk.                                   *)
(***************************************************************************)
(* What ParserAfter is made of: the start, then one token after the other. *)
IsRun(p, start, setting, tokens, k) ==
    p = [n \in 0 .. k |-> IF n = 0 THEN start ELSE ParseToken(p[n - 1], setting, tokens[n])]

(* The parser has a state after each number of tokens, its start and what  *)
(* each token makes of it (parse_data).                                    *)
LEMMA ParserSteps ==
    ASSUME NEW start, NEW setting, NEW tokens, Len(tokens) \in Nat
    PROVE  /\ ParserAfter(start, setting, tokens)[0] = start
           /\ \A n \in Nat : n + 1 <= Len(tokens) =>
                 ParserAfter(start, setting, tokens)[n + 1] =
                    ParseToken(ParserAfter(start, setting, tokens)[n], setting, tokens[n + 1])
<1> DEFINE S == {k \in Nat : \E p : IsRun(p, start, setting, tokens, k)}
           after == ParserAfter(start, setting, tokens)
<1>1. 0 \in S
  <2>1. IsRun([n \in 0 .. 0 |-> start], start, setting, tokens, 0)
    BY DEF IsRun
  <2>2. QED
    BY <2>1
<1>2. ASSUME NEW k \in Nat, k \in S
      PROVE  k + 1 \in S
  <2>1. PICK p : IsRun(p, start, setting, tokens, k)
    BY <1>2
  <2> DEFINE q == [n \in 0 .. k + 1 |->
                     IF n = k + 1 THEN ParseToken(p[k], setting, tokens[k + 1]) ELSE p[n]]
  <2>2. ASSUME NEW n \in 0 .. k + 1
        PROVE  q[n] = IF n = 0 THEN start ELSE ParseToken(q[n - 1], setting, tokens[n])
    <3>1. CASE n = k + 1
      BY <3>1
    <3>2. CASE n = 0
      BY <2>1, <3>2 DEF IsRun
    <3>3. CASE n # 0 /\ n # k + 1
      <4>1. n \in 0 .. k /\ n - 1 \in 0 .. k /\ n - 1 # k + 1
        BY <3>3
      <4>2. q[n] = p[n] /\ q[n - 1] = p[n - 1]
        BY <3>3, <4>1
      <4>3. p[n] = ParseToken(p[n - 1], setting, tokens[n])
        BY <2>1, <3>3, <4>1 DEF IsRun
      <4>4. QED
        BY <3>3, <4>2, <4>3
    <3>4. QED
      BY <3>1, <3>2, <3>3
  <2>3. q = [n \in 0 .. k + 1 |-> IF n = 0 THEN start ELSE ParseToken(q[n - 1], setting, tokens[n])]
    <3>1. q = [n \in 0 .. k + 1 |-> q[n]]
      OBVIOUS
    <3> HIDE DEF q
    <3>2. QED
      BY <2>2, <3>1
  <2> HIDE DEF q
  <2>4. IsRun(q, start, setting, tokens, k + 1)
    BY <2>3 DEF IsRun
  <2>5. QED
    BY <2>4
<1>3. Len(tokens) \in S
  <2> HIDE DEF S
  <2>1. QED
    BY <1>1, <1>2, SetInduction
<1>4. IsRun(after, start, setting, tokens, Len(tokens))
  BY <1>3 DEF IsRun, ParserAfter
<1> HIDE DEF after
<1>5. after[0] = start
  BY <1>4 DEF IsRun
<1>6. ASSUME NEW n \in Nat, n + 1 <= Len(tokens)
      PROVE  after[n + 1] = ParseToken(after[n], setting, tokens[n + 1])
  <2>1. n + 1 \in 0 .. Len(tokens) /\ n + 1 # 0 /\ (n + 1) - 1 = n
    BY <1>6
  <2>2. QED
    BY <1>4, <2>1 DEF IsRun
<1>7. QED
  BY <1>5, <1>6 DEF after

(***************************************************************************)
(* What the fields of the review say of the part of a text that was read:  *)
(* the first k items of a hash.                                            *)
(***************************************************************************)
TxFields ==
    {"amount", "receiver", "guardian", "relayer", "gasPrice", "gasLimit", "fee", "data",
     "data_size", "esdt_value", "chain_id", "network"}
CopiedField == {"receiver", "relayer", "gasPrice", "gasLimit", "data"}

Where(H, k, field) == {i \in 1 .. k : IsMember(H[i]) /\ H[i].field = field}
LastIs(H, k, field, v) ==
    IF Where(H, k, field) = {} THEN v = NoValue
    ELSE \E i \in Where(H, k, field) :
            H[i].value = v /\ \A j \in Where(H, k, field) : j <= i

(* No chain id that reaches a field with its overrun comes after what      *)
(* fills this field.                                                       *)
Spared(H, k, overrun, field) ==
    \A i \in Where(H, k, "chainID") :
        overrun[H[i].value] # NotReached => \E j \in Where(H, k, field) : i < j

HasAmount(v) == EsdtIdentifier[v] # << >> /\ EsdtValue[v] # NoEsdtValue

FieldsShown(ctx, H, k) ==
    /\ \A field \in CopiedField : LastIs(H, k, field, ctx[field])
    /\ Spared(H, k, GuardianOverrun, "guardian") => LastIs(H, k, "guardian", ctx.guardian)
    /\ LastIs(H, k, "chainID", ctx.chain_id)
    /\ ctx.data_size = IF ctx.data = NoValue THEN 0 ELSE DataSize[ctx.data]
    /\ \A i \in 1 .. k :
          Where(H, k, "data") = {i} /\ Spared(H, k, EsdtValueOverrun, "data") /\ HasAmount(H[i].value)
          => ctx.esdt_value = EsdtValue[H[i].value]

(* The only chain of the text comes after what the costs are made of.      *)
ChainAt(H, k, i) ==
    /\ Where(H, k, "chainID") = {i}
    /\ \A field \in {"value", "gasPrice", "gasLimit", "data"} :
          \A j \in Where(H, k, field) : j < i

(* Before the chain the amount is bare digits; with the chain it gets its  *)
(* unit, and the fee is worked out.                                        *)
CostsShown(ctx, H, k) ==
    LET digits == ctx.amount.digits
        unit == TickerOf(ctx.chain_id)
    IN  /\ Where(H, k, "chainID") = {} =>
              ctx.amount = Amount(digits) /\ LastIs(H, k, "value", digits)
        /\ \A i \in 1 .. k : ChainAt(H, k, i) =>
              /\ ctx.amount = Pretty(Amount(digits), Unit(unit, DECIMAL_PLACES))
              /\ LastIs(H, k, "value", digits)
              /\ ctx.fee = Fee(ctx.gasLimit, ctx.gasPrice, ctx.data_size, unit)

Agrees(ctx, H, k) == DOMAIN ctx = TxFields /\ FieldsShown(ctx, H, k) /\ CostsShown(ctx, H, k)

(* The fields of a cleaned context say that nothing was read               *)
(* (init_tx_context).                                                      *)
LEMMA NothingShown ==
    ASSUME NEW H
    PROVE  Agrees(NoTx, H, 0)
<1>1. \A field : Where(H, 0, field) = {}
  BY DEF Where
<1>2. DOMAIN NoTx = TxFields
  BY DEF NoTx, TxFields
<1>3. NoTx.guardian = NoValue /\ \A field \in CopiedField : NoTx[field] = NoValue
  BY DEF NoTx, CopiedField
<1>4. /\ NoTx.chain_id = NoValue /\ NoTx.data = NoValue /\ NoTx.data_size = 0
      /\ NoTx.amount = Amount(NoValue)
  BY DEF NoTx
<1>5. Amount(NoValue).digits = NoValue
  BY DEF Amount
<1> HIDE DEF NoTx
<1>6. QED
  BY <1>1, <1>2, <1>3, <1>4, <1>5 DEF Agrees, FieldsShown, CostsShown, LastIs

(* One more item adds itself to the places of its field, if it is a member.*)
LEMMA WhereGrows ==
    ASSUME NEW H, NEW k \in Nat, NEW field
    PROVE  /\ Where(H, k, field) \subseteq 1 .. k
           /\ IsMember(H[k + 1]) /\ H[k + 1].field = field =>
                 Where(H, k + 1, field) = Where(H, k, field) \cup {k + 1}
           /\ ~(IsMember(H[k + 1]) /\ H[k + 1].field = field) =>
                 Where(H, k + 1, field) = Where(H, k, field)
<1>1. 1 .. k + 1 = (1 .. k) \cup {k + 1}
  OBVIOUS
<1>2. QED
  BY <1>1 DEF Where

(* The last value of a field is that of the item just read, if it is a     *)
(* member with this field, and stays what it was otherwise.                *)
LEMMA LastGrows ==
    ASSUME NEW H, NEW k \in Nat, NEW field, NEW v
    PROVE  /\ IsMember(H[k + 1]) /\ H[k + 1].field = field /\ H[k + 1].value = v =>
                 LastIs(H, k + 1, field, v)
           /\ ~(IsMember(H[k + 1]) /\ H[k + 1].field = field) /\ LastIs(H, k, field, v) =>
                 LastIs(H, k + 1, field, v)
<1>1. CASE IsMember(H[k + 1]) /\ H[k + 1].field = field /\ H[k + 1].value = v
  <2>1. k + 1 \in Where(H, k + 1, field)
    BY <1>1 DEF Where
  <2>2. \A j \in Where(H, k + 1, field) : j <= k + 1
    BY <1>1, WhereGrows
  <2>3. QED
    BY <1>1, <2>1, <2>2 DEF LastIs
<1>2. CASE ~(IsMember(H[k + 1]) /\ H[k + 1].field = field)
  BY <1>2, WhereGrows DEF LastIs
<1>3. QED
  BY <1>1, <1>2

(* What kept a field of the longer text kept it of the shorter one, and an *)
(* item that is no member of this field, and is read last, has not reached *)
(* it (verify_chainid).                                                    *)
LEMMA SparedBefore ==
    ASSUME NEW H, NEW k \in Nat, NEW overrun, NEW field, Spared(H, k + 1, overrun, field),
           ~(IsMember(H[k + 1]) /\ H[k + 1].field = field)
    PROVE  /\ Spared(H, k, overrun, field)
           /\ IsMember(H[k + 1]) /\ H[k + 1].field = "chainID" =>
                 overrun[H[k + 1].value] = NotReached
<1>1. Where(H, k + 1, field) = Where(H, k, field) /\ Where(H, k, field) \subseteq 1 .. k
  BY WhereGrows
<1>2. Where(H, k, "chainID") \subseteq Where(H, k + 1, "chainID")
  BY DEF Where
<1>3. Spared(H, k, overrun, field)
  BY <1>1, <1>2 DEF Spared
<1>4. ASSUME IsMember(H[k + 1]), H[k + 1].field = "chainID"
      PROVE  overrun[H[k + 1].value] = NotReached
  <2>1. k + 1 \in Where(H, k + 1, "chainID")
    BY <1>4 DEF Where
  <2>2. ~ \E j \in Where(H, k + 1, field) : k + 1 < j
    BY <1>1
  <2>3. QED
    BY <2>1, <2>2 DEF Spared
<1>5. QED
  BY <1>3, <1>4

(* What each field of the context is once a member has been stored         *)
(* (process_field, verify_data, verify_chainid).                           *)
LEMMA StoredFields ==
    ASSUME NEW ctx, DOMAIN ctx = TxFields, NEW field \in FieldName, NEW v,
           NEW new, new = StoredField(ctx, field, v)
    PROVE  /\ DOMAIN new = TxFields
           /\ \A f \in CopiedField : new[f] = IF f = field THEN v ELSE ctx[f]
           /\ new.chain_id = IF field = "chainID" THEN v ELSE ctx.chain_id
           /\ new.data_size = IF field = "data" THEN DataSize[v] ELSE ctx.data_size
           /\ field = "guardian" => new.guardian = v
           /\ field # "guardian" /\ (field = "chainID" => GuardianOverrun[v] = NotReached) =>
                 new.guardian = ctx.guardian
           /\ field = "data" /\ HasAmount(v) => new.esdt_value = EsdtValue[v]
           /\ field # "data" /\ (field = "chainID" => EsdtValueOverrun[v] = NotReached) =>
                 new.esdt_value = ctx.esdt_value
           /\ field = "value" => new.amount = Amount(v)
           /\ field = "chainID" =>
                 /\ new.amount = Pretty(ctx.amount, Unit(TickerOf(v), DECIMAL_PLACES))
                 /\ new.fee = Fee(ctx.gasLimit, ctx.gasPrice, ctx.data_size, TickerOf(v))
           /\ field \notin {"value", "chainID"} => new.amount = ctx.amount
           /\ field # "chainID" => new.fee = ctx.fee
<1> USE DEF TxFields, CopiedField, HasAmount
<1>1. CASE field = "value"
  BY <1>1 DEF StoredField
<1>2. CASE field = "data"
  BY <1>2 DEF StoredField, verify_data
<1>3. CASE field = "chainID"
  BY <1>3 DEF StoredField, verify_chainid, Overrun
<1>4. CASE field \in {"receiver", "guardian", "relayer", "gasPrice", "gasLimit"}
  BY <1>4 DEF StoredField
<1>5. CASE field \in FieldName \ {"value", "data", "chainID", "receiver", "guardian", "relayer",
                                  "gasPrice", "gasLimit"}
  <2>1. new = ctx
    BY <1>5 DEF StoredField
  <2>2. QED
    BY <1>5, <2>1
<1>6. QED
  BY <1>1, <1>2, <1>3, <1>4, <1>5

(* What is no member changes nothing of what the text says.                *)
LEMMA SkippedAgrees ==
    ASSUME NEW H, NEW k \in Nat, NEW ctx, Agrees(ctx, H, k), ~IsMember(H[k + 1])
    PROVE  Agrees(ctx, H, k + 1)
<1>1. \A field : Where(H, k + 1, field) = Where(H, k, field) /\ Where(H, k, field) \subseteq 1 .. k
  BY WhereGrows
<1>2. \A field, v : LastIs(H, k, field, v) => LastIs(H, k + 1, field, v)
  BY LastGrows
<1>3. FieldsShown(ctx, H, k + 1)
  <2>1. \A i \in 1 .. k + 1 : Where(H, k + 1, "data") = {i} => i \in 1 .. k
    BY <1>1
  <2>2. \A overrun, field : Spared(H, k + 1, overrun, field) => Spared(H, k, overrun, field)
    BY SparedBefore
  <2>3. QED
    BY <1>1, <1>2, <2>1, <2>2 DEF Agrees, FieldsShown
<1>4. CostsShown(ctx, H, k + 1)
  <2>1. \A i \in 1 .. k + 1 : ChainAt(H, k + 1, i) => i \in 1 .. k /\ ChainAt(H, k, i)
    BY <1>1 DEF ChainAt
  <2>2. QED
    BY <1>1, <1>2, <2>1 DEF Agrees, CostsShown
<1>5. QED
  BY <1>3, <1>4 DEF Agrees

(* A member that is stored keeps the fields in agreement with the text:    *)
(* copies are those of the last member of their field, the fee and the     *)
(* pretty amount are worked out from what came before the chain.           *)
LEMMA StoredAgrees ==
    ASSUME NEW H, NEW k \in Nat, NEW ctx, Agrees(ctx, H, k), H[k + 1] \in TxMember
    PROVE  Agrees(StoredField(ctx, H[k + 1].field, H[k + 1].value), H, k + 1)
<1> DEFINE field == H[k + 1].field
           v == H[k + 1].value
           new == StoredField(ctx, field, v)
<1>1. IsMember(H[k + 1]) /\ field \in FieldName /\ v \in Value
  BY DEF TxMember, IsMember
<1>2. DOMAIN ctx = TxFields /\ FieldsShown(ctx, H, k) /\ CostsShown(ctx, H, k)
  BY DEF Agrees
<1>3. /\ DOMAIN new = TxFields
      /\ \A f \in CopiedField : new[f] = IF f = field THEN v ELSE ctx[f]
      /\ new.chain_id = IF field = "chainID" THEN v ELSE ctx.chain_id
      /\ new.data_size = IF field = "data" THEN DataSize[v] ELSE ctx.data_size
      /\ field = "guardian" => new.guardian = v
      /\ field # "guardian" /\ (field = "chainID" => GuardianOverrun[v] = NotReached) =>
            new.guardian = ctx.guardian
      /\ field = "data" /\ HasAmount(v) => new.esdt_value = EsdtValue[v]
      /\ field # "data" /\ (field = "chainID" => EsdtValueOverrun[v] = NotReached) =>
            new.esdt_value = ctx.esdt_value
      /\ field = "value" => new.amount = Amount(v)
      /\ field = "chainID" =>
            /\ new.amount = Pretty(ctx.amount, Unit(TickerOf(v), DECIMAL_PLACES))
            /\ new.fee = Fee(ctx.gasLimit, ctx.gasPrice, ctx.data_size, TickerOf(v))
      /\ field \notin {"value", "chainID"} => new.amount = ctx.amount
      /\ field # "chainID" => new.fee = ctx.fee
  BY <1>1, <1>2, StoredFields
<1>4. /\ \A f : Where(H, k, f) \subseteq 1 .. k
      /\ Where(H, k + 1, field) = Where(H, k, field) \cup {k + 1}
      /\ \A f : f # field => Where(H, k + 1, f) = Where(H, k, f)
  BY <1>1, WhereGrows
<1>5. /\ LastIs(H, k + 1, field, v)
      /\ \A f, w : f # field /\ LastIs(H, k, f, w) => LastIs(H, k + 1, f, w)
  BY <1>1, LastGrows
<1>6. v # NoValue
  BY <1>1, ValueAssumption
<1> HIDE DEF field, v, new
<1>7. FieldsShown(new, H, k + 1)
  <2>1. \A f \in CopiedField : LastIs(H, k + 1, f, new[f])
    BY <1>2, <1>3, <1>5 DEF FieldsShown
  <2>2. LastIs(H, k + 1, "chainID", new.chain_id)
    BY <1>2, <1>3, <1>5 DEF FieldsShown
  <2>3. new.data = IF field = "data" THEN v ELSE ctx.data
    BY <1>3 DEF CopiedField
  <2>4. new.data_size = IF new.data = NoValue THEN 0 ELSE DataSize[new.data]
    BY <1>2, <1>3, <1>6, <2>3 DEF FieldsShown
  <2>5. ASSUME Spared(H, k + 1, GuardianOverrun, "guardian")
        PROVE  LastIs(H, k + 1, "guardian", new.guardian)
    <3>1. CASE field = "guardian"
      BY <1>3, <1>5, <3>1
    <3>2. CASE field # "guardian"
      <4>1. /\ Spared(H, k, GuardianOverrun, "guardian")
            /\ field = "chainID" => GuardianOverrun[v] = NotReached
        BY <1>1, <2>5, <3>2, SparedBefore DEF field, v
      <4>2. new.guardian = ctx.guardian
        BY <1>3, <3>2, <4>1
      <4>3. QED
        BY <1>2, <1>5, <3>2, <4>1, <4>2 DEF FieldsShown
    <3>3. QED
      BY <3>1, <3>2
  <2>6. ASSUME NEW i \in 1 .. k + 1, Where(H, k + 1, "data") = {i},
               Spared(H, k + 1, EsdtValueOverrun, "data"), HasAmount(H[i].value)
        PROVE  new.esdt_value = EsdtValue[H[i].value]
    <3>1. CASE field = "data"
      <4>1. i = k + 1
        BY <1>4, <2>6, <3>1
      <4>2. H[i].value = v
        BY <4>1 DEF v
      <4>3. QED
        BY <1>3, <2>6, <3>1, <4>2
    <3>2. CASE field # "data"
      <4>1. Where(H, k, "data") = {i} /\ i \in 1 .. k
        BY <1>4, <2>6, <3>2
      <4>2. /\ Spared(H, k, EsdtValueOverrun, "data")
            /\ field = "chainID" => EsdtValueOverrun[v] = NotReached
        BY <1>1, <2>6, <3>2, SparedBefore DEF field, v
      <4>3. new.esdt_value = ctx.esdt_value
        BY <1>3, <3>2, <4>2
      <4>4. QED
        BY <1>2, <2>6, <4>1, <4>2, <4>3 DEF FieldsShown
    <3>3. QED
      BY <3>1, <3>2
  <2>7. QED
    BY <2>1, <2>2, <2>4, <2>5, <2>6 DEF FieldsShown
<1>8. CostsShown(new, H, k + 1)
  <2> DEFINE unit == TickerOf(new.chain_id)
  <2>1. ASSUME Where(H, k + 1, "chainID") = {}
        PROVE  new.amount = Amount(new.amount.digits) /\ LastIs(H, k + 1, "value", new.amount.digits)
    <3>1. field # "chainID" /\ Where(H, k, "chainID") = {}
      BY <1>4, <2>1
    <3>2. CASE field = "value"
      BY <1>3, <1>5, <3>2 DEF Amount
    <3>3. CASE field # "value"
      BY <1>2, <1>3, <1>5, <3>1, <3>3 DEF CostsShown
    <3>4. QED
      BY <3>2, <3>3
  <2>2. ASSUME NEW i \in 1 .. k + 1, ChainAt(H, k + 1, i)
        PROVE  /\ new.amount = Pretty(Amount(new.amount.digits), Unit(unit, DECIMAL_PLACES))
               /\ LastIs(H, k + 1, "value", new.amount.digits)
               /\ new.fee = Fee(new.gasLimit, new.gasPrice, new.data_size, unit)
    <3>1. CASE field = "chainID"
      <4>1. Where(H, k, "chainID") = {}
        BY <1>4, <2>2, <3>1 DEF ChainAt
      <4>2. ctx.amount = Amount(ctx.amount.digits) /\ LastIs(H, k, "value", ctx.amount.digits)
        BY <1>2, <4>1 DEF CostsShown
      <4>3. new.amount = Pretty(Amount(ctx.amount.digits), Unit(TickerOf(v), DECIMAL_PLACES))
        BY <1>3, <3>1, <4>2
      <4>4. new.amount.digits = ctx.amount.digits
        BY <4>3 DEF Pretty, Amount
      <4>5. /\ new.chain_id = v /\ new.data_size = ctx.data_size
            /\ new.gasLimit = ctx.gasLimit /\ new.gasPrice = ctx.gasPrice
        BY <1>3, <3>1 DEF CopiedField
      <4>6. QED
        BY <1>3, <1>5, <3>1, <4>2, <4>3, <4>4, <4>5
    <3>2. CASE field # "chainID"
      <4>1. i \in 1 .. k
        BY <1>4, <2>2, <3>2 DEF ChainAt
      <4>2. field \notin {"value", "gasPrice", "gasLimit", "data"}
        <5>1. ASSUME field \in {"value", "gasPrice", "gasLimit", "data"}
              PROVE  FALSE
          <6>1. k + 1 \in Where(H, k + 1, field)
            BY <1>4
          <6>2. k + 1 < i
            BY <2>2, <5>1, <6>1 DEF ChainAt
          <6>3. QED
            BY <4>1, <6>2
        <5>2. QED
          BY <5>1
      <4>3. ChainAt(H, k, i)
        BY <1>4, <2>2, <3>2, <4>2 DEF ChainAt
      <4>4. /\ new.chain_id = ctx.chain_id /\ new.data_size = ctx.data_size
            /\ new.gasLimit = ctx.gasLimit /\ new.gasPrice = ctx.gasPrice
            /\ new.amount = ctx.amount /\ new.fee = ctx.fee
        BY <1>3, <3>2, <4>2 DEF CopiedField
      <4>5. QED
        BY <1>2, <1>5, <4>1, <4>2, <4>3, <4>4 DEF CostsShown
    <3>3. QED
      BY <3>1, <3>2
  <2>3. QED
    BY <2>1, <2>2 DEF CostsShown
<1>9. QED
  BY <1>3, <1>7, <1>8 DEF Agrees, field, v, new

(***************************************************************************)
(* The parser after k items of a hash: it has failed, or its fields agree  *)
(* with the text, to its end or as far as it was read.                     *)
(***************************************************************************)
NoEnd(H, k) == \A i \in 1 .. k : H[i] # Close
EndsAt(H, m) == H[m] = Close /\ NoEnd(H, m - 1)

AtStart(p, H, k) == p.status = "JSON_IDLE" /\ p.done = FALSE /\ k = 0 /\ Agrees(p.ctx, H, k)
AtEnd(p, H, k) ==
    /\ p.status = "JSON_IDLE" /\ p.done = TRUE
    /\ \E m \in 1 .. k : EndsAt(H, m) /\ Agrees(p.ctx, H, m)
Within(p, H, k) ==
    /\ p.status \in ParserStatus \ {"JSON_IDLE"} /\ p.done = FALSE
    /\ NoEnd(H, k) /\ Agrees(p.ctx, H, k)
Reading(p, H, k) ==
    /\ DOMAIN p = {"status", "ctx", "ret", "done"}
    /\ \/ p.ret # "MSG_OK" /\ p.done = TRUE
       \/ p.ret = "MSG_OK" /\ (AtStart(p, H, k) \/ AtEnd(p, H, k) \/ Within(p, H, k))

(* Every token keeps the parser in agreement with the text (parse_data).   *)
LEMMA TokenAgrees ==
    ASSUME NEW H, NEW k \in Nat, NEW p, NEW setting, Reading(p, H, k), H[k + 1] \in TxToken
    PROVE  Reading(ParseToken(p, setting, H[k + 1]), H, k + 1)
<1> DEFINE token == H[k + 1]
           next == ParseToken(p, setting, token)
           Shape == {"status", "ctx", "ret", "done"}
<1> SUFFICES Reading(next, H, k + 1)
  OBVIOUS
<1>1. DOMAIN p = Shape
  BY DEF Reading
<1>2. IsMember(token) => token \in TxMember
  <2>1. \A item \in Punctuation : ~IsMember(item)
    BY DEF Punctuation, IsMember
  <2>2. QED
    BY <2>1 DEF TxToken
<1>3. ~IsMember(Open) /\ ~IsMember(Comma) /\ ~IsMember(Close) /\ Open # Close /\ Comma # Close
  BY DEF IsMember, Open, Comma, Close
<1>4. IsMember(token) => token # Close
  BY <1>3
<1>5. ASSUME NEW err, err # "MSG_OK"
      PROVE  Reading(Failed(p, err), H, k + 1)
  BY <1>1, <1>5 DEF Failed, Reading
<1>6. ASSUME NoEnd(H, k), token # Close
      PROVE  NoEnd(H, k + 1)
  BY <1>6 DEF NoEnd
<1>7. CASE p.done = TRUE
  <2>1. next = p
    BY <1>7 DEF ParseToken
  <2>2. ASSUME AtEnd(p, H, k)
        PROVE  AtEnd(p, H, k + 1)
    BY <2>2 DEF AtEnd
  <2>3. QED
    BY <1>7, <2>1, <2>2 DEF Reading, AtStart, Within
<1>8. CASE p.done = FALSE /\ AtStart(p, H, k) /\ token = Open
  <2>1. next = [p EXCEPT !.status = "JSON_EXPECTING_FIELD"]
    BY <1>8 DEF ParseToken, AtStart
  <2>2. /\ next.status = "JSON_EXPECTING_FIELD" /\ next.ctx = p.ctx /\ next.ret = p.ret
        /\ next.done = p.done /\ DOMAIN next = Shape
    BY <1>1, <2>1
  <2>3. Agrees(p.ctx, H, k + 1) /\ NoEnd(H, k + 1)
    BY <1>3, <1>6, <1>8, SkippedAgrees DEF AtStart, NoEnd
  <2> HIDE DEF next
  <2>4. p.ret = "MSG_OK"
    BY <1>8 DEF Reading
  <2>5. QED
    BY <1>8, <2>2, <2>3, <2>4 DEF Reading, Within, ParserStatus
<1>9. CASE Within(p, H, k) /\ p.status = "JSON_EXPECTING_FIELD" /\ IsMember(token)
  <2> DEFINE err == process_field(p.ctx, setting, token.field, token.value)
             stored == StoredField(p.ctx, token.field, token.value)
  <2>1. next = IF err # "MSG_OK" THEN Failed(p, err)
               ELSE [p EXCEPT !.status = "JSON_EXPECTING_COMMA", !.ctx = stored]
    BY <1>1, <1>9 DEF ParseToken, ParseMember, Within
  <2>2. CASE err # "MSG_OK"
    <3>1. next = Failed(p, err)
      BY <2>1, <2>2
    <3> HIDE DEF next, err
    <3>2. QED
      BY <1>5, <2>2, <3>1
  <2>3. CASE err = "MSG_OK"
    <3>1. next = [p EXCEPT !.status = "JSON_EXPECTING_COMMA", !.ctx = stored]
      BY <2>1, <2>3
    <3> HIDE DEF next, stored
    <3>2. /\ next.status = "JSON_EXPECTING_COMMA" /\ next.ctx = stored /\ next.ret = p.ret
          /\ next.done = p.done /\ DOMAIN next = Shape
      BY <1>1, <3>1
    <3>3. Agrees(stored, H, k + 1) /\ NoEnd(H, k + 1)
      BY <1>2, <1>4, <1>6, <1>9, StoredAgrees DEF Within, stored
    <3>4. p.ret = "MSG_OK" /\ p.done = FALSE
      BY <1>9 DEF Reading, Within
    <3>5. QED
      BY <3>2, <3>3, <3>4 DEF Reading, Within, ParserStatus
  <2>4. QED
    BY <2>2, <2>3
<1>10. CASE Within(p, H, k) /\ p.status = "JSON_EXPECTING_COMMA" /\ token = Comma
  <2>1. next = [p EXCEPT !.status = "JSON_EXPECTING_FIELD"]
    BY <1>3, <1>10 DEF ParseToken, Within
  <2> HIDE DEF next
  <2>2. /\ next.status = "JSON_EXPECTING_FIELD" /\ next.ctx = p.ctx /\ next.ret = p.ret
        /\ next.done = p.done /\ DOMAIN next = Shape
    BY <1>1, <2>1
  <2>3. Agrees(p.ctx, H, k + 1) /\ NoEnd(H, k + 1)
    BY <1>3, <1>6, <1>10, SkippedAgrees DEF Within
  <2>4. p.ret = "MSG_OK" /\ p.done = FALSE
    BY <1>10 DEF Reading, Within
  <2>5. QED
    BY <2>2, <2>3, <2>4 DEF Reading, Within, ParserStatus
<1>11. CASE Within(p, H, k) /\ p.status = "JSON_EXPECTING_COMMA" /\ token = Close
  <2>1. next = [p EXCEPT !.status = "JSON_IDLE", !.done = TRUE]
    BY <1>3, <1>11 DEF ParseToken, Within
  <2> HIDE DEF next
  <2>2. /\ next.status = "JSON_IDLE" /\ next.ctx = p.ctx /\ next.ret = p.ret
        /\ next.done = TRUE /\ DOMAIN next = Shape
    BY <1>1, <2>1
  <2>3. Agrees(p.ctx, H, k + 1)
    BY <1>3, <1>11, SkippedAgrees DEF Within
  <2>4. EndsAt(H, k + 1) /\ k + 1 \in 1 .. k + 1
    BY <1>11 DEF Within, EndsAt
  <2>5. p.ret = "MSG_OK"
    BY <1>11 DEF Reading, Within
  <2>6. QED
    BY <2>2, <2>3, <2>4, <2>5 DEF Reading, AtEnd
<1>12. CASE next = Failed(p, "ERR_INVALID_MESSAGE")
  <2> HIDE DEF next
  <2>1. QED
    BY <1>5, <1>12
<1>13. QED
  <2>1. CASE p.done = FALSE /\ AtStart(p, H, k) /\ token # Open
    BY <1>12, <2>1 DEF ParseToken, AtStart
  <2>2. CASE Within(p, H, k) /\ p.status = "JSON_EXPECTING_FIELD" /\ ~IsMember(token)
    BY <1>12, <2>2 DEF ParseToken, Within
  <2>3. CASE Within(p, H, k) /\ p.status = "JSON_EXPECTING_COMMA" /\ token # Comma /\ token # Close
    BY <1>12, <2>3 DEF ParseToken, Within
  <2> HIDE DEF next, token
  <2>4. QED
    BY <1>7, <1>8, <1>9, <1>10, <1>11, <2>1, <2>2, <2>3
       DEF Reading, AtStart, AtEnd, Within, ParserStatus

(***************************************************************************)
(* The parser over a chunk.                                                *)
(***************************************************************************)
(* A hash that absorbs a chunk is the hash before, then the chunk.         *)
Joined(h, tokens, H) ==
    /\ H \in Digest /\ Len(h) \in Nat /\ Len(tokens) \in Nat
    /\ Len(H) = Len(h) + Len(tokens)
    /\ \A i \in 1 .. Len(h) : H[i] = h[i]
    /\ \A n \in 1 .. Len(tokens) : H[Len(h) + n] = tokens[n] /\ tokens[n] \in TxToken

(* The pieces of the hash are those before and those of the chunk.         *)
LEMMA Pieces ==
    ASSUME NEW h \in Digest, NEW tokens \in Seq(TxToken), NEW H, H = h \o tokens
    PROVE  Joined(h, tokens, H)
<1>1. tokens \in Seq(Absorbed)
  BY SeqMonotonic DEF Absorbed
<1>2. Len(h) \in Nat /\ Len(tokens) \in Nat
  BY LenProperties DEF Digest
<1>3. H \in Seq(Absorbed) /\ Len(H) = Len(h) + Len(tokens)
  BY <1>1, ConcatProperties DEF Digest
<1>4. ASSUME NEW i \in 1 .. Len(h)
      PROVE  H[i] = h[i]
  <2>1. i \in 1 .. Len(h) + Len(tokens) /\ i <= Len(h)
    BY <1>2
  <2>2. QED
    BY <1>1, <2>1, ConcatProperties DEF Digest
<1>5. ASSUME NEW n \in 1 .. Len(tokens)
      PROVE  H[Len(h) + n] = tokens[n] /\ tokens[n] \in TxToken
  <2>1. Len(h) + n \in 1 .. Len(h) + Len(tokens) /\ ~(Len(h) + n <= Len(h)) /\ (Len(h) + n) - Len(h) = n
    BY <1>2
  <2>2. H[Len(h) + n] = tokens[n]
    BY <1>1, <2>1, ConcatProperties DEF Digest
  <2>3. QED
    BY <2>2, ElementOfSeq
<1>6. QED
  BY <1>2, <1>3, <1>4, <1>5 DEF Digest, Joined

(* What the fields say of a text depends only on the part that was read.   *)
LEMMA AgreesBefore ==
    ASSUME NEW G, NEW H, NEW k \in Nat, NEW ctx, \A i \in 1 .. k : H[i] = G[i], Agrees(ctx, G, k)
    PROVE  Agrees(ctx, H, k)
<1>1. \A field : Where(H, k, field) = Where(G, k, field)
  BY DEF Where
<1>2. \A field : Where(G, k, field) \subseteq 1 .. k
  BY DEF Where
<1>3. \A field, v : LastIs(G, k, field, v) => LastIs(H, k, field, v)
  BY <1>1, <1>2 DEF LastIs
<1>4. \A i : ChainAt(H, k, i) => ChainAt(G, k, i)
  BY <1>1 DEF ChainAt
<1>5. FieldsShown(ctx, H, k)
  <2>1. \A overrun, field : Spared(H, k, overrun, field) => Spared(G, k, overrun, field)
    BY <1>1, <1>2 DEF Spared
  <2>2. \A i : Where(H, k, "data") = {i} => i \in 1 .. k /\ H[i] = G[i]
    BY <1>1, <1>2
  <2>3. QED
    BY <1>1, <1>3, <2>1, <2>2 DEF Agrees, FieldsShown
<1>6. CostsShown(ctx, H, k)
  BY <1>1, <1>3, <1>4 DEF Agrees, CostsShown
<1>7. QED
  BY <1>5, <1>6 DEF Agrees

(* The session is at the start of a text, or within one.                   *)
Resumes(status, ctx, h) ==
    \/ status = "JSON_IDLE" /\ h = << >> /\ Agrees(ctx, h, 0)
    \/ status \in ParserStatus \ {"JSON_IDLE"} /\ NoEnd(h, Len(h)) /\ Agrees(ctx, h, Len(h))

(* A chunk leaves the fields in agreement with all that was hashed, up to  *)
(* the end of the text (parse_data).                                       *)
LEMMA ChunkAgrees ==
    ASSUME NEW h \in Digest, NEW tokens \in Seq(TxToken), NEW status, NEW ctx, NEW setting,
           Resumes(status, ctx, h), NEW H, H = h \o tokens
    PROVE  Reading(parse_data(status, ctx, setting, tokens), H, Len(H))
<1> DEFINE start == StartOfChunk(status, ctx)
           after == ParserAfter(start, setting, tokens)
           S == {n \in Nat : n <= Len(tokens) => Reading(after[n], H, Len(h) + n)}
<1>1. /\ Len(h) \in Nat /\ Len(tokens) \in Nat /\ Len(H) = Len(h) + Len(tokens)
      /\ \A i \in 1 .. Len(h) : H[i] = h[i]
      /\ \A n \in 1 .. Len(tokens) : H[Len(h) + n] = tokens[n] /\ tokens[n] \in TxToken
  <2>1. Joined(h, tokens, H)
    BY Pieces
  <2>2. QED
    BY <2>1 DEF Joined
<1>2. Reading(start, H, Len(h))
  <2>1. /\ DOMAIN start = {"status", "ctx", "ret", "done"} /\ start.status = status
        /\ start.ctx = ctx /\ start.ret = "MSG_OK" /\ start.done = FALSE
    BY DEF StartOfChunk
  <2> HIDE DEF start
  <2>2. CASE status = "JSON_IDLE" /\ h = << >> /\ Agrees(ctx, h, 0)
    <3>1. Len(h) = 0
      BY <2>2
    <3>2. Agrees(ctx, H, 0)
      BY <2>2, AgreesBefore
    <3>3. QED
      BY <2>1, <2>2, <3>1, <3>2 DEF Reading, AtStart
  <2>3. CASE /\ status \in ParserStatus \ {"JSON_IDLE"} /\ NoEnd(h, Len(h))
             /\ Agrees(ctx, h, Len(h))
    <3>1. Agrees(ctx, H, Len(h)) /\ NoEnd(H, Len(h))
      BY <1>1, <2>3, AgreesBefore DEF NoEnd
    <3>2. QED
      BY <2>1, <2>3, <3>1 DEF Reading, Within
  <2>4. QED
    BY <2>2, <2>3 DEF Resumes
<1>3. /\ after[0] = start
      /\ \A n \in Nat : n + 1 <= Len(tokens) =>
            after[n + 1] = ParseToken(after[n], setting, tokens[n + 1])
  <2> HIDE DEF start, S
  <2>1. Len(tokens) \in Nat
    BY <1>1
  <2>2. QED
    BY <2>1, ParserSteps DEF after
<1> HIDE DEF after, start
<1>4. 0 \in S
  BY <1>1, <1>2, <1>3
<1>5. ASSUME NEW n \in Nat, n \in S
      PROVE  n + 1 \in S
  <2>1. ASSUME n + 1 <= Len(tokens)
        PROVE  Reading(after[n + 1], H, Len(h) + (n + 1))
    <3>1. Reading(after[n], H, Len(h) + n)
      BY <1>1, <1>5, <2>1
    <3>2. n + 1 \in 1 .. Len(tokens) /\ Len(h) + n \in Nat /\ (Len(h) + n) + 1 = Len(h) + (n + 1)
      BY <1>1, <2>1
    <3>3. H[(Len(h) + n) + 1] = tokens[n + 1] /\ tokens[n + 1] \in TxToken
      BY <1>1, <3>2
    <3>4. Reading(ParseToken(after[n], setting, tokens[n + 1]), H, (Len(h) + n) + 1)
      BY <3>1, <3>2, <3>3, TokenAgrees
    <3>5. QED
      BY <1>3, <2>1, <3>2, <3>4
  <2>2. QED
    BY <2>1
<1>6. Len(tokens) \in S
  <2> HIDE DEF S
  <2>1. QED
    BY <1>1, <1>4, <1>5, SetInduction
<1>7. Reading(after[Len(tokens)], H, Len(H))
  BY <1>1, <1>6
<1>8. CASE tokens = << >> /\ status = "JSON_IDLE"
  BY <1>8 DEF parse_data, Failed, Reading, StartOfChunk
<1>9. CASE ~(tokens = << >> /\ status = "JSON_IDLE")
  BY <1>7, <1>9 DEF parse_data, after, start
<1>10. QED
  BY <1>8, <1>9

(* Between texts a chunk that is accepted begins with a brace (parse_data).*)
LEMMA TextIsOpened ==
    ASSUME NEW tokens \in Seq(TxToken), NEW ctx, NEW setting,
           parse_data("JSON_IDLE", ctx, setting, tokens).ret = "MSG_OK"
    PROVE  Len(tokens) >= 1 /\ tokens[1] = Open
<1> DEFINE start == StartOfChunk("JSON_IDLE", ctx)
           after == ParserAfter(start, setting, tokens)
           Refused(p) == DOMAIN p = {"status", "ctx", "ret", "done"} /\ p.ret # "MSG_OK" /\ p.done = TRUE
           S == {n \in Nat : n + 1 <= Len(tokens) => Refused(after[n + 1])}
<1>1. Len(tokens) \in Nat
  BY LenProperties
<1>2. /\ after[0] = start
      /\ \A n \in Nat : n + 1 <= Len(tokens) =>
            after[n + 1] = ParseToken(after[n], setting, tokens[n + 1])
  <2> HIDE DEF start, S
  <2>1. Len(tokens) \in Nat
    BY <1>1
  <2>2. QED
    BY <2>1, ParserSteps DEF after
<1>3. tokens # << >>
  BY DEF parse_data, Failed, StartOfChunk
<1>4. Len(tokens) >= 1
  BY <1>1, <1>3, EmptySeq
<1>5. after[Len(tokens)].ret = "MSG_OK"
  BY <1>3 DEF parse_data
<1> HIDE DEF after
<1>6. ASSUME tokens[1] # Open
      PROVE  FALSE
  <2>1. 0 \in S
    <3>1. after[0 + 1] = ParseToken(start, setting, tokens[0 + 1])
      BY <1>2, <1>4
    <3>2. Refused(ParseToken(start, setting, tokens[1]))
      BY <1>6 DEF ParseToken, StartOfChunk, Failed
    <3>3. QED
      BY <3>1, <3>2
  <2>2. ASSUME NEW n \in Nat, n \in S
        PROVE  n + 1 \in S
    <3>1. ASSUME (n + 1) + 1 <= Len(tokens)
          PROVE  Refused(after[(n + 1) + 1])
      <4>1. Refused(after[n + 1])
        BY <1>1, <2>2, <3>1
      <4>2. after[(n + 1) + 1] = ParseToken(after[n + 1], setting, tokens[(n + 1) + 1])
        BY <1>2, <3>1
      <4>3. QED
        BY <4>1, <4>2 DEF ParseToken
    <3> HIDE DEF Refused
    <3>2. QED
      BY <3>1
  <2>3. Len(tokens) - 1 \in S
    <3> HIDE DEF S
    <3>1. QED
      BY <1>1, <1>4, <2>1, <2>2, SetInduction
  <2>4. Refused(after[Len(tokens)])
    <3>1. Len(tokens) - 1 \in Nat /\ (Len(tokens) - 1) + 1 = Len(tokens)
      BY <1>1, <1>4
    <3>2. QED
      BY <2>3, <3>1
  <2>5. QED
    BY <1>5, <2>4
<1>7. QED
  BY <1>4, <1>6

(* The amount of a transfer takes the place of the amount of the           *)
(* transaction, and depends on nothing it replaces (parse_esdt_data).      *)
LEMMA TransferFields ==
    ASSUME NEW ctx, DOMAIN ctx = TxFields, NEW new, new = parse_esdt_data(ctx).ctx
    PROVE  /\ DOMAIN new = TxFields
           /\ \A field \in TxFields \ {"amount"} : new[field] = ctx[field]
           /\ new.amount = parse_esdt_data(new).ctx.amount
<1> DEFINE digits == ctx.esdt_value
<1>1. "amount" \in TxFields /\ "esdt_value" \in TxFields
  BY DEF TxFields
<1>2. \/ digits = NoEsdtValue
      \/ digits # NoEsdtValue /\ digits = EsdtValueTooHigh
      \/ digits \notin {NoEsdtValue, EsdtValueTooHigh} /\ digits \in NotHex
      \/ digits \notin NotHex \cup {NoEsdtValue, EsdtValueTooHigh}
  OBVIOUS
<1> DEFINE Puts(amount) ==
        \A c : DOMAIN c = TxFields /\ c.esdt_value = digits =>
                 parse_esdt_data(c).ctx = [c EXCEPT !.amount = amount]
<1>3. ASSUME NEW amount, Puts(amount)
      PROVE  /\ DOMAIN new = TxFields
             /\ \A field \in TxFields \ {"amount"} : new[field] = ctx[field]
             /\ new.amount = parse_esdt_data(new).ctx.amount
  <2>1. new = [ctx EXCEPT !.amount = amount]
    BY <1>3
  <2>2. /\ DOMAIN new = TxFields /\ new.amount = amount /\ new.esdt_value = digits
        /\ \A field \in TxFields \ {"amount"} : new[field] = ctx[field]
    BY <1>1, <2>1
  <2>3. parse_esdt_data(new).ctx = [new EXCEPT !.amount = amount]
    BY <1>3, <2>2
  <2>4. QED
    BY <1>1, <2>2, <2>3
<1>4. NoEsdtValue # EsdtValueTooHigh
  BY DEF NoEsdtValue, EsdtValueTooHigh
<1>5. CASE digits = NoEsdtValue
  <2> DEFINE shown == Amount("N/A")
  <2>1. ASSUME NEW c, c.esdt_value = digits
        PROVE  parse_esdt_data(c).ctx = [c EXCEPT !.amount = shown]
    <3>1. parse_esdt_data(c) = [ret |-> "MSG_OK", ctx |-> [c EXCEPT !.amount = shown]]
      BY <1>4, <1>5, <2>1 DEF parse_esdt_data
    <3> HIDE DEF shown
    <3>2. QED
      BY <3>1
  <2> HIDE DEF shown
  <2>2. Puts(shown)
    BY <2>1
  <2> HIDE DEF Puts
  <2>3. QED
    BY <1>3, <2>2
<1>6. CASE digits # NoEsdtValue /\ digits = EsdtValueTooHigh
  <2> DEFINE shown == Amount("<value too big to display>")
  <2>1. ASSUME NEW c, c.esdt_value = digits
        PROVE  parse_esdt_data(c).ctx = [c EXCEPT !.amount = shown]
    <3>1. parse_esdt_data(c) = [ret |-> "MSG_OK", ctx |-> [c EXCEPT !.amount = shown]]
      BY <1>4, <1>6, <2>1 DEF parse_esdt_data
    <3> HIDE DEF shown
    <3>2. QED
      BY <3>1
  <2> HIDE DEF shown
  <2>2. Puts(shown)
    BY <2>1
  <2> HIDE DEF Puts
  <2>3. QED
    BY <1>3, <2>2
<1>7. CASE digits \notin {NoEsdtValue, EsdtValueTooHigh} /\ digits \in NotHex
  <2> DEFINE shown == Amount("<value cannot be parsed to hex>")
  <2>1. ASSUME NEW c, c.esdt_value = digits
        PROVE  parse_esdt_data(c).ctx = [c EXCEPT !.amount = shown]
    <3>1. parse_esdt_data(c) = [ret |-> "MSG_OK", ctx |-> [c EXCEPT !.amount = shown]]
      BY <1>4, <1>7, <2>1 DEF parse_esdt_data
    <3> HIDE DEF shown
    <3>2. QED
      BY <3>1
  <2> HIDE DEF shown
  <2>2. Puts(shown)
    BY <2>1
  <2> HIDE DEF Puts
  <2>3. QED
    BY <1>3, <2>2
<1>8. CASE digits \notin NotHex \cup {NoEsdtValue, EsdtValueTooHigh}
  <2> DEFINE unit == Unit(esdt_info.ticker, esdt_info.decimals)
  <2>1. CASE Printable(digits, esdt_info.decimals)
    <3>1. ASSUME NEW c, DOMAIN c = TxFields, c.esdt_value = digits
          PROVE  parse_esdt_data(c).ctx = [c EXCEPT !.amount = Pretty(Amount(digits), unit)]
      <4> DEFINE raw == [c EXCEPT !.amount = Amount(digits)]
      <4>1. parse_esdt_data(c).ctx = [raw EXCEPT !.amount = Pretty(@, unit)]
        BY <1>8, <2>1, <3>1 DEF parse_esdt_data
      <4>2. [raw EXCEPT !.amount = Pretty(@, unit)] = [c EXCEPT !.amount = Pretty(Amount(digits), unit)]
        BY <1>1, <3>1
      <4>3. QED
        BY <4>1, <4>2
    <3>2. Puts(Pretty(Amount(digits), unit))
      BY <3>1
    <3> HIDE DEF Puts
    <3>3. QED
      BY <1>3, <3>2
  <2>2. CASE ~Printable(digits, esdt_info.decimals)
    <3>1. Puts(Amount(digits))
      BY <1>8, <2>2 DEF parse_esdt_data
    <3>2. QED
      BY <1>3, <3>1
  <2>3. QED
    BY <2>1, <2>2
<1>9. QED
  BY <1>2, <1>5, <1>6, <1>7, <1>8

(* Parsing keeps the shape of the context, and takes data into it only     *)
(* while contract data is enabled (parse_data, verify_data).               *)
LEMMA DataIsAllowed ==
    ASSUME NEW tokens \in Seq(TxToken), NEW status, NEW ctx, NEW setting \in BOOLEAN,
           DOMAIN ctx = TxFields, NEW p, p = parse_data(status, ctx, setting, tokens)
    PROVE  DOMAIN p.ctx = TxFields /\ (p.ctx.data = ctx.data \/ setting)
<1> DEFINE start == StartOfChunk(status, ctx)
           after == ParserAfter(start, setting, tokens)
           Shape == {"status", "ctx", "ret", "done"}
           Kept(q) == DOMAIN q = Shape /\ DOMAIN q.ctx = TxFields /\ (q.ctx.data = ctx.data \/ setting)
           S == {n \in Nat : n <= Len(tokens) => Kept(after[n])}
<1>1. Len(tokens) \in Nat /\ \A n \in 1 .. Len(tokens) : tokens[n] \in TxToken
  BY LenProperties, ElementOfSeq
<1>2. /\ after[0] = start
      /\ \A n \in Nat : n + 1 <= Len(tokens) =>
            after[n + 1] = ParseToken(after[n], setting, tokens[n + 1])
  <2> HIDE DEF start, S
  <2>1. Len(tokens) \in Nat
    BY <1>1
  <2>2. QED
    BY <2>1, ParserSteps DEF after
<1>3. Kept(start) /\ \A err : Kept(Failed(start, err))
  BY DEF StartOfChunk, Failed
<1> HIDE DEF after, start
<1>4. ASSUME NEW q, Kept(q), NEW token \in TxToken
      PROVE  Kept(ParseToken(q, setting, token))
  <2>1. ASSUME NEW new, DOMAIN new = Shape, new.ctx = q.ctx
        PROVE  Kept(new)
    BY <1>4, <2>1
  <2>2. ASSUME NEW err
        PROVE  Kept(Failed(q, err))
    BY <1>4 DEF Failed
  <2>3. CASE ParseToken(q, setting, token) = ParseMember(q, setting, token) /\ IsMember(token)
    <3> DEFINE stored == StoredField(q.ctx, token.field, token.value)
    <3>1. token.field \in FieldName
      <4>1. \A item \in Punctuation : ~IsMember(item)
        BY DEF Punctuation, IsMember
      <4>2. QED
        BY <2>3, <4>1 DEF TxToken, TxMember
    <3>2. /\ DOMAIN stored = TxFields
          /\ stored.data = IF token.field = "data" THEN token.value ELSE q.ctx.data
      BY <1>4, <3>1, StoredFields DEF CopiedField
    <3> HIDE DEF stored
    <3>3. CASE process_field(q.ctx, setting, token.field, token.value) # "MSG_OK"
      BY <2>2, <2>3, <3>3 DEF ParseMember
    <3>4. CASE process_field(q.ctx, setting, token.field, token.value) = "MSG_OK"
      <4>1. token.field = "data" => setting
        BY <3>4 DEF process_field, DataDisabled
      <4>2. ParseToken(q, setting, token) =
              [q EXCEPT !.status = "JSON_EXPECTING_COMMA", !.ctx = stored]
        BY <2>3, <3>4 DEF ParseMember, stored
      <4>3. QED
        BY <1>4, <3>2, <4>1, <4>2
    <3>5. QED
      BY <3>3, <3>4
  <2>4. CASE \/ ParseToken(q, setting, token) = q
             \/ ParseToken(q, setting, token) = Failed(q, "ERR_INVALID_MESSAGE")
    <3> HIDE DEF Kept
    <3>1. QED
      BY <1>4, <2>2, <2>4
  <2>5. CASE \/ ParseToken(q, setting, token) = [q EXCEPT !.status = "JSON_EXPECTING_FIELD"]
             \/ ParseToken(q, setting, token) = [q EXCEPT !.status = "JSON_IDLE", !.done = TRUE]
    BY <1>4, <2>1, <2>5
  <2> HIDE DEF Kept
  <2>6. QED
    BY <2>3, <2>4, <2>5 DEF ParseToken
<1> HIDE DEF Kept
<1>5. 0 \in S
  BY <1>2, <1>3
<1>6. ASSUME NEW n \in Nat, n \in S
      PROVE  n + 1 \in S
  <2>1. ASSUME n + 1 <= Len(tokens)
        PROVE  Kept(after[n + 1])
    BY <1>1, <1>2, <1>4, <1>6, <2>1
  <2>2. QED
    BY <2>1
<1>7. Kept(after[Len(tokens)])
  <2>1. Len(tokens) \in S
    <3> HIDE DEF S
    <3>1. QED
      BY <1>1, <1>5, <1>6, SetInduction
  <2>2. QED
    BY <1>1, <2>1
<1>8. Kept(p)
  BY <1>3, <1>7 DEF parse_data, after, start
<1>9. QED
  BY <1>8 DEF Kept

(***************************************************************************)
(* The session and the review.  A text that is begun while another was not *)
(* finished leaves two opening braces in the hash, and nothing is claimed  *)
(* of what is shown then.                                                  *)
(***************************************************************************)
Opened(H) == \E i \in DOMAIN H : H[i] = Open
TwoTexts(H) == \E i, j \in DOMAIN H : i # j /\ H[i] = Open /\ H[j] = Open

(* Between two chunks of a transaction the fields agree with all of the    *)
(* hash, unless the parser is between texts: it then starts another.       *)
SessionAgrees ==
    app_state = "SIGNING_TX" =>
        /\ Opened(sha3_context)
        /\ tx_hash_context.status # "JSON_IDLE" =>
              \/ TwoTexts(sha3_context)
              \/ /\ NoEnd(sha3_context, Len(sha3_context))
                 /\ Agrees(tx_context, sha3_context, Len(sha3_context))

(* Under review they agree with the text that was signed, up to its end,   *)
(* a transfer with the amount of the token in place of the amount.         *)
PlainReviewAgrees ==
    LET H == tx_signature.hash
    IN  TwoTexts(H) \/ \E m \in 1 .. Len(H) : EndsAt(H, m) /\ Agrees(tx_context, H, m)
TransferReviewAgrees ==
    LET H == tx_signature.hash
    IN  /\ is_esdt_transfer(tx_context)
        /\ tx_context.amount = parse_esdt_data(tx_context).ctx.amount
        /\ TwoTexts(H) \/ \E m \in 1 .. Len(H) : EndsAt(H, m) /\ FieldsShown(tx_context, H, m)
ReviewAgrees ==
    (ux = "sign_tx" => PlainReviewAgrees) /\ (ux = "esdt" => TransferReviewAgrees)

TransactionInv == DOMAIN tx_context = TxFields /\ SessionAgrees /\ ReviewAgrees

(* A hash keeps what it has absorbed, its braces among the rest.           *)
LEMMA BracesStay ==
    ASSUME NEW h \in Digest, NEW tokens \in Seq(TxToken), NEW H, H = h \o tokens
    PROVE  /\ Opened(h) => Opened(H)
           /\ TwoTexts(h) => TwoTexts(H)
           /\ Len(tokens) >= 1 /\ tokens[1] = Open =>
                 Opened(H) /\ (Opened(h) => TwoTexts(H))
           /\ Opened(H) => Opened(Append(H, CxLast))
<1>1. /\ H \in Digest /\ Len(h) \in Nat /\ Len(tokens) \in Nat
      /\ Len(H) = Len(h) + Len(tokens)
      /\ \A i \in 1 .. Len(h) : H[i] = h[i]
      /\ \A n \in 1 .. Len(tokens) : H[Len(h) + n] = tokens[n]
  <2>1. Joined(h, tokens, H)
    BY Pieces
  <2>2. QED
    BY <2>1 DEF Joined
<1>2. DOMAIN h = 1 .. Len(h) /\ DOMAIN H = 1 .. Len(H)
  BY <1>1, LenProperties DEF Digest
<1>3. DOMAIN h \subseteq DOMAIN H /\ \A i \in DOMAIN h : H[i] = h[i]
  BY <1>1, <1>2
<1>4. ASSUME Len(tokens) >= 1, tokens[1] = Open
      PROVE  Opened(H) /\ (Opened(h) => TwoTexts(H))
  <2>1. Len(h) + 1 \in DOMAIN H /\ H[Len(h) + 1] = Open /\ Len(h) + 1 \notin DOMAIN h
    BY <1>1, <1>2, <1>4
  <2>2. Opened(H)
    BY <2>1 DEF Opened
  <2>3. ASSUME Opened(h)
        PROVE  TwoTexts(H)
    <3>1. PICK i \in DOMAIN h : h[i] = Open
      BY <2>3 DEF Opened
    <3>2. i \in DOMAIN H /\ H[i] = Open /\ i # Len(h) + 1
      BY <1>3, <2>1, <3>1
    <3>3. QED
      BY <2>1, <3>2 DEF TwoTexts
  <2>4. QED
    BY <2>2, <2>3
<1>5. ASSUME Opened(H)
      PROVE  Opened(Append(H, CxLast))
  <2>1. PICK i \in 1 .. Len(H) : H[i] = Open
    BY <1>2, <1>5 DEF Opened
  <2>2. CxLast \in Absorbed
    BY DEF Absorbed
  <2>3. Append(H, CxLast)[i] = Open /\ i \in 1 .. Len(H) + 1
    BY <1>1, <2>1, <2>2, AppendProperties DEF Digest
  <2>4. DOMAIN Append(H, CxLast) = 1 .. Len(H) + 1
    BY <1>1, <2>2, AppendProperties DEF Digest
  <2>5. QED
    BY <2>3, <2>4 DEF Opened
<1>6. QED
  BY <1>3, <1>4, <1>5 DEF Opened, TwoTexts

(* What a chunk finds: the start of a session, a text it continues, or a   *)
(* hash that is over a text already.                                       *)
Found(status, ctx, h) ==
    /\ DOMAIN ctx = TxFields
    /\ \/ Resumes(status, ctx, h) /\ (status = "JSON_IDLE" \/ Opened(h))
       \/ TwoTexts(h)
       \/ status = "JSON_IDLE" /\ Opened(h)

(* An accepted chunk leaves a hash that is over a text, and the fields in  *)
(* agreement with it unless it is over two.                                *)
LEMMA ChunkFound ==
    ASSUME NEW h \in Digest, NEW tokens \in Seq(TxToken), NEW status, NEW ctx, NEW setting,
           Found(status, ctx, h), NEW H, H = h \o tokens,
           NEW p, p = parse_data(status, ctx, setting, tokens), p.ret = "MSG_OK"
    PROVE  Opened(H) /\ (TwoTexts(H) \/ Reading(p, H, Len(H)))
<1>1. CASE Resumes(status, ctx, h) /\ (status = "JSON_IDLE" \/ Opened(h))
  <2>1. Reading(p, H, Len(H))
    BY <1>1, ChunkAgrees
  <2>2. CASE Opened(h)
    BY <2>1, <2>2, BracesStay
  <2>3. CASE status = "JSON_IDLE"
    BY <2>1, <2>3, TextIsOpened, BracesStay
  <2>4. QED
    BY <1>1, <2>2, <2>3
<1>2. CASE TwoTexts(h)
  <2>1. Opened(h)
    BY <1>2 DEF TwoTexts, Opened
  <2>2. QED
    BY <1>2, <2>1, BracesStay
<1>3. CASE status = "JSON_IDLE" /\ Opened(h)
  BY <1>3, TextIsOpened, BracesStay
<1>4. QED
  BY <1>1, <1>2, <1>3 DEF Found

(* handle_sign_tx_hash leaves a session that goes on with the text, or     *)
(* puts the text under review with the fields that agree with it.          *)
LEMMA TransactionAgrees ==
    ASSUME TypeOK, DOMAIN tx_context = TxFields, SessionAgrees, NEW c \in Commands, NEW fault,
           c.ins = "SIGN_TX_HASH", handle_sign_tx_hash(c, fault)
    PROVE  /\ DOMAIN tx_context' = TxFields /\ SessionAgrees'
           /\ \/ ux' = ux
              \/ ux' = "sign_tx" /\ PlainReviewAgrees'
              \/ ux' = "esdt" /\ TransferReviewAgrees'
<1> DEFINE Left ==
        /\ DOMAIN tx_context' = TxFields /\ SessionAgrees'
        /\ \/ ux' = ux
           \/ ux' = "sign_tx" /\ PlainReviewAgrees'
           \/ ux' = "esdt" /\ TransferReviewAgrees'
<1>1. /\ c.tokens \in Seq(TxToken) /\ sha3_context \in Digest /\ << >> \in Digest
      /\ DOMAIN tx_hash_context = {"status", "hash"} /\ tx_hash_context.status \in ParserStatus
      /\ N_storage.setting_contract_data \in BOOLEAN
  BY CommandTypes, EmptySeq DEF TypeOK, SigningTypeOK, TxHashContext, GlobalsTypeOK, Digest
<1>2. DOMAIN NoTx = TxFields /\ \A H : Agrees(NoTx, H, 0)
  BY NothingShown DEF Agrees
<1>3. esdt_info' = esdt_info
  BY DEF handle_sign_tx_hash
<1>4. ASSUME NEW hash, NEW state, NEW sw, GiveUp(hash, state, fault, sw),
             fault = "keccak_init" /\ state = "SIGNING_TX" => Opened(hash),
             tx_hash_context'.status = "JSON_IDLE"
      PROVE  Left
  <2>1. tx_context' = NoTx /\ ux' = ux
    BY <1>4 DEF GiveUp, Throw, ReplyWith, CleanTx
  <2>2. app_state' = "SIGNING_TX" => sha3_context' = hash /\ Opened(hash)
    BY <1>4 DEF GiveUp
  <2>3. SessionAgrees'
    BY <1>4, <2>2 DEF SessionAgrees
  <2>4. QED
    BY <1>2, <2>1, <2>3
<1>5. [tx_hash_context EXCEPT !.status = "JSON_IDLE"].status = "JSON_IDLE"
  BY <1>1
<1>6. ASSUME NEW H, NEW ctx, DOMAIN ctx = TxFields, Opened(Append(H, CxLast)),
             TwoTexts(H) \/ \E m \in 1 .. Len(H) : EndsAt(H, m) /\ Agrees(ctx, H, m),
             tx_signature'.hash = H, sha3_context' = Append(H, CxLast),
             tx_hash_context'.status = "JSON_IDLE", ReviewTx(ctx)
      PROVE  Left
  <2> DEFINE shown == parse_esdt_data(ctx).ctx
  <2>1. SessionAgrees'
    BY <1>6 DEF SessionAgrees
  <2>2. /\ DOMAIN shown = TxFields
        /\ \A field \in TxFields \ {"amount"} : shown[field] = ctx[field]
        /\ shown.amount = parse_esdt_data(shown).ctx.amount
    BY <1>6, TransferFields
  <2>3. CASE is_esdt_transfer(ctx) /\ parse_esdt_data(ctx).ret # "MSG_OK"
    <3>1. tx_context' = shown /\ ux' = ux
      BY <1>6, <2>3 DEF ReviewTx, Throw, ReplyWith
    <3>2. QED
      BY <2>1, <2>2, <3>1
  <2>4. CASE is_esdt_transfer(ctx) /\ parse_esdt_data(ctx).ret = "MSG_OK"
    <3>1. tx_context' = shown /\ ux' = "esdt"
      BY <1>6, <2>4 DEF ReviewTx, ShowReview
    <3>2. /\ shown.data = ctx.data /\ shown.chain_id = ctx.chain_id
          /\ shown.data_size = ctx.data_size /\ shown.esdt_value = ctx.esdt_value
          /\ shown.guardian = ctx.guardian
          /\ \A field \in CopiedField : shown[field] = ctx[field]
      BY <2>2 DEF TxFields, CopiedField
    <3> HIDE DEF shown
    <3>3. is_esdt_transfer(shown)
      BY <2>4, <3>2 DEF is_esdt_transfer
    <3>4. \A m : Agrees(ctx, H, m) => FieldsShown(shown, H, m)
      BY <3>2 DEF Agrees, FieldsShown
    <3>5. is_esdt_transfer(tx_context)'
      BY <1>3, <3>1, <3>3 DEF is_esdt_transfer, IsProvided
    <3>6. (tx_context.amount = parse_esdt_data(tx_context).ctx.amount)'
      BY <1>3, <2>2, <3>1 DEF parse_esdt_data
    <3>7. TransferReviewAgrees'
      BY <1>6, <3>1, <3>4, <3>5, <3>6 DEF TransferReviewAgrees
    <3>8. QED
      BY <2>1, <2>2, <3>1, <3>7
  <2>5. CASE ~is_esdt_transfer(ctx)
    <3>1. tx_context' = ctx /\ ux' = "sign_tx"
      BY <1>6, <2>5 DEF ReviewTx, ShowReview
    <3>2. PlainReviewAgrees'
      BY <1>6, <3>1 DEF PlainReviewAgrees
    <3>3. QED
      BY <1>6, <2>1, <3>1, <3>2
  <2>6. QED
    BY <2>3, <2>4, <2>5
<1>7. ASSUME NEW H, NEW ctx, DOMAIN ctx = TxFields, Opened(H), Opened(Append(H, CxLast)),
             TwoTexts(H) \/ \E m \in 1 .. Len(H) : EndsAt(H, m) /\ Agrees(ctx, H, m),
             SignTx(H, ctx, fault)
      PROVE  Left
  <2>1. CASE fault = "derive"
    <3>1. GiveUp(H, "SIGNING_TX", fault, "ERR_SIGNATURE_FAILED") /\ tx_hash_context'.status = "JSON_IDLE"
      BY <1>5, <1>7, <2>1 DEF SignTx
    <3>2. QED
      BY <1>4, <1>7, <3>1
  <2>2. CASE fault \in {"cx_last", "sign"}
    <3>1. PICK final, digest :
              /\ GiveUp(final, "SIGNING_TX", fault, "ERR_SIGNATURE_FAILED")
              /\ tx_hash_context' = [status |-> "JSON_IDLE", hash |-> digest]
      BY <1>7, <2>2 DEF SignTx
    <3>2. QED
      BY <1>4, <2>2, <3>1
  <2>3. CASE fault \notin {"derive", "cx_last", "sign"}
    <3>1. /\ tx_hash_context' = [status |-> "JSON_IDLE", hash |-> H]
          /\ tx_signature' = Sign(H) /\ sha3_context' = Append(H, CxLast) /\ ReviewTx(ctx)
      BY <1>7, <2>3 DEF SignTx
    <3>2. tx_signature'.hash = H /\ tx_hash_context'.status = "JSON_IDLE"
      BY <3>1 DEF Sign
    <3>3. QED
      BY <1>6, <1>7, <3>1, <3>2
  <2>4. QED
    BY <2>1, <2>2, <2>3
<1>8. ASSUME NEW hash \in Digest, NEW status, NEW ctx, Found(status, ctx, hash),
             fault = "keccak_init" => Opened(hash), AbsorbTx(hash, status, ctx, c.tokens, fault)
      PROVE  Left
  <2> DEFINE setting == N_storage.setting_contract_data
             H == hash \o c.tokens
             p == parse_data(status, ctx, setting, c.tokens)
  <2>1. (Opened(hash) => Opened(H)) /\ (Opened(H) => Opened(Append(H, CxLast)))
    BY <1>1, BracesStay
  <2>2. DOMAIN p.ctx = TxFields
    BY <1>1, <1>8, DataIsAllowed DEF Found
  <2>3. p.ret = "MSG_OK" => Opened(H) /\ (TwoTexts(H) \/ Reading(p, H, Len(H)))
    BY <1>1, <1>8, ChunkFound
  <2>4. H \in Digest /\ Len(H) \in Nat
    BY <1>1, <1>8, Absorb, LenProperties DEF Digest
  <2>5. CASE fault = "cx_chunk"
    <3>1. GiveUp(hash, "SIGNING_TX", fault, "CX_ERROR") /\ tx_hash_context'.status = "JSON_IDLE"
      BY <1>5, <1>8, <2>5 DEF AbsorbTx
    <3>2. QED
      BY <1>4, <2>5, <3>1
  <2>6. CASE fault # "cx_chunk" /\ p.ret # "MSG_OK"
    <3>1. GiveUp(H, "SIGNING_TX", fault, p.ret) /\ tx_hash_context'.status = "JSON_IDLE"
      BY <1>5, <1>8, <2>6 DEF AbsorbTx
    <3>2. QED
      BY <1>4, <1>8, <2>1, <3>1
  <2>7. CASE /\ fault # "cx_chunk" /\ p.ret = "MSG_OK" /\ p.status \in ParserStatus \ {"JSON_IDLE"}
             /\ KeepTxSession(H, p.ctx, p.status, "MSG_OK")
    <3>1. /\ sha3_context' = H /\ tx_context' = p.ctx /\ ux' = ux
          /\ tx_hash_context' = [tx_hash_context EXCEPT !.status = p.status]
      BY <2>7 DEF KeepTxSession, Throw, ReplyWith
    <3>2. tx_hash_context'.status = p.status
      BY <1>1, <3>1
    <3>3. TwoTexts(H) \/ Within(p, H, Len(H))
      BY <2>3, <2>7 DEF Reading, AtStart, AtEnd
    <3> HIDE DEF H, p
    <3>4. SessionAgrees'
      BY <2>3, <2>7, <3>1, <3>3 DEF SessionAgrees, Within
    <3>5. QED
      BY <2>2, <3>1, <3>4
  <2>8. CASE /\ fault # "cx_chunk" /\ p.ret = "MSG_OK" /\ p.status = "JSON_IDLE"
             /\ SignTx(H, p.ctx, fault)
    <3>1. Len(H) # 0
      <4>1. Opened(H)
        BY <2>3, <2>8
      <4>2. DOMAIN H = 1 .. Len(H)
        BY <2>4, LenProperties DEF Digest
      <4> HIDE DEF H
      <4>3. QED
        BY <2>4, <4>1, <4>2 DEF Opened
    <3> HIDE DEF H, p
    <3>2. TwoTexts(H) \/ AtEnd(p, H, Len(H))
      BY <2>3, <2>8, <3>1 DEF Reading, AtStart, Within
    <3>3. QED
      BY <1>7, <2>1, <2>2, <2>3, <2>8, <3>2 DEF AtEnd
  <2>9. QED
    <3>1. \A err \in ParseError : err # "MSG_OK"
      BY DEF ParseError
    <3>2. QED
      BY <1>8, <2>5, <2>6, <2>7, <2>8, <3>1 DEF AbsorbTx
<1>9. CASE FirstTxChunk(c, fault) /\ fault = "keccak_init"
  <2>1. GiveUp(sha3_context, app_state, fault, "CX_ERROR") /\ tx_hash_context'.status = "JSON_IDLE"
    BY <1>5, <1>9 DEF FirstTxChunk
  <2>2. QED
    BY <1>4, <2>1 DEF SessionAgrees
<1>10. CASE FirstTxChunk(c, fault) /\ fault # "keccak_init"
  <2>1. Found("JSON_IDLE", NoTx, << >>)
    BY <1>2 DEF Found, Resumes
  <2>2. AbsorbTx(<< >>, "JSON_IDLE", NoTx, c.tokens, fault)
    BY <1>10 DEF FirstTxChunk, CleanTx
  <2>3. QED
    BY <1>1, <1>8, <1>10, <2>1, <2>2
<1>11. CASE NextTxChunk(c, fault)
  <2>1. ASSUME NEW sw, RefusedTx(sw)
        PROVE  Left
    BY <2>1 DEF RefusedTx, Throw, ReplyWith, SessionAgrees
  <2>2. ASSUME Continuing("SIGNING_TX")
        PROVE  Found(tx_hash_context.status, tx_context, sha3_context) /\ Opened(sha3_context)
    BY <1>1, <2>2 DEF Continuing, SessionAgrees, Found, Resumes
  <2>3. QED
    BY <1>1, <1>8, <1>11, <2>1, <2>2 DEF NextTxChunk
<1>12. QED
  BY <1>9, <1>10, <1>11 DEF handle_sign_tx_hash

(* The other signing commands leave a transaction's session, and its hash, *)
(* alone or end it (handle_sign_msg, handle_auth_token).                   *)
LEMMA OthersKeepOrEnd ==
    ASSUME NEW c, NEW fault, handle_sign_msg(c, fault) \/ handle_auth_token(c, fault)
    PROVE  /\ app_state' = "SIGNING_TX" => UNCHANGED <<app_state, sha3_context>>
           /\ ux' \in {ux, "sign_msg", "auth_token"}
<1> DEFINE Kept == /\ app_state' = "SIGNING_TX" => UNCHANGED <<app_state, sha3_context>>
                   /\ ux' \in {ux, "sign_msg", "auth_token"}
<1>1. ASSUME NEW hash, NEW len, NEW bytes, AbsorbMessage(hash, len, bytes, fault)
      PROVE  Kept
  BY <1>1 DEF AbsorbMessage, RefuseLongMessage, KeepMsgSession, SignMessage, init_msg_context,
              Throw, ReplyWith, ShowReview
<1>2. CASE handle_sign_msg(c, fault)
  BY <1>1, <1>2 DEF handle_sign_msg, FirstMsgChunk, NextMsgChunk, RefusedMsg, KeepMsgSession,
                    Throw, ReplyWith
<1>3. ASSUME NEW hash, NEW context, NEW display, NEW bytes,
             AbsorbToken(hash, context, display, bytes, fault)
      PROVE  Kept
  BY <1>3 DEF AbsorbToken, KeepAuthSession, SignAuthToken, init_auth_token_context,
              Throw, ReplyWith, ShowReview
<1>4. CASE handle_auth_token(c, fault)
  BY <1>3, <1>4 DEF handle_auth_token, FirstTokenChunk, NextTokenChunk, RefusedFirstToken,
                    RefusedToken, KeepAuthSession, Throw, ReplyWith
<1>5. QED
  BY <1>2, <1>4

(* A command keeps the fields in agreement with the text (handle_apdu).    *)
LEMMA ReceiveAgrees ==
    ASSUME TypeOK, LinkInv, TransactionInv, NEW c \in Commands, NEW fault \in CxFaults,
           Receive(c, fault)
    PROVE  TransactionInv'
<1>1. ux = "menu"
  BY Screens DEF Receive, LinkInv, InsideExchange
<1>2. DOMAIN tx_context = TxFields /\ SessionAgrees
  BY DEF TransactionInv
<1>3. ASSUME UNCHANGED <<tx_context, tx_hash_context>>,
             app_state' = "SIGNING_TX" => UNCHANGED <<app_state, sha3_context>>
      PROVE  DOMAIN tx_context' = TxFields /\ SessionAgrees'
  BY <1>2, <1>3 DEF SessionAgrees
<1>4. CASE SignMsgCommand(c, fault) \/ AuthTokenCommand(c, fault)
  BY <1>1, <1>3, <1>4, OthersKeepOrEnd
     DEF SignMsgCommand, AuthTokenCommand, TransactionInv, ReviewAgrees
<1>5. CASE SignTxHashCommand(c, fault)
  BY <1>1, <1>2, <1>5, TransactionAgrees DEF SignTxHashCommand, TransactionInv, ReviewAgrees
<1>6. CASE ProvideEsdtCommand(c, fault) \/ AddressCommand(c, fault)
  <2>1. /\ ux' \in {"menu", "address"}
        /\ UNCHANGED <<app_state, sha3_context, tx_context, tx_hash_context>>
    BY <1>1, <1>6 DEF ProvideEsdtCommand, handle_provide_ESDT_info, AddressCommand,
           handle_set_address, handle_get_address, Throw, ReplyWith, ShowReview
  <2>2. QED
    BY <1>3, <2>1 DEF TransactionInv, ReviewAgrees
<1>7. CASE handle_other(c)
  <2>1. ux' = ux /\ UNCHANGED <<app_state, sha3_context, tx_context, tx_hash_context>>
    BY <1>7 DEF handle_other, globals, contexts, Throw, ReplyWith
  <2>2. QED
    BY <1>1, <1>3, <2>1 DEF TransactionInv, ReviewAgrees
<1>8. QED
  BY <1>4, <1>5, <1>6, <1>7 DEF Receive, handle_apdu

(* Between chunks and under review the fields of a transaction always      *)
(* agree with the text in the hash, whatever other commands come in        *)
(* between and whatever call fails, provided that the text is one.         *)
THEOREM TransactionsAgree == Spec => []TransactionInv
<1>1. Init => TransactionInv
  BY NothingShown DEF Init, TransactionInv, SessionAgrees, ReviewAgrees, Agrees
<1>2. ASSUME TypeOK, LinkInv, TransactionInv, [Next]_vars
      PROVE  TransactionInv'
  <2>1. CASE Launch \/ Unplug \/ Quit \/ PowerOff
    <3>1. ux' = "menu" /\ app_state' = "IDLE" /\ tx_context' = NoTx
      BY <2>1 DEF Launch, Unplug, Initialise, init_msg_context, CleanTx, Quit, PowerOff, Stop
    <3>2. QED
      BY <3>1, NothingShown DEF TransactionInv, SessionAgrees, ReviewAgrees, Agrees
  <2>2. ASSUME NEW c \in Commands, NEW fault \in CxFaults, Receive(c, fault)
        PROVE  TransactionInv'
    BY <1>2, <2>2, ReceiveAgrees
  <2>3. ASSUME UNCHANGED <<app_state, sha3_context, contexts>>, ux' \in {ux, "menu"}
        PROVE  TransactionInv'
    <3>1. UNCHANGED <<tx_context, tx_hash_context, tx_signature, esdt_info>>
      BY <2>3 DEF contexts
    <3>2. DOMAIN tx_context' = TxFields /\ SessionAgrees'
      BY <1>2, <2>3, <3>1 DEF TransactionInv, SessionAgrees
    <3>3. PlainReviewAgrees => PlainReviewAgrees'
      BY <3>1 DEF PlainReviewAgrees
    <3>4. TransferReviewAgrees => TransferReviewAgrees'
      BY <3>1 DEF TransferReviewAgrees, is_esdt_transfer, IsProvided, parse_esdt_data
    <3>5. QED
      BY <1>2, <2>3, <3>2, <3>3, <3>4 DEF TransactionInv, ReviewAgrees
  <2>4. CASE IoExchange \/ Approve \/ Reject
    BY <2>3, <2>4 DEF IoExchange, Approve, Reject, send_response, globals
  <2>5. ASSUME NEW enabled \in BOOLEAN, setting_contract_data_change(enabled)
        PROVE  TransactionInv'
    BY <2>3, <2>5 DEF setting_contract_data_change, output
  <2>6. CASE UNCHANGED vars
    BY <2>3, <2>6 DEF vars, globals, output
  <2>7. QED
    BY <1>2, <2>1, <2>2, <2>4, <2>5, <2>6 DEF Next
<1>3. QED
  BY <1>1, <1>2, TypeCorrect, LinkInvariant, PTL DEF Spec

(***************************************************************************)
(* The properties.                                                         *)
(***************************************************************************)
(* A hash over one text is not over two.                                   *)
LEMMA OneTextIsNotTwo ==
    ASSUME NEW H \in Digest, OneText(H)
    PROVE  ~TwoTexts(H)
<1> DEFINE T == {i \in DOMAIN H : H[i] = Open}
<1>1. DOMAIN H = 1 .. Len(H) /\ Len(H) \in Nat
  BY LenProperties DEF Digest
<1>2. IsFiniteSet(T)
  <2>1. IsFiniteSet(1 .. Len(H))
    BY <1>1, FS_Interval
  <2>2. T \subseteq 1 .. Len(H)
    BY <1>1
  <2>3. QED
    BY <2>1, <2>2, FS_Subset
<1>3. Cardinality(T) = 1
  BY DEF OneText
<1> HIDE DEF T
<1>4. PICK x : T = {x}
  BY <1>2, <1>3, FS_Singleton
<1>5. QED
  BY <1>4 DEF TwoTexts, T

(* The end of the text is at its first closing brace.                      *)
LEMMA EndOfText ==
    ASSUME NEW H \in Digest, NEW m \in 1 .. Len(H), EndsAt(H, m)
    PROVE  TextEnd(H) = m
<1> DEFINE I == {i \in 1 .. Len(H) : H[i] = Close}
<1>1. Len(H) \in Nat
  BY LenProperties DEF Digest
<1>2. m \in I /\ \A i \in I : m <= i
  BY <1>1 DEF EndsAt, NoEnd
<1>3. TextEnd(H) = IF I # {} THEN Min(I) ELSE 0
  BY DEF TextEnd, SelectInSeq
<1>4. Min(I) = m
  <2>1. \A x \in I : (\A y \in I : x <= y) => x = m
    BY <1>1, <1>2
  <2>2. Min(I) \in I /\ \A y \in I : Min(I) <= y
    BY <1>2 DEF Min
  <2> HIDE DEF I
  <2>3. QED
    BY <2>1, <2>2
<1>5. QED
  BY <1>2, <1>3, <1>4

(* What the fields agree with is the last value of each field.             *)
LEMMA LastIsLastValue ==
    ASSUME NEW H, NEW m \in Nat, TextEnd(H) = m, NEW field, NEW v, LastIs(H, m, field, v)
    PROVE  Occurrences(H, field) = Where(H, m, field) /\ LastValue(H, field) = v
<1>1. Occurrences(H, field) = Where(H, m, field)
  BY DEF Occurrences, Where
<1>2. CASE Where(H, m, field) = {}
  BY <1>1, <1>2 DEF LastValue, LastIs
<1>3. CASE Where(H, m, field) # {}
  <2>1. PICK i \in Where(H, m, field) :
            H[i].value = v /\ \A j \in Where(H, m, field) : j <= i
    BY <1>3 DEF LastIs
  <2>2. Where(H, m, field) \subseteq 1 .. m
    BY DEF Where
  <2>3. Max(Where(H, m, field)) = i
    <3>1. \A x \in Where(H, m, field) : (\A y \in Where(H, m, field) : x >= y) => x = i
      BY <2>1, <2>2
    <3>2. \A y \in Where(H, m, field) : i >= y
      BY <2>1, <2>2
    <3>3. QED
      BY <2>1, <3>1, <3>2 DEF Max
  <2>4. QED
    BY <1>1, <1>3, <2>1, <2>3 DEF LastValue
<1>4. QED
  BY <1>2, <1>3

(* What is not overrun up to the end of the text is as FieldsShown says.   *)
LEMMA NotOverrunIsSpared ==
    ASSUME NEW H, NEW m \in Nat, TextEnd(H) = m, NEW overrun, NEW field,
           NotOverrun(H, overrun, field)
    PROVE  Spared(H, m, overrun, field)
<1>1. \A f : Occurrences(H, f) = Where(H, m, f)
  BY DEF Occurrences, Where
<1>2. QED
  BY <1>1 DEF NotOverrun, Spared

(* The review shows the fields of the very text whose hash is signed, none *)
(* left from an earlier transaction or a rejected one (init_tx_context,    *)
(* process_field), apart from a guardian that a chain id of 120 characters *)
(* or more has run over (verify_chainid).                                  *)
THEOREM ReviewsShowTheDocument == Spec => []TxReviewShowsDocument
<1>1. ASSUME TypeOK, TransactionInv
      PROVE  TxReviewShowsDocument
  <2> SUFFICES ASSUME ux \in {"sign_tx", "esdt"}, OneText(tx_signature.hash)
               PROVE  LET hash == tx_signature.hash
                          data == LastValue(hash, "data")
                      IN  /\ TextEnd(hash) > 0
                          /\ \A field \in {"receiver", "relayer"} :
                                tx_context[field] = LastValue(hash, field)
                          /\ NotOverrun(hash, GuardianOverrun, "guardian") =>
                                tx_context.guardian = LastValue(hash, "guardian")
                          /\ tx_context.chain_id = LastValue(hash, "chainID")
                          /\ tx_context.data = data
                          /\ tx_context.data_size = IF data = NoValue THEN 0 ELSE DataSize[data]
    BY DEF TxReviewShowsDocument
  <2> DEFINE H == tx_signature.hash
  <2>1. H \in Digest
    BY <1>1 DEF TypeOK, SigningTypeOK, Signature
  <2>2. PICK m \in 1 .. Len(H) : EndsAt(H, m) /\ FieldsShown(tx_context, H, m)
    BY <1>1, <2>1, OneTextIsNotTwo
       DEF TransactionInv, ReviewAgrees, PlainReviewAgrees, TransferReviewAgrees, Agrees
  <2>3. TextEnd(H) = m /\ m \in Nat /\ m > 0
    BY <2>1, <2>2, EndOfText, LenProperties DEF Digest
  <2> HIDE DEF H
  <2>4. \A field \in CopiedField : tx_context[field] = LastValue(H, field)
    BY <2>2, <2>3, LastIsLastValue DEF FieldsShown
  <2>5. ASSUME NotOverrun(H, GuardianOverrun, "guardian")
        PROVE  tx_context.guardian = LastValue(H, "guardian")
    <3>1. LastIs(H, m, "guardian", tx_context.guardian)
      BY <2>2, <2>3, <2>5, NotOverrunIsSpared DEF FieldsShown
    <3>2. QED
      BY <2>3, <3>1, LastIsLastValue
  <2>6. tx_context.chain_id = LastValue(H, "chainID")
    BY <2>2, <2>3, LastIsLastValue DEF FieldsShown
  <2>7. tx_context.data_size = IF tx_context.data = NoValue THEN 0 ELSE DataSize[tx_context.data]
    BY <2>2 DEF FieldsShown
  <2>8. QED
    BY <2>3, <2>4, <2>5, <2>6, <2>7 DEF CopiedField, H
<1>2. QED
  BY <1>1, TypeCorrect, TransactionsAgree, PTL

(* The amount and the fee shown are those of the text, in the currency of  *)
(* its chain, although they are worked out half-way (verify_chainid).      *)
THEOREM ReviewsShowTheCosts == Spec => []TxReviewShowsCosts
<1>1. ASSUME TypeOK, TransactionInv
      PROVE  TxReviewShowsCosts
  <2> DEFINE H == tx_signature.hash
             unit == TickerOf(tx_context.chain_id)
  <2> SUFFICES ASSUME ux = "sign_tx", OneText(H), ChainComesLast(H)
               PROVE  /\ tx_context.amount =
                            Pretty(Amount(LastValue(H, "value")), Unit(unit, DECIMAL_PLACES))
                      /\ tx_context.fee = Fee(LastValue(H, "gasLimit"), LastValue(H, "gasPrice"),
                                              tx_context.data_size, unit)
    BY DEF TxReviewShowsCosts
  <2>1. H \in Digest
    BY <1>1 DEF TypeOK, SigningTypeOK, Signature
  <2>2. PICK m \in 1 .. Len(H) : EndsAt(H, m) /\ Agrees(tx_context, H, m)
    BY <1>1, <2>1, OneTextIsNotTwo DEF TransactionInv, ReviewAgrees, PlainReviewAgrees
  <2>3. TextEnd(H) = m /\ m \in Nat
    BY <2>1, <2>2, EndOfText, LenProperties DEF Digest
  <2> HIDE DEF H
  <2>4. \A field : Occurrences(H, field) = Where(H, m, field)
    BY <2>3 DEF Occurrences, Where
  <2>5. PICK i \in 1 .. m : ChainAt(H, m, i)
    BY <2>3, <2>4 DEF ChainComesLast, ChainAt
  <2>6. /\ tx_context.amount = Pretty(Amount(tx_context.amount.digits), Unit(unit, DECIMAL_PLACES))
        /\ LastIs(H, m, "value", tx_context.amount.digits)
        /\ tx_context.fee = Fee(tx_context.gasLimit, tx_context.gasPrice, tx_context.data_size, unit)
    BY <2>2, <2>5 DEF Agrees, CostsShown
  <2>7. LastIs(H, m, "gasLimit", tx_context.gasLimit) /\ LastIs(H, m, "gasPrice", tx_context.gasPrice)
    BY <2>2 DEF Agrees, FieldsShown, CopiedField
  <2>8. /\ LastValue(H, "value") = tx_context.amount.digits
        /\ LastValue(H, "gasLimit") = tx_context.gasLimit
        /\ LastValue(H, "gasPrice") = tx_context.gasPrice
    BY <2>3, <2>6, <2>7, LastIsLastValue
  <2>9. QED
    BY <2>6, <2>8
<1>2. QED
  BY <1>1, TypeCorrect, TransactionsAgree, PTL

(* The amount shown for a transfer is the one found in its data, or says   *)
(* why that is not shown, and its unit is that of the described token      *)
(* (parse_esdt_data).                                                      *)
LEMMA TransferAmount ==
    ASSUME NEW ctx, DOMAIN ctx = TxFields, NEW amount, amount = parse_esdt_data(ctx).ctx.amount
    PROVE  /\ ctx.esdt_value # NoEsdtValue =>
                 amount.digits \in {ctx.esdt_value, "<value too big to display>",
                                   "<value cannot be parsed to hex>"}
           /\ amount.units # << >> =>
                 amount.units = <<Unit(esdt_info.ticker, esdt_info.decimals)>>
<1> DEFINE digits == ctx.esdt_value
           unit == Unit(esdt_info.ticker, esdt_info.decimals)
<1>1. "amount" \in TxFields
  BY DEF TxFields
<1>2. \A x : Amount(x).digits = x /\ Amount(x).units = << >>
  BY DEF Amount
<1>3. \A x : [ctx EXCEPT !.amount = x].amount = x
  BY <1>1
<1>4. CASE digits = NoEsdtValue
  <2>1. parse_esdt_data(ctx).ctx = [ctx EXCEPT !.amount = Amount("N/A")]
    BY <1>4 DEF parse_esdt_data, NoEsdtValue, EsdtValueTooHigh
  <2>2. amount = Amount("N/A")
    BY <1>3, <2>1
  <2>3. QED
    BY <1>2, <1>4, <2>2
<1>5. CASE digits # NoEsdtValue /\ digits = EsdtValueTooHigh
  <2> DEFINE text == "<value too big to display>"
  <2>1. parse_esdt_data(ctx).ctx = [ctx EXCEPT !.amount = Amount(text)]
    BY <1>5 DEF parse_esdt_data
  <2> HIDE DEF text
  <2>2. amount = Amount(text)
    BY <1>3, <2>1
  <2>3. amount.digits = text /\ amount.units = << >>
    BY <1>2, <2>2
  <2>4. QED
    BY <2>3 DEF text
<1>6. CASE digits \notin {NoEsdtValue, EsdtValueTooHigh} /\ digits \in NotHex
  <2> DEFINE text == "<value cannot be parsed to hex>"
  <2>1. parse_esdt_data(ctx).ctx = [ctx EXCEPT !.amount = Amount(text)]
    BY <1>6 DEF parse_esdt_data
  <2> HIDE DEF text
  <2>2. amount = Amount(text)
    BY <1>3, <2>1
  <2>3. amount.digits = text /\ amount.units = << >>
    BY <1>2, <2>2
  <2>4. QED
    BY <2>3 DEF text
<1>7. CASE digits \notin NotHex \cup {NoEsdtValue, EsdtValueTooHigh}
  <2> DEFINE raw == [ctx EXCEPT !.amount = Amount(digits)]
  <2>1. CASE Printable(digits, esdt_info.decimals)
    <3>1. parse_esdt_data(ctx).ctx = [raw EXCEPT !.amount = Pretty(@, unit)]
      BY <1>7, <2>1 DEF parse_esdt_data
    <3>2. amount = Pretty(Amount(digits), unit)
      BY <1>1, <3>1
    <3>3. amount.digits = digits /\ amount.units = <<unit>>
      BY <3>2 DEF Pretty, Amount
    <3>4. QED
      BY <3>3
  <2>2. CASE ~Printable(digits, esdt_info.decimals)
    <3>1. parse_esdt_data(ctx).ctx = raw
      BY <1>7, <2>2 DEF parse_esdt_data
    <3>2. amount = Amount(digits)
      BY <1>3, <3>1
    <3>3. QED
      BY <1>2, <3>2
  <2>3. QED
    BY <2>1, <2>2
<1>8. QED
  BY <1>4, <1>5, <1>6, <1>7

(* The token shown for a transfer is the one the signed data transfers, on *)
(* the chain of the transaction, with the amount in the data               *)
(* (is_esdt_transfer, parse_esdt_data) unless the text has several data    *)
(* members, or a chain id of 68 characters or more behind its data         *)
(* (verify_chainid).                                                       *)
THEOREM ReviewsShowTheTransfer == Spec => []EsdtReviewShowsTransfer
<1>1. ASSUME TypeOK, TransactionInv
      PROVE  EsdtReviewShowsTransfer
  <2> DEFINE H == tx_signature.hash
             data == LastValue(H, "data")
             shown == tx_context.amount
  <2> SUFFICES ASSUME ux = "esdt", OneText(H)
               PROVE  /\ esdt_info.valid
                      /\ EsdtIdentifier[data] # << >>
                      /\ EsdtIdentifier[data] =
                            SubSeq(esdt_info.identifier, 1, esdt_info.identifier_len)
                      /\ LastValue(H, "chainID") = esdt_info.chain_id
                      /\ (/\ Cardinality(Occurrences(H, "data")) = 1 /\ EsdtValue[data] # NoEsdtValue
                          /\ NotOverrun(H, EsdtValueOverrun, "data")) =>
                            shown.digits \in {EsdtValue[data], "<value too big to display>",
                                              "<value cannot be parsed to hex>"}
                      /\ shown.units # << >> =>
                            shown.units = <<Unit(esdt_info.ticker, esdt_info.decimals)>>
    BY DEF EsdtReviewShowsTransfer
  <2>1. H \in Digest
    BY <1>1 DEF TypeOK, SigningTypeOK, Signature
  <2>2. /\ DOMAIN tx_context = TxFields /\ is_esdt_transfer(tx_context)
        /\ shown = parse_esdt_data(tx_context).ctx.amount
    BY <1>1 DEF TransactionInv, ReviewAgrees, TransferReviewAgrees
  <2>3. PICK m \in 1 .. Len(H) : EndsAt(H, m) /\ FieldsShown(tx_context, H, m)
    BY <1>1, <2>1, OneTextIsNotTwo DEF TransactionInv, ReviewAgrees, TransferReviewAgrees
  <2>4. TextEnd(H) = m /\ m \in Nat
    BY <2>1, <2>3, EndOfText, LenProperties DEF Digest
  <2> HIDE DEF H, shown
  <2>5. /\ LastIs(H, m, "data", tx_context.data)
        /\ tx_context.chain_id = LastValue(H, "chainID")
    BY <2>3, <2>4, LastIsLastValue DEF FieldsShown, CopiedField
  <2>6. tx_context.data = data /\ Occurrences(H, "data") = Where(H, m, "data")
    BY <2>4, <2>5, LastIsLastValue
  <2> HIDE DEF data
  <2>7. /\ esdt_info.valid /\ data # NoValue
        /\ Len(EsdtIdentifier[data]) = esdt_info.identifier_len
        /\ esdt_info.identifier_len \in 1 .. Len(esdt_info.identifier)
        /\ EsdtIdentifier[data] = SubSeq(esdt_info.identifier, 1, esdt_info.identifier_len)
        /\ tx_context.chain_id = esdt_info.chain_id
    BY <2>2, <2>6 DEF is_esdt_transfer, IsProvided
  <2>8. EsdtIdentifier[data] # << >>
    BY <2>7
  <2>9. ASSUME Cardinality(Occurrences(H, "data")) = 1, EsdtValue[data] # NoEsdtValue,
               NotOverrun(H, EsdtValueOverrun, "data")
        PROVE  tx_context.esdt_value = EsdtValue[data]
    <3>1. Where(H, m, "data") \subseteq 1 .. m
      BY DEF Where
    <3>2. IsFiniteSet(Where(H, m, "data"))
      <4>1. IsFiniteSet(1 .. m)
        BY <2>4, FS_Interval
      <4>2. QED
        BY <3>1, <4>1, FS_Subset
    <3>3. PICK i : Where(H, m, "data") = {i}
      BY <2>6, <2>9, <3>2, FS_Singleton
    <3>4. H[i].value = data /\ i \in 1 .. m
      BY <2>5, <2>6, <3>1, <3>3 DEF LastIs
    <3>5. Spared(H, m, EsdtValueOverrun, "data")
      BY <2>4, <2>9, NotOverrunIsSpared
    <3>6. HasAmount(H[i].value)
      BY <2>8, <2>9, <3>4 DEF HasAmount
    <3>7. QED
      BY <2>3, <3>3, <3>4, <3>5, <3>6 DEF FieldsShown
  <2>10. QED
    BY <2>2, <2>5, <2>7, <2>8, <2>9, TransferAmount
<1>2. QED
  BY <1>1, TypeCorrect, TransactionsAgree, PTL

(* A chunk takes data into the transaction only while contract data is     *)
(* enabled (handle_sign_tx_hash).                                          *)
LEMMA ChunkNeedsSetting ==
    ASSUME TypeOK, DOMAIN tx_context = TxFields, NEW c \in Commands, NEW fault,
           c.ins = "SIGN_TX_HASH", handle_sign_tx_hash(c, fault)
    PROVE  tx_context'.data \in {NoValue, tx_context.data} \/ N_storage.setting_contract_data
<1> DEFINE setting == N_storage.setting_contract_data
           Allowed(ctx) == DOMAIN ctx = TxFields /\ (ctx.data \in {NoValue, tx_context.data} \/ setting)
<1>1. c.tokens \in Seq(TxToken) /\ setting \in BOOLEAN
  BY CommandTypes DEF TypeOK, GlobalsTypeOK
<1>2. Allowed(NoTx) /\ Allowed(tx_context)
  BY DEF NoTx, TxFields
<1>3. ASSUME NEW hash, NEW state, NEW sw, GiveUp(hash, state, fault, sw)
      PROVE  Allowed(tx_context')
  BY <1>2, <1>3 DEF GiveUp, CleanTx
<1>4. ASSUME NEW ctx, Allowed(ctx), ReviewTx(ctx)
      PROVE  Allowed(tx_context')
  <2> DEFINE shown == parse_esdt_data(ctx).ctx
  <2>1. "data" \in TxFields \ {"amount"}
    BY DEF TxFields
  <2>2. DOMAIN shown = TxFields /\ shown.data = ctx.data
    BY <1>4, <2>1, TransferFields
  <2>3. tx_context' \in {ctx, shown}
    BY <1>4 DEF ReviewTx
  <2> HIDE DEF shown
  <2>4. QED
    BY <1>4, <2>2, <2>3
<1>5. ASSUME NEW hash, NEW ctx, Allowed(ctx), SignTx(hash, ctx, fault)
      PROVE  Allowed(tx_context')
  BY <1>3, <1>4, <1>5 DEF SignTx
<1>6. ASSUME NEW hash, NEW status, NEW ctx, Allowed(ctx),
             AbsorbTx(hash, status, ctx, c.tokens, fault)
      PROVE  Allowed(tx_context')
  <2> DEFINE p == parse_data(status, ctx, setting, c.tokens)
  <2>1. Allowed(p.ctx)
    BY <1>1, <1>6, DataIsAllowed
  <2>2. ASSUME KeepTxSession(hash \o c.tokens, p.ctx, p.status, "MSG_OK")
        PROVE  Allowed(tx_context')
    BY <2>1, <2>2 DEF KeepTxSession
  <2> HIDE DEF Allowed
  <2>3. QED
    BY <1>3, <1>5, <1>6, <2>1, <2>2 DEF AbsorbTx
<1>7. CASE FirstTxChunk(c, fault)
  BY <1>2, <1>3, <1>6, <1>7 DEF FirstTxChunk, CleanTx
<1>8. CASE NextTxChunk(c, fault)
  BY <1>2, <1>6, <1>8 DEF NextTxChunk, RefusedTx
<1>9. QED
  BY <1>7, <1>8 DEF handle_sign_tx_hash

(* Data is taken into a transaction only while contract data is enabled    *)
(* (verify_data), even if the user changes the setting between chunks.     *)
THEOREM DataIsTakenWithTheSetting == Spec => DataNeedsSetting
<1>1. ASSUME TypeOK, TransactionInv, [Next]_vars, tx_context'.data \notin {NoValue, tx_context.data}
      PROVE  N_storage.setting_contract_data
  <2>1. CASE Launch \/ Unplug \/ Quit \/ PowerOff
    BY <1>1, <2>1 DEF Launch, Unplug, Initialise, Quit, PowerOff, Stop, CleanTx, NoTx
  <2>2. ASSUME NEW c \in Commands, NEW fault \in CxFaults, Receive(c, fault)
        PROVE  N_storage.setting_contract_data
    <3>1. CASE SignTxHashCommand(c, fault)
      BY <1>1, <3>1, ChunkNeedsSetting DEF SignTxHashCommand, TransactionInv
    <3>2. CASE \/ SignMsgCommand(c, fault) \/ AuthTokenCommand(c, fault)
               \/ ProvideEsdtCommand(c, fault) \/ AddressCommand(c, fault) \/ handle_other(c)
      BY <1>1, <3>2 DEF SignMsgCommand, AuthTokenCommand, ProvideEsdtCommand, AddressCommand,
                        handle_other, contexts
    <3>3. QED
      BY <2>2, <3>1, <3>2 DEF Receive, handle_apdu
  <2>3. CASE IoExchange \/ Approve \/ Reject
    BY <1>1, <2>3 DEF IoExchange, Approve, Reject, send_response, contexts
  <2>4. ASSUME NEW enabled \in BOOLEAN, setting_contract_data_change(enabled)
        PROVE  FALSE
    BY <1>1, <2>4 DEF setting_contract_data_change, contexts
  <2>5. CASE UNCHANGED vars
    BY <1>1, <2>5 DEF vars, contexts
  <2>6. QED
    BY <1>1, <2>1, <2>2, <2>3, <2>4, <2>5 DEF Next
<1>2. QED
  BY <1>1, TypeCorrect, TransactionsAgree, PTL DEF Spec, DataNeedsSetting
==============================================================================
