----------------------------- MODULE Token_proof -----------------------------
(***************************************************************************)
(* Proofs about login tokens, for hosts that ask for tokens and not for    *)
(* messages: the token under review is complete and for the address in the *)
(* reply, what is shown of it is in it, and the device implements the      *)
(* signing session.                                                        *)
(***************************************************************************)
EXTENDS Session_proof

(***************************************************************************)
(* The account of the token.                                               *)
(***************************************************************************)
(* A hash over the prefix, the announced length, the address and as many   *)
(* bytes as are not remaining, up to its n-th item.                        *)
Account(hash, n, remaining, holder) ==
    /\ n \in 3 .. Len(hash)
    /\ hash[1] = Prepend
    /\ hash[2] = Length(remaining + (n - 3) + BECH32_ADDRESS_LEN)
    /\ hash[3] = Bech32(holder)
    /\ \A i \in 4 .. n : hash[i] \in MessageByte
IsToken(hash, remaining, holder) == Account(hash, Len(hash), remaining, holder)

(* A complete token whose hash was finished, more than once perhaps.       *)
IsFinished(hash, holder) ==
    \E n \in 3 .. Len(hash) :
        Account(hash, n, 0, holder) /\ \A i \in n + 1 .. Len(hash) : hash[i] = CxLast

(* A refused origin leaves its session open: its hash is finished and      *)
(* holds one end too many, but nothing of it is signed.                    *)
RefusedOrigin(hash, context, display) ==
    /\ context.len = 0
    /\ IsFinished(hash, context.address)
    /\ compute_token_display(display) = "BAD_REQUEST"

TokenOrRefused(hash, context, display) ==
    IsToken(hash, context.len, context.address) \/ RefusedOrigin(hash, context, display)
OpenToken ==
    app_state = "SIGNING_MESSAGE" => TokenOrRefused(sha3_context, auth_context, auth_display)
CompleteToken(context) ==
    IsToken(context.hash, 0, context.address) /\ context.signature.hash = context.hash
ReviewedToken == ux = "auth_token" => app_state = "IDLE" /\ CompleteToken(auth_context)
TokenInv == OpenToken /\ ReviewedToken /\ ux # "sign_msg"

NoMessages == \A c \in Commands : c.ins # "SIGN_MSG"
HeadersAreWhole == \A c \in Commands : c.ins = "AUTH_TOKEN" /\ c.p1 = "P1_FIRST" => ~c.short
TokensAreStarted == CxFaults \cap (AuthStartFaults \cup {"public_key"}) = {}

(* Hashing a chunk that is not too long keeps the account of the bytes.    *)
LEMMA TokenGrows ==
    ASSUME NEW hash \in Digest, NEW remaining \in Nat, NEW holder,
           IsToken(hash, remaining, holder),
           NEW bytes \in Seq(MessageByte), Len(bytes) <= remaining
    PROVE  IsToken(hash \o bytes, remaining - Len(bytes), holder)
<1> DEFINE text == hash \o bytes
<1>1. bytes \in Seq(Absorbed) /\ hash \in Seq(Absorbed)
  BY SeqMonotonic DEF Absorbed, Digest
<1>2. Len(hash) \in Nat /\ Len(bytes) \in Nat
  BY <1>1, LenProperties
<1>3. /\ Len(text) = Len(hash) + Len(bytes)
      /\ \A i \in 1 .. Len(hash) + Len(bytes) :
            text[i] = IF i <= Len(hash) THEN hash[i] ELSE bytes[i - Len(hash)]
  BY <1>1, ConcatProperties
<1> HIDE DEF text
<1>4. Len(hash) >= 3
  BY <1>2 DEF IsToken, Account
<1>5. Len(text) >= 3 /\ \A i \in 1 .. 3 : text[i] = hash[i]
  BY <1>2, <1>3, <1>4
<1>6. remaining - Len(bytes) + (Len(text) - 3) = remaining + (Len(hash) - 3)
  BY <1>2, <1>3
<1>7. ASSUME NEW i \in 4 .. Len(text)
      PROVE  text[i] \in MessageByte
  <2>1. CASE i <= Len(hash)
    BY <1>2, <1>3, <2>1 DEF IsToken, Account
  <2>2. CASE i > Len(hash)
    <3>1. i - Len(hash) \in 1 .. Len(bytes) /\ text[i] = bytes[i - Len(hash)]
      BY <1>2, <1>3, <2>2
    <3>2. QED
      BY <3>1, LenProperties
  <2>3. QED
    BY <1>2, <1>3, <2>1, <2>2
<1>8. Len(text) \in 3 .. Len(text)
  BY <1>2, <1>3, <1>5
<1>9. QED
  BY <1>5, <1>6, <1>7, <1>8 DEF IsToken, Account, text

(* A token is finished by one end, and a finished one by another.          *)
LEMMA TokenFinishes ==
    ASSUME NEW hash \in Digest, NEW holder,
           IsToken(hash, 0, holder) \/ IsFinished(hash, holder)
    PROVE  IsFinished(Append(hash, CxLast), holder)
<1> DEFINE last == Append(hash, CxLast)
<1>1. hash \in Seq(Absorbed) /\ CxLast \in Absorbed
  BY DEF Absorbed, Digest
<1>2. Len(hash) \in Nat
  BY <1>1, LenProperties
<1>3. /\ Len(last) = Len(hash) + 1 /\ last[Len(hash) + 1] = CxLast
      /\ \A i \in 1 .. Len(hash) : last[i] = hash[i]
  BY <1>1, AppendProperties
<1> HIDE DEF last
<1>4. PICK n \in 3 .. Len(hash) :
          Account(hash, n, 0, holder) /\ \A i \in n + 1 .. Len(hash) : hash[i] = CxLast
  <2>1. CASE IsToken(hash, 0, holder)
    BY <1>2, <2>1 DEF IsToken, Account
  <2>2. QED
    BY <2>1 DEF IsFinished
<1>5. Account(last, n, 0, holder)
  BY <1>2, <1>3, <1>4 DEF Account
<1>6. \A i \in n + 1 .. Len(last) : last[i] = CxLast
  BY <1>2, <1>3, <1>4
<1>7. QED
  BY <1>2, <1>3, <1>4, <1>5, <1>6 DEF IsFinished, last

(* handle_auth_token keeps the account, and reviews when nothing remains.  *)
LEMMA TokenAccount ==
    ASSUME TypeOK, OpenToken, TokensAreStarted, HeadersAreWhole, NEW c \in Commands,
           NEW fault \in CxFaults, c.ins = "AUTH_TOKEN", handle_auth_token(c, fault)
    PROVE  /\ OpenToken'
           /\ \/ ux' = ux
              \/ ux' = "auth_token" /\ app_state' = "IDLE" /\ CompleteToken(auth_context')
<1> DEFINE Accounted ==
        /\ OpenToken'
        /\ \/ ux' = ux
           \/ ux' = "auth_token" /\ app_state' = "IDLE" /\ CompleteToken(auth_context')
<1>1. c.address \in Address /\ c.len \in Nat /\ c.bytes \in Seq(MessageByte)
      /\ Len(c.bytes) \in Nat
  BY CommandTypes, LenProperties
<1>2. sha3_context \in Digest /\ auth_context \in AuthContext
  BY DEF TypeOK, SigningTypeOK
<1>3. ASSUME NEW hash, NEW context, NEW display, TokenOrRefused(hash, context, display),
             KeepAuthSession(hash, context, display)
      PROVE  OpenToken'
  <2>1. sha3_context' = hash /\ auth_context' = context /\ auth_display' = display
    BY <1>3 DEF KeepAuthSession
  <2>2. TokenOrRefused(sha3_context', auth_context', auth_display')
    BY <1>3, <2>1
  <2>3. QED
    BY <2>2 DEF OpenToken, TokenOrRefused, RefusedOrigin, compute_token_display
<1>4. ASSUME NEW hash \in Digest, NEW context \in AuthContext, NEW display, context.len = 0,
             TokenOrRefused(hash, context, display), SignAuthToken(hash, context, display, fault)
      PROVE  Accounted
  <2> DEFINE signed == [context EXCEPT !.len = 0, !.hash = hash, !.signature = Sign(hash)]
             result == compute_token_display(display)
  <2>1. /\ signed.len = 0 /\ signed.hash = hash /\ signed.address = context.address
        /\ signed.signature.hash = hash
    BY DEF AuthContext, Sign
  <2>2. \/ app_state' = "IDLE" /\ ux' = ux
        \/ /\ ux' = ux /\ result = "BAD_REQUEST"
           /\ KeepAuthSession(Append(hash, CxLast), signed, display)
        \/ /\ app_state' = "IDLE" /\ ux' = "auth_token" /\ auth_context' = signed
           /\ result # "BAD_REQUEST"
    BY <1>4 DEF SignAuthToken, init_auth_token_context, Throw, ReplyWith, ShowReview
  <2> HIDE DEF signed
  <2>3. CASE app_state' = "IDLE" /\ ux' = ux
    BY <2>3 DEF OpenToken
  <2>4. CASE /\ ux' = ux /\ result = "BAD_REQUEST"
             /\ KeepAuthSession(Append(hash, CxLast), signed, display)
    <3>1. IsFinished(Append(hash, CxLast), signed.address)
      BY <1>4, <2>1, TokenFinishes DEF TokenOrRefused, RefusedOrigin
    <3>2. TokenOrRefused(Append(hash, CxLast), signed, display)
      BY <2>1, <2>4, <3>1 DEF TokenOrRefused, RefusedOrigin
    <3>3. QED
      BY <1>3, <2>4, <3>2
  <2>5. CASE /\ app_state' = "IDLE" /\ ux' = "auth_token" /\ auth_context' = signed
             /\ result # "BAD_REQUEST"
    <3>1. IsToken(hash, 0, context.address)
      BY <1>4, <2>5 DEF TokenOrRefused, RefusedOrigin
    <3>2. CompleteToken(signed)
      BY <2>1, <3>1 DEF CompleteToken
    <3>3. CompleteToken(auth_context')
      BY <2>5, <3>2
    <3>4. QED
      BY <2>5, <3>3 DEF OpenToken
  <2>6. QED
    BY <2>2, <2>3, <2>4, <2>5
<1>5. ASSUME NEW hash \in Digest, NEW context \in AuthContext, NEW display,
             TokenOrRefused(hash, context, display),
             AbsorbToken(hash, context, display, c.bytes, fault)
      PROVE  Accounted
  <2> DEFINE rest == [context EXCEPT !.len = @ - Len(c.bytes)]
             text == hash \o c.bytes
  <2>1. context.len \in Nat
    BY DEF AuthContext
  <2>2. rest.len = context.len - Len(c.bytes) /\ rest.address = context.address
    BY DEF AuthContext
  <2>3. CASE KeepAuthSession(hash, context, display) /\ ux' = ux
    BY <1>3, <1>5, <2>3
  <2>4. CASE Len(c.bytes) <= context.len
    <3>1. rest \in AuthContext
      BY <1>1, <2>1, <2>4 DEF AuthContext
    <3>2. rest.len = 0 <=> Len(c.bytes) = context.len
      BY <1>1, <2>1, <2>2
    <3>3. text \in Digest
      BY <1>1, SeqMonotonic, ConcatProperties DEF Digest, Absorbed
    <3> HIDE DEF rest
    <3>4. TokenOrRefused(text, rest, display)
      <4>1. CASE IsToken(hash, context.len, context.address)
        BY <1>1, <2>1, <2>2, <2>4, <4>1, TokenGrows DEF TokenOrRefused
      <4>2. CASE RefusedOrigin(hash, context, display)
        <5>1. Len(c.bytes) = 0
          BY <1>1, <2>4, <4>2 DEF RefusedOrigin
        <5>2. c.bytes = << >>
          BY <1>1, <5>1, EmptySeq
        <5>3. text = hash
          BY <5>2, ConcatEmptySeq DEF Digest
        <5>4. QED
          BY <1>1, <2>2, <3>2, <4>2, <5>1, <5>3 DEF TokenOrRefused, RefusedOrigin
      <4>3. QED
        BY <1>5, <4>1, <4>2 DEF TokenOrRefused
    <3> HIDE DEF text
    <3>5. \/ KeepAuthSession(hash, context, display) /\ ux' = ux
          \/ KeepAuthSession(text, rest, display) /\ ux' = ux
          \/ Len(c.bytes) = context.len /\ SignAuthToken(text, rest, display, fault)
      BY <1>1, <1>5, <2>1, <2>4 DEF AbsorbToken, Throw, ReplyWith, rest, text
    <3>6. QED
      BY <1>3, <1>4, <2>3, <3>1, <3>2, <3>3, <3>4, <3>5
  <2>5. QED
    BY <1>1, <1>5, <2>1, <2>3, <2>4 DEF AbsorbToken, Throw, ReplyWith
<1>6. CASE FirstTokenChunk(c, fault)
  <2> DEFINE hash == StartedAuthHash(c.len, c.address, fault)
             context == [CleanContext(auth_context) EXCEPT !.len = c.len, !.address = c.address]
             display == update_token_display_data(c.bytes)
  <2>1. fault \notin AuthStartFaults \cup {"public_key"}
    BY DEF TokensAreStarted
  <2>2. hash = <<Prepend, Length(c.len + BECH32_ADDRESS_LEN), Bech32(c.address)>>
    BY <2>1 DEF StartedAuthHash, AuthStartFaults, AnnouncedLength
  <2>3. hash \in Digest
    BY <1>1, <1>2, Started
  <2>4. context \in AuthContext /\ context.len = c.len /\ context.address = c.address
    BY <1>1, <1>2, EmptySeq DEF CleanContext, AuthContext, Digest
  <2>5. ~c.short /\ AbsorbToken(hash, context, display, c.bytes, fault)
    BY <1>6, <2>1 DEF HeadersAreWhole, FirstTokenChunk
  <2> HIDE DEF context, display, hash
  <2>6. IsToken(hash, context.len, context.address)
    <3>1. BECH32_ADDRESS_LEN \in Nat /\ Len(hash) = 3
      BY <2>2, AuthTokenAssumption
    <3>2. c.len + (Len(hash) - 3) + BECH32_ADDRESS_LEN = c.len + BECH32_ADDRESS_LEN
      BY <1>1, <3>1
    <3>3. Len(hash) \in 3 .. Len(hash) /\ \A i \in 4 .. Len(hash) : FALSE
      BY <3>1
    <3>4. QED
      BY <2>2, <2>4, <3>2, <3>3 DEF IsToken, Account
  <2>7. QED
    BY <1>5, <2>3, <2>4, <2>5, <2>6 DEF TokenOrRefused
<1>7. CASE NextTokenChunk(c, fault)
  <2>1. ASSUME NEW sw, RefusedToken(sw)
        PROVE  Accounted
    BY <2>1 DEF RefusedToken, Throw, ReplyWith, OpenToken, TokenOrRefused, RefusedOrigin,
                compute_token_display
  <2>2. QED
    BY <1>2, <1>5, <1>7, <2>1 DEF NextTokenChunk, Continuing, OpenToken
<1>8. QED
  BY <1>6, <1>7 DEF handle_auth_token

(* A command keeps the account of the token.                               *)
LEMMA ReceiveKeepsToken ==
    ASSUME TypeOK, LinkInv, TokenInv, TokensAreStarted, HeadersAreWhole, NoMessages,
           NEW c \in Commands, NEW fault \in CxFaults, Receive(c, fault)
    PROVE  TokenInv'
<1>1. ux = "menu"
  BY Screens DEF Receive, LinkInv, InsideExchange
<1>2. MessagesAreStarted
  BY DEF TokensAreStarted, MessagesAreStarted, AuthStartFaults, StartFaults
<1>3. CASE AuthTokenCommand(c, fault)
  BY <1>1, <1>3, TokenAccount DEF AuthTokenCommand, TokenInv, ReviewedToken
<1>4. CASE SignTxHashCommand(c, fault)
  <2>1. auth_context' = auth_context /\ auth_display' = auth_display
    BY <1>4 DEF SignTxHashCommand
  <2>2. /\ ux' # "auth_token" /\ ux' # "sign_msg"
        /\ \/ app_state' = app_state /\ sha3_context' = sha3_context
           \/ app_state' # "SIGNING_MESSAGE"
    BY <1>1, <1>2, <1>4, TransactionEndsMessage DEF SignTxHashCommand
  <2>3. QED
    BY <2>1, <2>2 DEF TokenInv, OpenToken, ReviewedToken, TokenOrRefused, RefusedOrigin,
                      compute_token_display
<1>5. CASE ProvideEsdtCommand(c, fault) \/ AddressCommand(c, fault) \/ handle_other(c)
  <2>1. /\ ux' \in {"menu", "address"} /\ app_state' = app_state /\ sha3_context' = sha3_context
        /\ auth_context' = auth_context /\ auth_display' = auth_display
    BY <1>1, <1>5 DEF ProvideEsdtCommand, handle_provide_ESDT_info, AddressCommand,
           handle_set_address, handle_get_address, handle_other, globals, contexts,
           Throw, ReplyWith, ShowReview
  <2>2. QED
    BY <2>1 DEF TokenInv, OpenToken, ReviewedToken, TokenOrRefused, RefusedOrigin,
                compute_token_display
<1>6. QED
  BY <1>3, <1>4, <1>5 DEF Receive, handle_apdu, NoMessages, SignMsgCommand

(* Every step keeps the account of the token.                              *)
LEMMA TokenStep ==
    ASSUME TypeOK, LinkInv, TokenInv, TokensAreStarted, HeadersAreWhole, NoMessages, [Next]_vars
    PROVE  TokenInv'
<1>1. CASE Launch \/ Unplug \/ Quit \/ PowerOff
  <2>1. ux' = "menu" /\ app_state' = "IDLE"
    BY <1>1 DEF Launch, Unplug, Initialise, init_msg_context, Quit, PowerOff, Stop
  <2>2. QED
    BY <2>1 DEF TokenInv, OpenToken, ReviewedToken
<1>2. ASSUME NEW c \in Commands, NEW fault \in CxFaults, Receive(c, fault)
      PROVE  TokenInv'
  BY <1>2, ReceiveKeepsToken
<1>3. ASSUME UNCHANGED <<app_state, sha3_context, contexts>>, ux' \in {ux, "menu"}
      PROVE  TokenInv'
  BY <1>3 DEF TokenInv, OpenToken, ReviewedToken, TokenOrRefused, RefusedOrigin, CompleteToken,
              compute_token_display, contexts
<1>4. CASE IoExchange \/ Approve \/ Reject
  BY <1>3, <1>4 DEF IoExchange, Approve, Reject, send_response, globals
<1>5. ASSUME NEW enabled \in BOOLEAN, setting_contract_data_change(enabled)
      PROVE  TokenInv'
  BY <1>3, <1>5 DEF setting_contract_data_change, output
<1>6. CASE UNCHANGED vars
  BY <1>3, <1>6 DEF vars, globals, output
<1>7. QED
  BY <1>1, <1>2, <1>4, <1>5, <1>6 DEF Next

(* The bytes of an open token and those that remain add up.                *)
LEMMA TokenInvariant ==
    ASSUME TokensAreStarted, HeadersAreWhole, NoMessages
    PROVE  Spec => []TokenInv
<1>1. Init => TokenInv
  BY DEF Init, TokenInv, OpenToken, ReviewedToken
<1>2. TypeOK /\ LinkInv /\ TokenInv /\ [Next]_vars => TokenInv'
  BY TokenStep
<1>3. QED
  BY <1>1, <1>2, TypeCorrect, LinkInvariant, PTL DEF Spec

(* The token under review is complete: its hash is over the prefix, the    *)
(* announced length, the address in the reply and as many bytes as were    *)
(* announced (handle_auth_token), for hosts that sign no messages and      *)
(* whose first chunks have their header, if no call that starts a hash     *)
(* fails.                                                                  *)
THEOREM ReviewedTokenIsComplete ==
    ASSUME TokensAreStarted, HeadersAreWhole, NoMessages
    PROVE  Spec => []TokenHasAnnouncedLength
<1>1. TypeOK /\ TokenInv => TokenHasAnnouncedLength
  <2>1. ASSUME TypeOK, TokenInv, ux = "auth_token"
        PROVE  0 + (Len(auth_context.hash) - 3) = Len(auth_context.hash) - 3
    <3>1. Len(auth_context.hash) \in Nat
      BY <2>1, LenProperties DEF TypeOK, SigningTypeOK, AuthContext, Digest
    <3>2. QED
      BY <3>1
  <2>2. QED
    BY <2>1 DEF TokenInv, ReviewedToken, CompleteToken, IsToken, Account, TokenHasAnnouncedLength
<1>2. QED
  BY <1>1, TypeCorrect, TokenInvariant, PTL

(***************************************************************************)
(* The refinement of the signing session.                                  *)
(***************************************************************************)
(* The last item that is not an end of the hash is the last byte.          *)
LEMMA LastOfToken ==
    ASSUME NEW hash \in Digest, NEW n \in 3 .. Len(hash), NEW remaining, NEW holder,
           Account(hash, n, remaining, holder), \A i \in n + 1 .. Len(hash) : hash[i] = CxLast
    PROVE  LastItem(hash) = n
<1> DEFINE I == {i \in 1 .. Len(hash) : hash[i] # CxLast}
<1>1. Len(hash) \in Nat /\ n \in Nat /\ n >= 3
  BY LenProperties DEF Digest
<1>2. hash[n] # CxLast
  <2>1. CASE n = 3
    <3>1. DOMAIN hash[3] = {"address"} /\ DOMAIN CxLast = {"mark"}
      BY DEF Account, Bech32, CxLast
    <3>2. QED
      BY <2>1, <3>1
  <2>2. CASE n > 3
    <3>1. hash[n] \in MessageByte
      BY <1>1, <2>2 DEF Account
    <3>2. DOMAIN hash[n] = {"byte"} /\ DOMAIN CxLast = {"mark"}
      BY <3>1 DEF MessageByte, CxLast
    <3>3. QED
      BY <3>2
  <2>3. QED
    BY <1>1, <2>1, <2>2
<1>3. n \in I /\ \A i \in I : i <= n
  BY <1>1, <1>2
<1>4. LastItem(hash) = IF I # {} THEN Max(I) ELSE 0
  BY DEF LastItem, SelectLastInSeq
<1>5. \A x \in I : (\A y \in I : x >= y) => x = n
  BY <1>1, <1>3
<1>6. \A y \in I : n >= y
  BY <1>1, <1>3
<1> HIDE DEF I
<1>7. Max(I) \in I /\ \A y \in I : Max(I) >= y
  BY <1>3, <1>6 DEF Max
<1>8. QED
  BY <1>3, <1>4, <1>5, <1>7

(* What the abstract session sees of the hash of a token: the bytes up to  *)
(* the first end of the hash.                                              *)
LEMMA TextOfToken ==
    ASSUME NEW hash \in Digest, NEW n \in 3 .. Len(hash), NEW remaining \in Nat, NEW holder,
           Account(hash, n, remaining, holder), \A i \in n + 1 .. Len(hash) : hash[i] = CxLast
    PROVE  /\ SubSeq(hash, 4, LastItem(hash)) \in Seq(MessageByte)
           /\ Len(SubSeq(hash, 4, LastItem(hash))) \in Nat
           /\ Announced(hash, BECH32_ADDRESS_LEN) =
                 remaining + Len(SubSeq(hash, 4, LastItem(hash)))
<1> DEFINE text == SubSeq(hash, 4, n)
<1>1. Len(hash) \in Nat /\ n \in Nat /\ n >= 3
  BY LenProperties DEF Digest
<1>2. LastItem(hash) = n
  BY LastOfToken
<1>3. \A i \in 4 .. n : hash[i] \in MessageByte
  BY DEF Account
<1>4. text \in Seq(MessageByte) /\ Len(text) = IF 4 <= n THEN n - 4 + 1 ELSE 0
  BY <1>1, <1>3, SubSeqProperties
<1> HIDE DEF text
<1>5. Len(text) = n - 3
  <2>1. (IF 4 <= n THEN n - 4 + 1 ELSE 0) = n - 3
    BY <1>1
  <2>2. QED
    BY <1>4, <2>1
<1>6. hash[2].length - BECH32_ADDRESS_LEN = remaining + (n - 3)
  <2>1. hash[2].length = remaining + (n - 3) + BECH32_ADDRESS_LEN
    BY DEF Account, Length
  <2>2. QED
    BY <1>1, <2>1, AuthTokenAssumption
<1>7. QED
  BY <1>1, <1>2, <1>4, <1>5, <1>6 DEF Announced, text

(* An open text is no longer than announced, one under review is complete. *)
TokenSessionOK ==
    /\ TokenPhase \in {"idle", "open", "review"}
    /\ TokenAnnounced \in Nat /\ TokenReceived \in Seq(MessageByte)
    /\ Len(TokenReceived) <= TokenAnnounced
    /\ TokenPhase = "review" => Len(TokenReceived) = TokenAnnounced
    /\ TokenPhase = "idle" => TokenAnnounced = 0 /\ TokenReceived = << >>
    /\ TokenPhase = "review" <=> ux = "auth_token"

(* The account of the token is what the abstract session asks for.         *)
LEMMA TokenSessionFacts ==
    ASSUME TypeOK, TokenInv
    PROVE  TokenSessionOK
<1> USE DEF TokenPhase, SessionPhase
<1>1. /\ sha3_context \in Digest /\ auth_context.hash \in Digest /\ auth_context.len \in Nat
      /\ 0 \in Nat
  BY DEF TypeOK, SigningTypeOK, AuthContext
<1>2. ASSUME NEW hash \in Digest, NEW remaining \in Nat, NEW holder,
             IsToken(hash, remaining, holder)
      PROVE  /\ SubSeq(hash, 4, LastItem(hash)) \in Seq(MessageByte)
             /\ Len(SubSeq(hash, 4, LastItem(hash))) \in Nat
             /\ Announced(hash, BECH32_ADDRESS_LEN) =
                   remaining + Len(SubSeq(hash, 4, LastItem(hash)))
  <2>1. Len(hash) \in Nat
    BY LenProperties DEF Digest
  <2>2. Len(hash) \in 3 .. Len(hash) /\ \A i \in Len(hash) + 1 .. Len(hash) : hash[i] = CxLast
    BY <1>2, <2>1 DEF IsToken, Account
  <2>3. QED
    BY <1>2, <2>2, TextOfToken DEF IsToken
<1>3. CASE ux = "auth_token"
  <2> DEFINE text == SubSeq(auth_context.hash, 4, LastItem(auth_context.hash))
  <2>1. IsToken(auth_context.hash, 0, auth_context.address)
    BY <1>3 DEF TokenInv, ReviewedToken, CompleteToken
  <2>2. TokenAnnounced = Announced(auth_context.hash, BECH32_ADDRESS_LEN) /\ TokenReceived = text
    BY <1>3 DEF TokenAnnounced, TokenReceived, TokenHash
  <2>3. text \in Seq(MessageByte) /\ Len(text) \in Nat
        /\ Announced(auth_context.hash, BECH32_ADDRESS_LEN) = 0 + Len(text)
    BY <1>1, <1>2, <2>1
  <2> HIDE DEF text
  <2>4. QED
    BY <1>3, <2>2, <2>3 DEF TokenSessionOK
<1>4. CASE ux # "auth_token" /\ app_state = "SIGNING_MESSAGE"
  <2> DEFINE text == SubSeq(sha3_context, 4, LastItem(sha3_context))
  <2>1. TokenOrRefused(sha3_context, auth_context, auth_display)
    BY <1>4 DEF TokenInv, OpenToken
  <2>2. TokenAnnounced = Announced(sha3_context, BECH32_ADDRESS_LEN) /\ TokenReceived = text
    BY <1>4 DEF TokenAnnounced, TokenReceived, TokenHash
  <2>3. text \in Seq(MessageByte) /\ Len(text) \in Nat
        /\ Announced(sha3_context, BECH32_ADDRESS_LEN) = auth_context.len + Len(text)
    <3>1. CASE IsToken(sha3_context, auth_context.len, auth_context.address)
      BY <1>1, <1>2, <3>1
    <3>2. CASE RefusedOrigin(sha3_context, auth_context, auth_display)
      <4>1. auth_context.len = 0 /\ IsFinished(sha3_context, auth_context.address)
        BY <3>2 DEF RefusedOrigin
      <4>2. QED
        BY <1>1, <4>1, TextOfToken DEF IsFinished
    <3>3. QED
      BY <2>1, <3>1, <3>2 DEF TokenOrRefused
  <2> HIDE DEF text
  <2>4. QED
    BY <1>1, <1>4, <2>2, <2>3 DEF TokenSessionOK
<1>5. CASE ux # "auth_token" /\ app_state # "SIGNING_MESSAGE"
  BY <1>5, EmptySeq DEF TokenSessionOK, TokenAnnounced, TokenReceived
<1>6. QED
  BY <1>3, <1>4, <1>5

(* A step that releases nothing, from a session that is not under review,  *)
(* is a step of the abstract session.                                      *)
LEMMA NoTokenReleasedStep ==
    ASSUME TokenSessionOK, TokenSessionOK', ux # "auth_token",
           TokenReleased' \in {TokenReleased, NothingReleased}
    PROVE  TokenSession!Next
<1>1. CASE TokenPhase' = "idle"
  BY <1>1 DEF TokenSessionOK, TokenSession!Next, TokenSession!Abandon, TokenSession!Close,
              TokenSession!NoneReleased
<1>2. CASE TokenPhase' # "idle"
  BY <1>2 DEF TokenSessionOK, TokenSession!Next, TokenSession!Chunk, TokenSession!NoneReleased
<1>3. QED
  BY <1>1, <1>2

(* An answer without a signature over a token releases nothing.            *)
LEMMA NoTokenReleasedBy ==
    /\ answer' = NoReply => TokenReleased' = NothingReleased
    /\ answer' = answer => TokenReleased' = TokenReleased
    /\ ~HasSignature(answer') => TokenReleased' = NothingReleased
BY Screens DEF TokenReleased, ReleasedText, HasSignature

(* What the user approves of a token is what is under review.              *)
LEMMA ApprovedToken ==
    ASSUME TypeOK, TokenInv, ux = "auth_token", Approve
    PROVE  TokenReleased' = [announced |-> TokenAnnounced, text |-> TokenReceived]
<1> DEFINE hash == auth_context.hash
<1>1. answer' = [sw |-> "MSG_OK", data |-> TokenData(auth_context.address, auth_context.signature)]
  BY DEF Approve, send_response, ReviewResult, AuthTokenResult
<1>2. HasSignature(answer') /\ answer'.data.signature = auth_context.signature
  BY <1>1 DEF TokenData, HasSignature
<1>3. auth_context.signature.hash = hash /\ IsToken(hash, 0, auth_context.address)
  BY DEF TokenInv, ReviewedToken, CompleteToken
<1>4. hash \in Digest /\ Len(hash) \in Nat
  BY LenProperties DEF TypeOK, SigningTypeOK, AuthContext, Digest
<1>5. TokenAnnounced = Announced(hash, BECH32_ADDRESS_LEN)
      /\ TokenReceived = SubSeq(hash, 4, LastItem(hash))
  BY DEF TokenAnnounced, TokenReceived, TokenHash, TokenPhase, SessionPhase
<1> HIDE DEF hash
<1>6. IsMessageHash(hash)
  BY <1>3, <1>4 DEF IsToken, Account, IsMessageHash
<1>7. LastItem(hash) = Len(hash)
  <2>1. /\ Len(hash) \in 3 .. Len(hash) /\ Account(hash, Len(hash), 0, auth_context.address)
        /\ \A i \in Len(hash) + 1 .. Len(hash) : hash[i] = CxLast
    BY <1>3, <1>4 DEF IsToken, Account
  <2>2. QED
    BY <1>4, <2>1, LastOfToken
<1>8. QED
  BY <1>2, <1>3, <1>5, <1>6, <1>7 DEF TokenReleased, ReleasedText

(* The approval of a transaction or an address releases no token.          *)
LEMMA ApprovedNoToken ==
    ASSUME TokenInv, DomainSeparated, LinkInv, ux # "auth_token", Approve
    PROVE  TokenReleased' = NothingReleased
<1>1. ux \in {"sign_tx", "esdt", "address"} /\ answer' = [sw |-> "MSG_OK", data |-> ReviewResult]
  BY DEF Approve, send_response, LinkInv, InsideExchange, Review, TokenInv
<1>2. CASE ux = "address"
  BY <1>1, <1>2 DEF ReviewResult, AddressResult, AddressData, TokenReleased, ReleasedText,
                    HasSignature
<1>3. CASE ux \in {"sign_tx", "esdt"}
  <2>1. answer'.data.signature = tx_signature
    BY <1>1, <1>3 DEF ReviewResult, TxResult, SignatureData
  <2>2. NoPrepend(tx_signature.hash)
    BY <1>3 DEF DomainSeparated, ReviewedSignature
  <2>3. ~IsMessageHash(tx_signature.hash)
    BY <2>2 DEF NoPrepend, IsMessageHash
  <2>4. QED
    BY <2>1, <2>3 DEF TokenReleased, ReleasedText
<1>4. QED
  BY <1>1, <1>2, <1>3

(* Away from its review, a token session is left by steps that keep it,    *)
(* and everything that can follow its review ends it.                      *)
LEMMA TokenSessionStep ==
    ASSUME TypeOK, TokenInv, TokenSessionOK, TokenSessionOK', LinkInv, DomainSeparated, [Next]_vars
    PROVE  [TokenSession!Next]_<<TokenPhase, TokenAnnounced, TokenReceived, TokenReleased>>
<1> DEFINE seen == <<TokenPhase, TokenAnnounced, TokenReceived, TokenReleased>>
           Implemented == TokenSession!Next \/ UNCHANGED seen
<1>1. ASSUME ux = "auth_token", ux' = "menu", app_state' \in {app_state, "IDLE"}
      PROVE  TokenPhase = "review" /\ TokenSession!Close
  <2>1. TokenPhase' = "idle"
    BY <1>1 DEF TokenInv, ReviewedToken, TokenPhase, SessionPhase
  <2>2. QED
    BY <1>1, <2>1 DEF TokenSessionOK, TokenSession!Close
<1>2. ASSUME ux = "auth_token" => ux' = "menu" /\ app_state' \in {app_state, "IDLE"},
             TokenReleased' \in {TokenReleased, NothingReleased}
      PROVE  Implemented
  <2>1. CASE ux = "auth_token"
    BY <1>1, <1>2, <2>1
       DEF TokenSession!Next, TokenSession!Abandon, TokenSession!NoneReleased
  <2>2. CASE ux # "auth_token"
    BY <1>2, <2>2, NoTokenReleasedStep
  <2>3. QED
    BY <2>1, <2>2
<1>3. CASE Launch \/ Unplug \/ Quit \/ PowerOff
  <2>1. ux' = "menu" /\ app_state' = "IDLE" /\ answer' = NoReply
    BY <1>3 DEF Launch, Unplug, Initialise, init_msg_context, Quit, PowerOff, Stop
  <2>2. QED
    BY <1>2, <2>1, NoTokenReleasedBy
<1>4. ASSUME NEW c \in Commands, NEW fault \in CxFaults, Receive(c, fault)
      PROVE  Implemented
  <2>1. ux # "auth_token" /\ answer' = NoReply
    BY <1>4, Screens DEF Receive, LinkInv, InsideExchange, Review
  <2>2. QED
    BY <1>2, <2>1, NoTokenReleasedBy
<1>5. ASSUME UNCHANGED <<app_state, sha3_context, contexts, ux, answer>>
      PROVE  UNCHANGED seen
  BY <1>5 DEF TokenPhase, SessionPhase, TokenAnnounced, TokenReceived, TokenHash,
              TokenReleased, ReleasedText, HasSignature, contexts
<1>6. CASE IoExchange
  <2>1. UNCHANGED <<app_state, sha3_context, contexts, ux>>
    BY <1>6 DEF IoExchange, globals
  <2>2. CASE flags
    BY <1>5, <1>6, <2>1, <2>2 DEF IoExchange
  <2>3. CASE ~flags
    <3>1. ux # "auth_token"
      BY <1>6, <2>3, Screens DEF IoExchange, LinkInv, BeforeExchange, Review
    <3>2. ~HasSignature(answer')
      BY <1>6, <2>3 DEF IoExchange, LinkInv
    <3>3. QED
      BY <1>2, <3>1, <3>2, NoTokenReleasedBy
  <2>4. QED
    BY <2>2, <2>3
<1>7. CASE Approve
  <2>1. ux' = "menu" /\ app_state' = app_state
    BY <1>7 DEF Approve, send_response, globals
  <2>2. CASE ux = "auth_token"
    BY <1>1, <1>7, <2>1, <2>2, ApprovedToken DEF TokenSession!Next, TokenSession!Approve
  <2>3. CASE ux # "auth_token"
    BY <1>2, <1>7, <2>3, ApprovedNoToken
  <2>4. QED
    BY <2>2, <2>3
<1>8. CASE Reject
  <2>1. ux' = "menu" /\ app_state' = app_state /\ ~HasSignature(answer')
    BY <1>8 DEF Reject, send_response, globals, HasSignature, NoData
  <2>2. QED
    BY <1>2, <2>1, NoTokenReleasedBy
<1>9. ASSUME NEW enabled \in BOOLEAN, setting_contract_data_change(enabled)
       PROVE  Implemented
  BY <1>5, <1>9 DEF setting_contract_data_change, output, transport
<1>10. CASE UNCHANGED vars
  BY <1>5, <1>10 DEF vars, globals, output, transport
<1>11. QED
  BY <1>3, <1>4, <1>6, <1>7, <1>8, <1>9, <1>10 DEF Next

(* For hosts that sign no messages and whose first chunks have their       *)
(* header, and if no call that starts a hash fails, the device implements  *)
(* the session: the token signature released is over the text that was     *)
(* announced, was completely received and was under review when the user   *)
(* approved it (handle_auth_token, send_response).                         *)
THEOREM ImplementsTokenSession ==
    ASSUME TokensAreStarted, HeadersAreWhole, NoMessages
    PROVE  Spec => TokenSessionSpec
<1>1. Init => TokenSession!Init
  BY NoTokenReleasedBy, Screens
     DEF Init, TokenSession!Init, TokenPhase, SessionPhase, TokenAnnounced,
         TokenReceived, TokenReleased, ReleasedText
<1>2. TypeOK /\ TokenInv /\ TokenSessionOK /\ TokenSessionOK' /\ LinkInv /\ DomainSeparated
      /\ [Next]_vars
      => [TokenSession!Next]_<<TokenPhase, TokenAnnounced, TokenReceived, TokenReleased>>
  BY TokenSessionStep
<1>3. HashesAreStarted
  BY DEF TokensAreStarted, HashesAreStarted, AuthStartFaults
<1>4. Spec => []DomainSeparated
  BY <1>3, MessagesAreNotTransactions
<1>5. TypeOK /\ TokenInv => TokenSessionOK
  BY TokenSessionFacts
<1>6. QED
  BY <1>1, <1>2, <1>4, <1>5, TypeCorrect, TokenInvariant, LinkInvariant, PTL
     DEF Spec, TokenSessionSpec, TokenSession!Spec
(***************************************************************************)
(* What is shown of the token.                                             *)
(***************************************************************************)
IsReading(d, start, bytes, k) ==
    d = [n \in 0 .. k |-> IF n = 0 THEN start ELSE TokenByte(d[n - 1], bytes[n].byte)]

(* The reader of tokens has a state after each number of bytes, its start  *)
(* and what each byte makes of it (handle_auth_token_data).                *)
LEMMA ReadingSteps ==
    ASSUME NEW start, NEW bytes, Len(bytes) \in Nat
    PROVE  /\ TokenReadAfter(start, bytes)[0] = start
           /\ \A n \in Nat : n + 1 <= Len(bytes) =>
                 TokenReadAfter(start, bytes)[n + 1] =
                    TokenByte(TokenReadAfter(start, bytes)[n], bytes[n + 1].byte)
<1> DEFINE S == {k \in Nat : \E d : IsReading(d, start, bytes, k)}
           after == TokenReadAfter(start, bytes)
<1>1. 0 \in S
  <2>1. IsReading([n \in 0 .. 0 |-> start], start, bytes, 0)
    BY DEF IsReading
  <2>2. QED
    BY <2>1
<1>2. ASSUME NEW k \in Nat, k \in S
      PROVE  k + 1 \in S
  <2>1. PICK d : IsReading(d, start, bytes, k)
    BY <1>2
  <2> DEFINE e == [n \in 0 .. k + 1 |->
                     IF n = k + 1 THEN TokenByte(d[k], bytes[k + 1].byte) ELSE d[n]]
  <2>2. ASSUME NEW n \in 0 .. k + 1
        PROVE  e[n] = IF n = 0 THEN start ELSE TokenByte(e[n - 1], bytes[n].byte)
    <3>1. CASE n = k + 1
      BY <3>1
    <3>2. CASE n = 0
      BY <2>1, <3>2 DEF IsReading
    <3>3. CASE n # 0 /\ n # k + 1
      <4>1. n \in 0 .. k /\ n - 1 \in 0 .. k /\ n - 1 # k + 1
        BY <3>3
      <4>2. e[n] = d[n] /\ e[n - 1] = d[n - 1]
        BY <3>3, <4>1
      <4>3. d[n] = TokenByte(d[n - 1], bytes[n].byte)
        BY <2>1, <3>3, <4>1 DEF IsReading
      <4>4. QED
        BY <3>3, <4>2, <4>3
    <3>4. QED
      BY <3>1, <3>2, <3>3
  <2>3. e = [n \in 0 .. k + 1 |-> IF n = 0 THEN start ELSE TokenByte(e[n - 1], bytes[n].byte)]
    <3>1. e = [n \in 0 .. k + 1 |-> e[n]]
      OBVIOUS
    <3> HIDE DEF e
    <3>2. QED
      BY <2>2, <3>1
  <2> HIDE DEF e
  <2>4. IsReading(e, start, bytes, k + 1)
    BY <2>3 DEF IsReading
  <2>5. QED
    BY <2>4
<1>3. Len(bytes) \in S
  <2> HIDE DEF S
  <2>1. QED
    BY <1>1, <1>2, SetInduction
<1>4. IsReading(after, start, bytes, Len(bytes))
  BY <1>3 DEF IsReading, TokenReadAfter
<1> HIDE DEF after
<1>5. after[0] = start
  BY <1>4 DEF IsReading
<1>6. ASSUME NEW n \in Nat, n + 1 <= Len(bytes)
      PROVE  after[n + 1] = TokenByte(after[n], bytes[n + 1].byte)
  <2>1. n + 1 \in 0 .. Len(bytes) /\ n + 1 # 0 /\ (n + 1) - 1 = n
    BY <1>6
  <2>2. QED
    BY <1>4, <2>1 DEF IsReading
<1>7. QED
  BY <1>5, <1>6 DEF after

DisplayField == {"dot_count", "buffer", "origin", "ttl", "stop", "token"}

(***************************************************************************)
(* The bytes of a text without its zero bytes.                             *)
(***************************************************************************)
IsLetters(letters, text, k) ==
    letters = [n \in 0 .. k |-> IF n = 0 THEN << >>
                                ELSE IF text[n].byte = Nul THEN letters[n - 1]
                                     ELSE Append(letters[n - 1], text[n].byte)]

(* There are such bytes for the beginning of every text, and each byte     *)
(* adds itself as the reader's buffer does (handle_auth_token_data).       *)
LEMMA LettersSteps ==
    ASSUME NEW text, Len(text) \in Nat
    PROVE  /\ LettersAfter(text)[0] = << >>
           /\ \A n \in Nat : n + 1 <= Len(text) =>
                 LettersAfter(text)[n + 1] = strcat(LettersAfter(text)[n], text[n + 1].byte)
<1> DEFINE S == {k \in Nat : \E letters : IsLetters(letters, text, k)}
           after == LettersAfter(text)
<1>1. 0 \in S
  <2>1. IsLetters([n \in 0 .. 0 |-> << >>], text, 0)
    BY DEF IsLetters
  <2>2. QED
    BY <2>1
<1>2. ASSUME NEW k \in Nat, k \in S
      PROVE  k + 1 \in S
  <2>1. PICK d : IsLetters(d, text, k)
    BY <1>2
  <2> DEFINE e == [n \in 0 .. k + 1 |-> IF n = k + 1 THEN strcat(d[k], text[k + 1].byte) ELSE d[n]]
  <2>2. ASSUME NEW n \in 0 .. k + 1
        PROVE  e[n] = IF n = 0 THEN << >> ELSE strcat(e[n - 1], text[n].byte)
    <3>1. CASE n = k + 1
      BY <3>1
    <3>2. CASE n = 0
      BY <2>1, <3>2 DEF IsLetters
    <3>3. CASE n # 0 /\ n # k + 1
      <4>1. n \in 0 .. k /\ n - 1 \in 0 .. k /\ n - 1 # k + 1
        BY <3>3
      <4>2. e[n] = d[n] /\ e[n - 1] = d[n - 1]
        BY <3>3, <4>1
      <4>3. d[n] = strcat(d[n - 1], text[n].byte)
        BY <2>1, <3>3, <4>1 DEF IsLetters, strcat
      <4>4. QED
        BY <3>3, <4>2, <4>3
    <3>4. QED
      BY <3>1, <3>2, <3>3
  <2>3. e = [n \in 0 .. k + 1 |-> IF n = 0 THEN << >> ELSE strcat(e[n - 1], text[n].byte)]
    <3>1. e = [n \in 0 .. k + 1 |-> e[n]]
      OBVIOUS
    <3> HIDE DEF e
    <3>2. QED
      BY <2>2, <3>1
  <2> HIDE DEF e
  <2>4. IsLetters(e, text, k + 1)
    BY <2>3 DEF IsLetters, strcat
  <2>5. QED
    BY <2>4
<1>3. Len(text) \in S
  <2> HIDE DEF S
  <2>1. QED
    BY <1>1, <1>2, SetInduction
<1>4. IsLetters(after, text, Len(text))
  BY <1>3 DEF IsLetters, LettersAfter
<1> HIDE DEF after
<1>5. after[0] = << >>
  BY <1>4 DEF IsLetters
<1>6. ASSUME NEW n \in Nat, n + 1 <= Len(text)
      PROVE  after[n + 1] = strcat(after[n], text[n + 1].byte)
  <2>1. n + 1 \in 0 .. Len(text) /\ n + 1 # 0 /\ (n + 1) - 1 = n
    BY <1>6
  <2>2. QED
    BY <1>4, <2>1 DEF IsLetters, strcat
<1>7. QED
  BY <1>5, <1>6 DEF after

(* The bytes of a beginning depend on nothing behind it.                   *)
LEMMA LettersAgree ==
    ASSUME NEW text, Len(text) \in Nat, NEW long, Len(long) \in Nat, NEW m \in Nat,
           m <= Len(text), m <= Len(long), \A i \in 1 .. m : long[i] = text[i]
    PROVE  LettersAfter(long)[m] = LettersAfter(text)[m]
<1> DEFINE S == {n \in Nat : n <= m => LettersAfter(long)[n] = LettersAfter(text)[n]}
<1>1. 0 \in S
  BY LettersSteps
<1>2. ASSUME NEW n \in Nat, n \in S
      PROVE  n + 1 \in S
  <2>1. SUFFICES ASSUME n + 1 <= m
                 PROVE  LettersAfter(long)[n + 1] = LettersAfter(text)[n + 1]
    OBVIOUS
  <2>2. n + 1 <= Len(text) /\ n + 1 <= Len(long) /\ long[n + 1] = text[n + 1]
    BY <2>1
  <2>3. LettersAfter(long)[n] = LettersAfter(text)[n]
    BY <1>2, <2>1
  <2>4. LettersAfter(text)[n + 1] = strcat(LettersAfter(text)[n], text[n + 1].byte)
    BY <2>2, LettersSteps
  <2>5. LettersAfter(long)[n + 1] = strcat(LettersAfter(long)[n], long[n + 1].byte)
    BY <2>2, LettersSteps
  <2>6. QED
    BY <2>2, <2>3, <2>4, <2>5
<1>3. m \in S
  <2> HIDE DEF S
  <2>1. QED
    BY <1>1, <1>2, SetInduction
<1>4. QED
  BY <1>3

(***************************************************************************)
(* The origin: the bytes before the first dot of the first n.              *)
(***************************************************************************)
NoDot(text, n) == \A j \in 1 .. n : text[j].byte # Dot
OriginIn(origin, text, n) ==
    \E m \in 1 .. n :
        text[m].byte = Dot /\ NoDot(text, m - 1) /\ origin = LettersAfter(text)[m - 1]

(* Before the first dot the buffer holds what was read.                    *)
ReadSoFar(d, text, n) ==
    /\ DOMAIN d = DisplayField /\ d.dot_count \in Nat /\ d.stop \in BOOLEAN
    /\ d.origin = << >> \/ OriginIn(d.origin, text, n)
    /\ ~d.stop /\ d.dot_count = 0 => NoDot(text, n) /\ d.buffer = LettersAfter(text)[n]

(* A dot moves the buffer to the origin or to the ttl, gives up, or is     *)
(* only counted (move_value_from_buffer).                                  *)
LEMMA DotMoves ==
    ASSUME NEW d, DOMAIN d = DisplayField, d.stop \in BOOLEAN, d.dot_count \in Nat
    PROVE  /\ DOMAIN TokenDot(d) = DisplayField
           /\ TokenDot(d).dot_count = d.dot_count /\ TokenDot(d).stop \in BOOLEAN
           /\ TokenDot(d).origin \in
                 {<< >>, d.origin} \cup (IF d.dot_count = 1 THEN {d.buffer} ELSE {})
<1> DEFINE next == TokenDot(d)
<1>1. CASE d.dot_count = 1
  <2>1. \/ next = [d EXCEPT !.stop = TRUE, !.origin = << >>, !.buffer = << >>]
        \/ next = [d EXCEPT !.origin = d.buffer, !.buffer = << >>]
    BY <1>1 DEF TokenDot, MoveOrigin
  <2> HIDE DEF next
  <2>2. /\ DOMAIN next = DisplayField /\ next.dot_count = d.dot_count /\ next.stop \in BOOLEAN
        /\ next.origin \in {<< >>, d.buffer}
    BY <2>1 DEF DisplayField
  <2>3. QED
    BY <1>1, <2>2 DEF next
<1>2. CASE d.dot_count = 3
  <2>1. \/ next = [d EXCEPT !.stop = TRUE, !.ttl = << >>, !.buffer = << >>]
        \/ next = [d EXCEPT !.ttl = d.buffer, !.buffer = << >>]
    BY <1>2 DEF TokenDot, MoveTtl
  <2> HIDE DEF next
  <2>2. /\ DOMAIN next = DisplayField /\ next.dot_count = d.dot_count /\ next.stop \in BOOLEAN
        /\ next.origin = d.origin
    BY <2>1 DEF DisplayField
  <2>3. QED
    BY <2>2 DEF next
<1>3. CASE d.dot_count \notin {1, 3}
  BY <1>3 DEF TokenDot
<1>4. QED
  BY <1>1, <1>2, <1>3

(* One more byte keeps the origin that of the text (handle_auth_token_data,*)
(* move_value_from_buffer).                                                *)
LEMMA ByteIsRead ==
    ASSUME NEW text \in Seq(MessageByte), NEW n \in Nat, n + 1 <= Len(text),
           NEW d, ReadSoFar(d, text, n)
    PROVE  ReadSoFar(TokenByte(d, text[n + 1].byte), text, n + 1)
<1> DEFINE b == text[n + 1].byte
           next == TokenByte(d, b)
<1> SUFFICES ReadSoFar(next, text, n + 1)
  OBVIOUS
<1>1. /\ DOMAIN d = DisplayField /\ d.dot_count \in Nat /\ d.stop \in BOOLEAN
      /\ d.origin = << >> \/ OriginIn(d.origin, text, n)
  BY DEF ReadSoFar
<1>2. \A origin : OriginIn(origin, text, n) => OriginIn(origin, text, n + 1)
  BY DEF OriginIn
<1>3. ASSUME d.stop
      PROVE  ReadSoFar(next, text, n + 1)
  <2>1. next = d
    BY <1>3 DEF TokenByte
  <2> HIDE DEF next
  <2>2. QED
    BY <1>1, <1>2, <1>3, <2>1 DEF ReadSoFar
<1>4. ASSUME ~d.stop, b = Dot
      PROVE  ReadSoFar(next, text, n + 1)
  <2> DEFINE dotted == [d EXCEPT !.dot_count = @ + 1]
  <2>1. next = TokenDot(dotted)
    BY <1>4 DEF TokenByte
  <2>2. /\ DOMAIN dotted = DisplayField /\ dotted.dot_count = d.dot_count + 1
        /\ dotted.stop = d.stop /\ dotted.origin = d.origin /\ dotted.buffer = d.buffer
    BY <1>1 DEF DisplayField
  <2> HIDE DEF next, dotted
  <2>3. /\ DOMAIN TokenDot(dotted) = DisplayField
        /\ TokenDot(dotted).dot_count = dotted.dot_count /\ TokenDot(dotted).stop \in BOOLEAN
        /\ TokenDot(dotted).origin \in
              {<< >>, dotted.origin} \cup (IF dotted.dot_count = 1 THEN {dotted.buffer} ELSE {})
    BY <1>1, <2>2, DotMoves
  <2>4. ASSUME dotted.dot_count = 1
        PROVE  OriginIn(dotted.buffer, text, n + 1)
    <3>1. d.dot_count = 0
      BY <1>1, <2>2, <2>4
    <3>2. NoDot(text, n) /\ dotted.buffer = LettersAfter(text)[n]
      BY <1>4, <2>2, <3>1 DEF ReadSoFar
    <3>3. n + 1 \in 1 .. n + 1 /\ (n + 1) - 1 = n
      OBVIOUS
    <3>4. QED
      BY <1>4, <3>2, <3>3 DEF OriginIn
  <2>5. next.origin = << >> \/ OriginIn(next.origin, text, n + 1)
    BY <1>1, <1>2, <2>1, <2>2, <2>3, <2>4
  <2>6. next.dot_count \in Nat /\ next.dot_count # 0
    BY <1>1, <2>1, <2>2, <2>3
  <2>7. QED
    BY <2>1, <2>3, <2>5, <2>6 DEF ReadSoFar
<1>5. ASSUME ~d.stop, b # Dot
      PROVE  ReadSoFar(next, text, n + 1)
  <2>1. /\ DOMAIN next = DisplayField /\ next.dot_count = d.dot_count /\ next.stop \in BOOLEAN
        /\ next.origin = d.origin
        /\ ~next.stop /\ d.dot_count = 0 => next.buffer = strcat(d.buffer, b)
    <3>1. CASE d.dot_count = 1
      BY <1>1, <1>5, <3>1 DEF TokenByte, DisplayField
    <3>2. CASE d.dot_count # 1
      <4>1. next = IF Len(d.buffer) >= AUTH_TOKEN_ENCODED_ORIGIN_MAX_SIZE - 2
                   THEN [d EXCEPT !.stop = TRUE] ELSE [d EXCEPT !.buffer = strcat(@, b)]
        BY <1>5, <3>2 DEF TokenByte
      <4> HIDE DEF next
      <4>2. QED
        BY <1>1, <4>1 DEF DisplayField
    <3>3. QED
      BY <3>1, <3>2
  <2>2. next.origin = << >> \/ OriginIn(next.origin, text, n + 1)
    BY <1>1, <1>2, <2>1
  <2>3. ASSUME ~next.stop, d.dot_count = 0
        PROVE  NoDot(text, n + 1) /\ next.buffer = LettersAfter(text)[n + 1]
    <3>1. NoDot(text, n) /\ d.buffer = LettersAfter(text)[n]
      BY <1>5, <2>3 DEF ReadSoFar
    <3>2. NoDot(text, n + 1)
      BY <1>5, <3>1 DEF NoDot
    <3>3. strcat(LettersAfter(text)[n], b) = LettersAfter(text)[n + 1]
      <4>1. Len(text) \in Nat
        BY LenProperties
      <4>2. QED
        BY <4>1, LettersSteps
    <3>4. QED
      BY <2>1, <2>3, <3>1, <3>2, <3>3
  <2> HIDE DEF next
  <2>4. QED
    BY <1>1, <2>1, <2>2, <2>3 DEF ReadSoFar
<1>6. QED
  BY <1>1, <1>3, <1>4, <1>5

(* What the reader leaves of a first chunk: its token is not touched, and  *)
(* its origin is in the chunk (handle_auth_token_data).                    *)
LEMMA ChunkIsRead ==
    ASSUME NEW bytes \in Seq(MessageByte)
    PROVE  ReadSoFar(handle_auth_token_data(CleanDisplay, bytes), bytes, Len(bytes))
<1> DEFINE after == TokenReadAfter(CleanDisplay, bytes)
           S == {n \in Nat : n <= Len(bytes) => ReadSoFar(after[n], bytes, n)}
<1>1. Len(bytes) \in Nat
  BY LenProperties
<1>2. /\ after[0] = CleanDisplay
      /\ \A n \in Nat : n + 1 <= Len(bytes) => after[n + 1] = TokenByte(after[n], bytes[n + 1].byte)
  BY <1>1, ReadingSteps
<1> HIDE DEF after
<1>3. 0 \in S
  <2>1. LettersAfter(bytes)[0] = << >>
    BY <1>1, LettersSteps
  <2>2. ReadSoFar(CleanDisplay, bytes, 0)
    BY <2>1 DEF ReadSoFar, CleanDisplay, DisplayField, NoDot
  <2>3. QED
    BY <1>2, <2>2
<1>4. ASSUME NEW n \in Nat, n \in S
      PROVE  n + 1 \in S
  <2>1. SUFFICES ASSUME n + 1 <= Len(bytes)
                 PROVE  ReadSoFar(after[n + 1], bytes, n + 1)
    OBVIOUS
  <2>2. ReadSoFar(after[n], bytes, n)
    BY <1>1, <1>4, <2>1
  <2>3. QED
    BY <1>2, <2>1, <2>2, ByteIsRead
<1>5. \A n \in Nat : n \in S
  <2> HIDE DEF S
  <2>1. QED
    BY <1>3, <1>4, SetInduction
<1>6. ReadSoFar(after[Len(bytes)], bytes, Len(bytes))
  BY <1>1, <1>5
<1>7. QED
  BY <1>6 DEF handle_auth_token_data, after

(* The display belongs to a text: the token shown is its beginning, the    *)
(* origin to be shown is its origin.                                       *)
Beginning(bytes, text) ==
    \A i \in DOMAIN bytes : bytes[i] = Ellipsis \/ (i \in 1 .. Len(text) /\ bytes[i] = text[i])
OriginRead(origin, text) == origin = << >> \/ OriginIn(origin, text, Len(text))
DisplayOf(display, text) ==
    /\ DOMAIN display = DisplayField
    /\ display.token.kind = "text" /\ Beginning(display.token.bytes, text)
    /\ OriginRead(display.origin, text)

(* A token is cut to its beginning.                                        *)
LEMMA CutIsBeginning ==
    ASSUME NEW bytes \in Seq(MessageByte)
    PROVE  Beginning(Cut(bytes), bytes)
<1> DEFINE kept == SubSeq(bytes, 1, AUTH_TOKEN_DISPLAY_MAX_SIZE - 3)
           S == MessageByte \cup {Ellipsis}
<1>1. Len(bytes) \in Nat /\ DOMAIN bytes = 1 .. Len(bytes) /\ AUTH_TOKEN_DISPLAY_MAX_SIZE \in Nat
      /\ \A i \in 1 .. Len(bytes) : bytes[i] \in S
  BY LenProperties, AuthTokenAssumption
<1>2. CASE Len(bytes) >= AUTH_TOKEN_DISPLAY_MAX_SIZE
  <2>1. AUTH_TOKEN_DISPLAY_MAX_SIZE - 3 \in Int
        /\ \A i \in 1 .. AUTH_TOKEN_DISPLAY_MAX_SIZE - 3 : bytes[i] \in S /\ i \in 1 .. Len(bytes)
    BY <1>1, <1>2
  <2>2. /\ kept \in Seq(S)
        /\ Len(kept) = IF 1 <= AUTH_TOKEN_DISPLAY_MAX_SIZE - 3
                       THEN AUTH_TOKEN_DISPLAY_MAX_SIZE - 3 - 1 + 1 ELSE 0
        /\ \A i \in 1 .. AUTH_TOKEN_DISPLAY_MAX_SIZE - 3 - 1 + 1 : kept[i] = bytes[1 + i - 1]
    BY <2>1, SubSeqProperties
  <2>3. Len(kept) \in Nat /\ \A i \in 1 .. Len(kept) : i \in 1 .. Len(bytes) /\ kept[i] = bytes[i]
    BY <1>1, <2>1, <2>2
  <2> HIDE DEF kept
  <2>4. /\ Append(kept, Ellipsis) \in Seq(S) /\ Len(Append(kept, Ellipsis)) = Len(kept) + 1
        /\ Append(kept, Ellipsis)[Len(kept) + 1] = Ellipsis
        /\ \A i \in 1 .. Len(kept) : Append(kept, Ellipsis)[i] = kept[i]
    BY <2>2, AppendProperties
  <2>5. DOMAIN Append(kept, Ellipsis) = 1 .. Len(kept) + 1
    BY <2>4, LenProperties
  <2>6. Cut(bytes) = Append(kept, Ellipsis)
    BY <1>2 DEF Cut, kept
  <2>7. QED
    BY <2>3, <2>4, <2>5, <2>6 DEF Beginning
<1>3. CASE ~(Len(bytes) >= AUTH_TOKEN_DISPLAY_MAX_SIZE)
  BY <1>1, <1>3 DEF Cut, Beginning
<1>4. QED
  BY <1>2, <1>3

(* What a screen shows of a beginning is a beginning.                      *)
LEMMA ShownIsBeginning ==
    ASSUME NEW bytes, NEW text, Beginning(bytes, text)
    PROVE  Beginning(CString(bytes), text)
<1>1. \A i \in DOMAIN CString(bytes) : i \in DOMAIN bytes /\ CString(bytes)[i] = bytes[i]
  BY DEF CString
<1>2. QED
  BY <1>1 DEF Beginning

(* A first chunk is on display (update_token_display_data).                *)
LEMMA ChunkIsDisplayed ==
    ASSUME NEW bytes \in Seq(MessageByte)
    PROVE  DisplayOf(update_token_display_data(bytes), bytes)
<1> DEFINE d == handle_auth_token_data(CleanDisplay, bytes)
           display == [d EXCEPT !.token = Text(CString(Cut(bytes)))]
<1>1. DOMAIN d = DisplayField /\ OriginRead(d.origin, bytes)
  BY ChunkIsRead DEF ReadSoFar, OriginRead
<1> HIDE DEF d
<1>2. /\ DOMAIN display = DisplayField /\ display.token = Text(CString(Cut(bytes)))
      /\ display.origin = d.origin
  BY <1>1 DEF DisplayField
<1>3. display.token.kind = "text" /\ display.token.bytes = CString(Cut(bytes))
  BY <1>2 DEF Text
<1>4. update_token_display_data(bytes) = display
  BY DEF update_token_display_data, d
<1> HIDE DEF display
<1>5. QED
  BY <1>1, <1>2, <1>3, <1>4, CutIsBeginning, ShownIsBeginning DEF DisplayOf

(* What is displayed of a text is displayed of one that goes on with it.   *)
GoesOn(long, text) ==
    /\ Len(text) \in Nat /\ Len(long) \in Nat /\ Len(text) <= Len(long)
    /\ \A i \in 1 .. Len(text) : long[i] = text[i]
LEMMA DisplayStays ==
    ASSUME NEW text, NEW long, GoesOn(long, text), NEW display
    PROVE  /\ OriginRead(display.origin, text) => OriginRead(display.origin, long)
           /\ DisplayOf(display, text) => DisplayOf(display, long)
<1>1. \A i : i \in 1 .. Len(text) => i \in 1 .. Len(long) /\ long[i] = text[i]
  BY DEF GoesOn
<1>2. \A bytes : Beginning(bytes, text) => Beginning(bytes, long)
  BY <1>1 DEF Beginning
<1>3. ASSUME NEW origin, OriginIn(origin, text, Len(text))
      PROVE  OriginIn(origin, long, Len(long))
  <2>1. PICK m \in 1 .. Len(text) : text[m].byte = Dot /\ NoDot(text, m - 1)
                                     /\ origin = LettersAfter(text)[m - 1]
    BY <1>3 DEF OriginIn
  <2>2. \A j \in 1 .. m - 1 : j \in 1 .. Len(text) /\ long[j] = text[j]
    BY <1>1, <2>1 DEF GoesOn
  <2>3. NoDot(long, m - 1)
    BY <2>1, <2>2 DEF NoDot
  <2>4. LettersAfter(long)[m - 1] = LettersAfter(text)[m - 1]
    <3>1. m - 1 \in Nat /\ m - 1 <= Len(text) /\ m - 1 <= Len(long)
      BY <2>1 DEF GoesOn
    <3>2. QED
      BY <2>2, <3>1, LettersAgree DEF GoesOn
  <2>5. QED
    BY <1>1, <2>1, <2>3, <2>4 DEF OriginIn
<1>4. QED
  BY <1>2, <1>3 DEF DisplayOf, OriginRead

(* The text behind a started hash is what was absorbed since, and goes on  *)
(* with what is absorbed next.                                             *)
LEMMA TextGoesOn ==
    ASSUME NEW hash \in Digest, NEW more \in Seq(Absorbed), Len(hash) >= 3
    PROVE  /\ Len(hash \o more) >= 3
           /\ GoesOn(TokenText(hash \o more), TokenText(hash))
           /\ Len(hash) = 3 => GoesOn(TokenText(hash \o more), more)
<1> DEFINE all == hash \o more
<1>1. Len(hash) \in Nat /\ Len(more) \in Nat /\ \A i \in 1 .. Len(hash) : hash[i] \in Absorbed
  BY LenProperties DEF Digest
<1>2. /\ all \in Seq(Absorbed) /\ Len(all) = Len(hash) + Len(more)
      /\ \A i \in 1 .. Len(hash) + Len(more) :
            all[i] = IF i <= Len(hash) THEN hash[i] ELSE more[i - Len(hash)]
  BY ConcatProperties DEF Digest
<1> HIDE DEF all
<1>3. Len(all) \in Nat /\ \A i \in 1 .. Len(all) : all[i] \in Absorbed
  BY <1>2, LenProperties
<1>4. ASSUME NEW s, Len(s) \in Nat, Len(s) >= 3, \A i \in 1 .. Len(s) : s[i] \in Absorbed
      PROVE  /\ Len(TokenText(s)) = Len(s) - 3
             /\ \A i \in 1 .. Len(s) - 3 : TokenText(s)[i] = s[i + 3]
  <2>1. \A i \in 4 .. Len(s) : s[i] \in Absorbed
    BY <1>4
  <2>2. /\ Len(TokenText(s)) = IF 4 <= Len(s) THEN Len(s) - 4 + 1 ELSE 0
        /\ \A i \in 1 .. Len(s) - 4 + 1 : TokenText(s)[i] = s[4 + i - 1]
    BY <1>4, <2>1, SubSeqProperties DEF TokenText
  <2>3. (IF 4 <= Len(s) THEN Len(s) - 4 + 1 ELSE 0) = Len(s) - 3
    <3>1. \A n \in Nat : n >= 3 => (IF 4 <= n THEN n - 4 + 1 ELSE 0) = n - 3
      OBVIOUS
    <3>2. QED
      BY <1>4, <3>1
  <2>4. \A i \in 1 .. Len(s) - 3 : i \in 1 .. Len(s) - 4 + 1 /\ 4 + i - 1 = i + 3
    BY <1>4
  <2>5. QED
    BY <2>2, <2>3, <2>4
<1>5. /\ Len(TokenText(hash)) = Len(hash) - 3
      /\ \A i \in 1 .. Len(hash) - 3 : TokenText(hash)[i] = hash[i + 3]
  BY <1>1, <1>4
<1>6. Len(all) >= 3
  BY <1>1, <1>2
<1>7. /\ Len(TokenText(all)) = Len(all) - 3
      /\ \A i \in 1 .. Len(all) - 3 : TokenText(all)[i] = all[i + 3]
  BY <1>3, <1>4, <1>6
<1>8. GoesOn(TokenText(all), TokenText(hash))
  <2>1. ASSUME NEW i \in 1 .. Len(hash) - 3
        PROVE  TokenText(all)[i] = TokenText(hash)[i]
    <3>1. /\ i + 3 \in 1 .. Len(hash) + Len(more) /\ i + 3 <= Len(hash)
          /\ i \in 1 .. Len(all) - 3
      BY <1>1, <1>2
    <3>2. QED
      BY <1>2, <1>5, <1>7, <3>1
  <2>2. Len(hash) - 3 \in Nat /\ Len(all) - 3 \in Nat /\ Len(hash) - 3 <= Len(all) - 3
    BY <1>1, <1>2
  <2>3. QED
    BY <1>5, <1>7, <2>1, <2>2 DEF GoesOn
<1>9. ASSUME Len(hash) = 3
      PROVE  GoesOn(TokenText(all), more)
  <2>1. \A i \in 1 .. Len(more) : TokenText(all)[i] = more[i]
    BY <1>1, <1>2, <1>7, <1>9
  <2>2. Len(all) - 3 = Len(more)
    BY <1>1, <1>2, <1>9
  <2>3. QED
    BY <1>1, <1>7, <2>1, <2>2 DEF GoesOn
<1>10. QED
  BY <1>6, <1>8, <1>9 DEF all

(* While a token is open the display belongs to what was hashed of it, and *)
(* its review shows its beginning or its origin.                           *)
ShownOf(display, hash) == Len(hash) >= 3 /\ DisplayOf(display, TokenText(hash))
ReviewShows(display, hash) ==
    \/ ShownOf(display, hash)
    \/ /\ Len(hash) >= 3 /\ display.token.kind = "authorizing"
       /\ OriginIn(display.token.origin, TokenText(hash), Len(TokenText(hash)))
OpenShown == app_state = "SIGNING_MESSAGE" => ShownOf(auth_display, sha3_context)
ReviewShown == ux = "auth_token" => ReviewShows(auth_display, auth_context.hash)
ShownInv == OpenShown /\ ReviewShown

(* A first chunk that is refused is on display, but not in the hash.       *)
FirstChunksFit ==
    \A c \in Commands : c.ins = "AUTH_TOKEN" /\ c.p1 = "P1_FIRST" => Len(c.bytes) <= c.len
ChunksAreHashed == "cx_chunk" \notin CxFaults

(* handle_auth_token shows what it signs.                                  *)
LEMMA TokenIsShown ==
    ASSUME TypeOK, OpenShown, TokensAreStarted, HeadersAreWhole, FirstChunksFit, ChunksAreHashed,
           NEW c \in Commands, NEW fault \in CxFaults, c.ins = "AUTH_TOKEN",
           handle_auth_token(c, fault)
    PROVE  /\ OpenShown'
           /\ \/ ux' = ux
              \/ ux' = "auth_token" /\ ReviewShows(auth_display', auth_context'.hash)
<1> DEFINE Accounted ==
        /\ OpenShown'
        /\ \/ ux' = ux
           \/ ux' = "auth_token" /\ ReviewShows(auth_display', auth_context'.hash)
<1>1. c.address \in Address /\ c.len \in Nat /\ c.bytes \in Seq(MessageByte)
      /\ c.bytes \in Seq(Absorbed) /\ Len(c.bytes) \in Nat
  BY CommandTypes, LenProperties, SeqMonotonic DEF Absorbed
<1>2. sha3_context \in Digest /\ auth_context \in AuthContext
  BY DEF TypeOK, SigningTypeOK
<1>3. ASSUME NEW hash, NEW context, NEW display, ShownOf(display, hash),
             KeepAuthSession(hash, context, display)
      PROVE  OpenShown'
  <2>1. sha3_context' = hash /\ auth_display' = display
    BY <1>3 DEF KeepAuthSession
  <2>2. ShownOf(auth_display', sha3_context')
    BY <1>3, <2>1
  <2>3. QED
    BY <2>2 DEF OpenShown, ShownOf, DisplayOf
<1>4. ASSUME NEW hash \in Digest, NEW context \in AuthContext, NEW display, ShownOf(display, hash),
             SignAuthToken(hash, context, display, fault)
      PROVE  Accounted
  <2> DEFINE signed == [context EXCEPT !.len = 0, !.hash = hash, !.signature = Sign(hash)]
             result == compute_token_display(display)
             authorized == [display EXCEPT !.token = Authorizing(display.origin, display.ttl)]
  <2>1. signed.hash = hash
    BY DEF AuthContext
  <2>2. \/ app_state' = "IDLE" /\ ux' = ux
        \/ ux' = ux /\ KeepAuthSession(Append(hash, CxLast), signed, display)
        \/ /\ app_state' = "IDLE" /\ ux' = "auth_token" /\ auth_context' = signed
           /\ auth_display' = IF result = "OK" THEN authorized ELSE display
    BY <1>4 DEF SignAuthToken, init_auth_token_context, Throw, ReplyWith, ShowReview
  <2>3. ShownOf(display, Append(hash, CxLast))
    <3>1. CxLast \in Absorbed /\ <<CxLast>> \in Seq(Absorbed)
      BY DEF Absorbed
    <3>2. Append(hash, CxLast) = hash \o <<CxLast>>
      BY <3>1, AppendIsConcat DEF Digest
    <3>3. Len(hash) >= 3
      BY <1>4 DEF ShownOf
    <3>4. QED
      BY <1>4, <3>1, <3>2, <3>3, TextGoesOn, DisplayStays DEF ShownOf
  <2>4. result = "OK" => ReviewShows(authorized, hash)
    <3>1. DOMAIN display = DisplayField /\ OriginRead(display.origin, TokenText(hash))
          /\ Len(hash) >= 3
      BY <1>4 DEF ShownOf, DisplayOf
    <3>2. authorized.token = Authorizing(display.origin, display.ttl)
      BY <3>1 DEF DisplayField
    <3>3. authorized.token.kind = "authorizing" /\ authorized.token.origin = display.origin
      BY <3>2 DEF Authorizing
    <3>4. result = "OK" => display.origin # << >>
      BY DEF compute_token_display
    <3> HIDE DEF authorized
    <3>5. QED
      BY <3>1, <3>3, <3>4 DEF ReviewShows, OriginRead
  <2> HIDE DEF signed, result, authorized
  <2>5. CASE app_state' = "IDLE" /\ ux' = ux
    BY <2>5 DEF OpenShown
  <2>6. CASE ux' = ux /\ KeepAuthSession(Append(hash, CxLast), signed, display)
    BY <1>3, <2>3, <2>6
  <2>7. CASE /\ app_state' = "IDLE" /\ ux' = "auth_token" /\ auth_context' = signed
             /\ auth_display' = IF result = "OK" THEN authorized ELSE display
    <3>1. auth_context'.hash = hash
      BY <2>1, <2>7
    <3>2. ReviewShows(auth_display', hash)
      BY <1>4, <2>4, <2>7 DEF ReviewShows
    <3>3. QED
      BY <2>7, <3>1, <3>2 DEF OpenShown
  <2>8. QED
    BY <2>2, <2>5, <2>6, <2>7
<1>5. ASSUME NEW hash \in Digest, NEW context \in AuthContext, NEW display,
             ShownOf(display, hash) \/ Len(c.bytes) <= context.len,
             ShownOf(display, hash \o c.bytes),
             AbsorbToken(hash, context, display, c.bytes, fault)
      PROVE  Accounted
  <2> DEFINE rest == [context EXCEPT !.len = @ - Len(c.bytes)]
             text == hash \o c.bytes
  <2>1. context.len \in Nat /\ fault # "cx_chunk"
    BY DEF AuthContext, ChunksAreHashed
  <2>2. CASE Len(c.bytes) > context.len
    <3>1. KeepAuthSession(hash, context, display) /\ ux' = ux /\ ShownOf(display, hash)
      BY <1>1, <1>5, <2>1, <2>2 DEF AbsorbToken, Throw, ReplyWith
    <3>2. QED
      BY <1>3, <3>1
  <2>3. CASE Len(c.bytes) <= context.len
    <3>1. rest \in AuthContext
      BY <1>1, <2>1, <2>3 DEF AuthContext
    <3>2. text \in Digest /\ ShownOf(display, text)
      BY <1>1, <1>5, ConcatProperties DEF Digest
    <3> HIDE DEF rest, text
    <3>3. \/ KeepAuthSession(text, rest, display) /\ ux' = ux
          \/ SignAuthToken(text, rest, display, fault)
      BY <1>1, <1>5, <2>1, <2>3 DEF AbsorbToken, Throw, ReplyWith, rest, text
    <3>4. QED
      BY <1>3, <1>4, <3>1, <3>2, <3>3
  <2>4. QED
    BY <1>1, <2>1, <2>2, <2>3
<1>6. CASE FirstTokenChunk(c, fault)
  <2> DEFINE hash == StartedAuthHash(c.len, c.address, fault)
             context == [CleanContext(auth_context) EXCEPT !.len = c.len, !.address = c.address]
             display == update_token_display_data(c.bytes)
  <2>1. fault \notin AuthStartFaults \cup {"public_key"} /\ Len(c.bytes) <= c.len /\ ~c.short
    BY <1>6 DEF TokensAreStarted, FirstChunksFit, HeadersAreWhole, FirstTokenChunk
  <2>2. hash = <<Prepend, Length(c.len + BECH32_ADDRESS_LEN), Bech32(c.address)>>
    BY <2>1 DEF StartedAuthHash, AuthStartFaults, AnnouncedLength
  <2>3. hash \in Digest /\ Len(hash) = 3
    BY <1>1, <1>2, <2>2, Started
  <2>4. context \in AuthContext /\ context.len = c.len
    BY <1>1, <1>2, EmptySeq DEF CleanContext, AuthContext, Digest
  <2>5. AbsorbToken(hash, context, display, c.bytes, fault)
    BY <1>6, <2>1 DEF FirstTokenChunk
  <2>6. DisplayOf(display, c.bytes)
    BY <1>1, ChunkIsDisplayed
  <2> HIDE DEF context, display, hash
  <2>7. ShownOf(display, hash \o c.bytes)
    <3>1. Len(hash) >= 3
      BY <2>3
    <3>2. Len(hash \o c.bytes) >= 3 /\ GoesOn(TokenText(hash \o c.bytes), c.bytes)
      BY <1>1, <2>3, <3>1, TextGoesOn
    <3>3. QED
      BY <2>6, <3>2, DisplayStays DEF ShownOf
  <2>8. QED
    BY <1>5, <2>1, <2>3, <2>4, <2>5, <2>7
<1>7. CASE NextTokenChunk(c, fault)
  <2>1. ASSUME NEW sw, RefusedToken(sw)
        PROVE  Accounted
    BY <2>1 DEF RefusedToken, Throw, ReplyWith, OpenShown, ShownOf, DisplayOf
  <2>2. ASSUME app_state = "SIGNING_MESSAGE"
        PROVE  ShownOf(auth_display, sha3_context \o c.bytes)
    <3>1. ShownOf(auth_display, sha3_context)
      BY <2>2 DEF OpenShown
    <3>2. Len(sha3_context) >= 3
      BY <3>1 DEF ShownOf
    <3>3. QED
      BY <1>1, <1>2, <3>1, <3>2, TextGoesOn, DisplayStays DEF ShownOf
  <2>3. QED
    BY <1>2, <1>5, <1>7, <2>1, <2>2 DEF NextTokenChunk, Continuing, OpenShown
<1>8. QED
  BY <1>6, <1>7 DEF handle_auth_token

(* Every step keeps the display in agreement with the token.               *)
LEMMA ShownStep ==
    ASSUME TypeOK, LinkInv, ShownInv, TokensAreStarted, HeadersAreWhole, FirstChunksFit,
           ChunksAreHashed, NoMessages, [Next]_vars
    PROVE  ShownInv'
<1> USE DEF ShownInv
<1>1. CASE Launch \/ Unplug \/ Quit \/ PowerOff
  <2>1. ux' = "menu" /\ app_state' = "IDLE"
    BY <1>1 DEF Launch, Unplug, Initialise, init_msg_context, Quit, PowerOff, Stop
  <2>2. QED
    BY <2>1 DEF OpenShown, ReviewShown
<1>2. ASSUME UNCHANGED auth_display, auth_context' = auth_context,
             app_state' = "SIGNING_MESSAGE" => app_state = app_state' /\ sha3_context' = sha3_context,
             ux' = "auth_token" => ux = "auth_token"
      PROVE  ShownInv'
  BY <1>2 DEF OpenShown, ReviewShown, ReviewShows, ShownOf, DisplayOf
<1>3. ASSUME NEW c \in Commands, NEW fault \in CxFaults, Receive(c, fault)
      PROVE  ShownInv'
  <2>1. ux = "menu"
    BY <1>3, Screens DEF Receive, LinkInv, InsideExchange
  <2>2. MessagesAreStarted
    BY DEF TokensAreStarted, MessagesAreStarted, AuthStartFaults, StartFaults
  <2>3. CASE AuthTokenCommand(c, fault)
    <3>1. OpenShown' /\ \/ ux' = ux
                        \/ ux' = "auth_token" /\ ReviewShows(auth_display', auth_context'.hash)
      BY <2>3, TokenIsShown DEF AuthTokenCommand
    <3>2. QED
      BY <2>1, <3>1 DEF ReviewShown, ReviewShows, ShownOf, DisplayOf
  <2>4. CASE SignTxHashCommand(c, fault)
    <3>1. auth_context' = auth_context /\ auth_display' = auth_display
      BY <2>4 DEF SignTxHashCommand
    <3>2. /\ ux' # "auth_token"
          /\ \/ app_state' = app_state /\ sha3_context' = sha3_context
             \/ app_state' # "SIGNING_MESSAGE"
      BY <2>1, <2>2, <2>4, TransactionEndsMessage DEF SignTxHashCommand
    <3>3. QED
      BY <1>2, <3>1, <3>2
  <2>5. CASE ProvideEsdtCommand(c, fault) \/ AddressCommand(c, fault) \/ handle_other(c)
    <3>1. /\ ux' \in {"menu", "address"} /\ app_state' = app_state /\ sha3_context' = sha3_context
          /\ auth_context' = auth_context /\ auth_display' = auth_display
      BY <2>1, <2>5 DEF ProvideEsdtCommand, handle_provide_ESDT_info, AddressCommand,
             handle_set_address, handle_get_address, handle_other, globals, contexts,
             Throw, ReplyWith, ShowReview
    <3>2. QED
      BY <1>2, <3>1
  <2>6. QED
    BY <1>3, <2>3, <2>4, <2>5 DEF Receive, handle_apdu, NoMessages, SignMsgCommand
<1>4. CASE IoExchange \/ Approve \/ Reject
  BY <1>2, <1>4 DEF IoExchange, Approve, Reject, send_response, globals, contexts
<1>5. ASSUME NEW enabled \in BOOLEAN, setting_contract_data_change(enabled)
      PROVE  ShownInv'
  BY <1>2, <1>5 DEF setting_contract_data_change, output, contexts
<1>6. CASE UNCHANGED vars
  BY <1>2, <1>6 DEF vars, globals, output, contexts
<1>7. QED
  BY <1>1, <1>3, <1>4, <1>5, <1>6 DEF Next

(* What is displayed of the origin is the origin of the text.              *)
LEMMA OriginOfText ==
    ASSUME NEW text, Len(text) \in Nat, \A i \in 1 .. Len(text) : text[i] \in MessageByte,
           NEW origin, OriginIn(origin, text, Len(text))
    PROVE  origin = WithoutNul(OriginOf(text))
<1> DEFINE I == {i \in 1 .. Len(text) : text[i] = [byte |-> Dot]}
<1>1. \A i \in 1 .. Len(text) : text[i] = [byte |-> text[i].byte]
  BY DEF MessageByte
<1>2. PICK m \in 1 .. Len(text) : text[m].byte = Dot /\ NoDot(text, m - 1)
                                   /\ origin = LettersAfter(text)[m - 1]
  BY DEF OriginIn
<1>3. m \in I
  BY <1>1, <1>2
<1>4. \A i \in I : m <= i
  <2>1. ASSUME NEW i \in I, i < m
        PROVE  FALSE
    <3>1. i \in 1 .. m - 1 /\ text[i].byte = Dot
      BY <2>1
    <3>2. QED
      BY <1>2, <3>1 DEF NoDot
  <2>2. \A i \in I : i \in Nat
    OBVIOUS
  <2>3. QED
    BY <2>1, <2>2
<1>5. FirstDot(text) = m
  <2>1. FirstDot(text) = IF I # {} THEN Min(I) ELSE 0
    BY DEF FirstDot, SelectInSeq
  <2>2. \A x \in I : (\A y \in I : x <= y) => x = m
    BY <1>3, <1>4
  <2> HIDE DEF I
  <2>3. Min(I) \in I /\ \A y \in I : Min(I) <= y
    BY <1>3, <1>4 DEF Min
  <2>4. QED
    BY <1>3, <2>1, <2>2, <2>3
<1>6. /\ OriginOf(text) \in Seq(MessageByte)
      /\ Len(OriginOf(text)) = IF 1 <= m - 1 THEN m - 1 - 1 + 1 ELSE 0
      /\ \A i \in 1 .. m - 1 - 1 + 1 : OriginOf(text)[i] = text[1 + i - 1]
  <2>1. \A i \in 1 .. m - 1 : text[i] \in MessageByte
    OBVIOUS
  <2>2. QED
    BY <1>5, <2>1, SubSeqProperties DEF OriginOf
<1>7. Len(OriginOf(text)) = m - 1 /\ \A i \in 1 .. m - 1 : OriginOf(text)[i] = text[i]
  BY <1>6
<1>8. m - 1 \in Nat /\ m - 1 <= Len(text)
  BY <1>2
<1>9. LettersAfter(OriginOf(text))[m - 1] = LettersAfter(text)[m - 1]
  <2> DEFINE beginning == OriginOf(text)
             length == m - 1
  <2>1. /\ Len(beginning) \in Nat /\ Len(text) \in Nat /\ length \in Nat
        /\ length <= Len(text) /\ length <= Len(beginning)
        /\ \A i \in 1 .. length : beginning[i] = text[i]
    BY <1>2, <1>7, <1>8
  <2> HIDE DEF beginning, length
  <2>2. LettersAfter(beginning)[length] = LettersAfter(text)[length]
    BY <2>1, LettersAgree, ZenonT(60)
  <2>3. QED
    BY <2>2 DEF beginning, length
<1>10. QED
  BY <1>2, <1>7, <1>9 DEF WithoutNul

(* What the review shows of a login token is in the token that is signed:  *)
(* its origin, less the zero bytes that strings cannot hold, or its        *)
(* beginning (handle_auth_token_data, update_token_display_data), although *)
(* only the first chunk is looked at, for hosts that sign no messages and  *)
(* whose first chunks have their header and are no longer than announced,  *)
(* if no call that starts a hash or hashes a chunk fails.                  *)
THEOREM ReviewedTokenIsShown ==
    ASSUME TokensAreStarted, HeadersAreWhole, FirstChunksFit, ChunksAreHashed, NoMessages
    PROVE  Spec => []TokenReviewShowsToken
<1>1. Init => ShownInv
  BY DEF Init, ShownInv, OpenShown, ReviewShown
<1>2. TypeOK /\ LinkInv /\ ShownInv /\ [Next]_vars => ShownInv'
  BY ShownStep
<1>3. Spec => []ShownInv
  BY <1>1, <1>2, TypeCorrect, LinkInvariant, PTL DEF Spec
<1>4. ASSUME TypeOK, TokenInv, ShownInv
      PROVE  TokenReviewShowsToken
  <2> DEFINE hash == auth_context.hash
             text == TokenText(hash)
             token == auth_display.token
  <2> SUFFICES ASSUME ux = "auth_token"
               PROVE  /\ Len(hash) >= 3
                      /\ token.kind = "authorizing" =>
                            token.origin = WithoutNul(OriginOf(text))
                      /\ token.kind = "text" =>
                            \A i \in DOMAIN token.bytes :
                                \/ token.bytes[i] = Ellipsis
                                \/ i \in DOMAIN text /\ token.bytes[i] = text[i]
    BY DEF TokenReviewShowsToken
  <2>1. hash \in Digest /\ Len(hash) \in Nat
    BY <1>4, LenProperties DEF TypeOK, SigningTypeOK, AuthContext, Digest
  <2>2. ReviewShows(auth_display, hash) /\ Len(hash) >= 3
    BY <1>4 DEF ShownInv, ReviewShown, ReviewShows, ShownOf
  <2>3. \A i \in 4 .. Len(hash) : hash[i] \in MessageByte
    BY <1>4 DEF TokenInv, ReviewedToken, CompleteToken, IsToken, Account
  <2>4. text \in Seq(MessageByte)
    BY <2>1, <2>3, SubSeqProperties DEF TokenText
  <2>5. Len(text) \in Nat /\ DOMAIN text = 1 .. Len(text)
        /\ \A i \in 1 .. Len(text) : text[i] \in MessageByte
    BY <2>4, LenProperties
  <2> HIDE DEF hash, text
  <2>6. CASE ShownOf(auth_display, hash)
    BY <2>2, <2>5, <2>6 DEF ShownOf, DisplayOf, Beginning, text
  <2>7. CASE /\ token.kind = "authorizing"
             /\ OriginIn(token.origin, TokenText(hash), Len(TokenText(hash)))
    BY <2>2, <2>5, <2>7, OriginOfText DEF text
  <2>8. QED
    BY <2>2, <2>6, <2>7 DEF ReviewShows
<1>5. QED
  BY <1>3, <1>4, TypeCorrect, TokenInvariant, PTL
==============================================================================
