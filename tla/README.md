# A model of the MultiversX application for Ledger devices

This directory holds TLA+ specifications of the application in `src/src`: the
main loop that answers a host, the handlers that sign messages, login tokens and
transactions, the reader of transactions, the functions that make the texts of the
reviews, and the screens on which the user approves them. TLC checks small
instances of all of it, TLAPS proves all but a few of the properties for all values of the
constants.

    tlc -workers 2 -config messages.cfg MCDevice      a run (section 3 names the modules)
    tlapm Session_proof.tla                           a proof

## 1. The system

The program has one thread. `elrond_main` calls `io_exchange`, which sends the
reply left by the last command, waits, and returns with the next one;
`handle_apdu` dispatches on the instruction; the handler runs to its end. While
the program is inside `io_exchange` the SDK's event handler also runs the
screens, so the user's buttons, the settings menu and the loss of the link all
reach the program there, and only there. What makes it hard is not parallelism
but **static memory shared by commands that arrive in any order**: three signing
commands, each a sequence of chunks, use one session variable, one hash context
and one selected account, and a review reads its text and its reply from static
buffers long after the handler returned.

| component | source | state | operations | module |
|---|---|---|---|---|
| Main loop and dispatch | `main.c`, `globals.c` | `flags`, `tx`, `app_state`, `sha3_context`, `bip32_*`, `N_storage` | receive, reply, reset, launch, exit | `Globals`, `Device` |
| Message signing | `sign_msg.c` | `msg_context` | first chunk, next chunk, sign, review | `SignMsg` |
| Login tokens | `sign_msg_auth_token.c` | `token_auth_context` | first chunk, next chunk, read origin and ttl, sign, review | `AuthToken` |
| Token display text | `utils.c`, `base64.h` | none | `compute_token_display`, `seconds_to_time`, `atoi`, `base64decode` | `TokenText`, `Base64`; their outcomes in `AuthToken` |
| Transaction signing | `sign_tx_hash.c` | `tx_context`, `tx_hash_context` | first chunk, next chunk, give up, sign, choose the review | `SignTxHash` |
| Transaction parser | `parse_tx.c` | status, `current_field`, `current_value`, the fields | one character; one member; numbers, fee, amount; the amount of a transfer | `JsonText`; `ParseTx`; `Numbers`; `EsdtData` |
| Token descriptions | `provide_ESDT_info.c` | `esdt_info` | store, verify | `EsdtInfo` |
| Addresses, selected account | `set_address.c`, `get_address.c`, `address_helpers.c`, `get_private_key.c` | `bip32_*`, `address` | select, show, reply | `Addresses` |
| Responses of the reviews | `utils.c` | `G_io_apdu_buffer` | approve, reject | `Device` |
| Menu and settings | `menu.c` | `N_storage`, the switch | change a setting, quit | `Device`; the screens in `NanoScreens`, `StaxScreens` |
| Review screens | `sign_tx_hash.c`, `sign_msg.c`, `sign_msg_auth_token.c`, `get_address.c` | the flow arrays, `pairs_list` | show, turn the page, approve, reject | `Screens`, `NanoScreens`, `StaxScreens` |
| Version screen | `view_app_version.c` | none | show, leave | `NanoScreens` |

Interactions:

- A handler ends in one of two ways: it throws a status word, which the main loop
  sends at its next `io_exchange`, or it starts a review and sets
  `IO_ASYNCH_REPLY`, and then a button answers through `send_response`.
- `app_state` says which kind of session is open. `SIGN_MSG` and
  `GET_ADDR_AUTH_TOKEN` share the value `SIGNING_MESSAGE` and the hash, but each
  keeps a remaining length of its own.
- `SET_ADDR` writes the account that the signing handlers read when a text is
  complete, which may be many commands later.
- `PROVIDE_ESDT_INFO` writes the description with which `SIGN_TX_HASH` later
  decides whether a transaction is a token transfer, and how to show its amount.
- The menu writes the contract-data setting that the parser reads.
- A chunk of a transaction goes through `parse_data`, which hands every member to
  `process_field`; names, values and counts stay in static buffers between chunks,
  and between transactions.
- A handler fills the contexts that a review shows; the flow or the pages of the review are put
  together from the fields that are present.

Hard behaviours: interleaved and abandoned sessions; handlers that fail half-way
(`THROW` from a failing call of the crypto library leaves everything done before it);
state that outlives the command that made it; a reset or power loss while a
review is shown; fields in an unexpected order; a text cut in the middle of a word; numbers
and buffers at their limits. Every one is listed at its line
under `hazards` in `PROJECT.json`, with the property that covers it or the reason
none does.

What makes each component correct:

- *main loop*: each command is answered once, none goes unanswered, nothing is
  answered unasked;
- *signing*: what is reviewed is what was signed, with the selected key; it leaves
  only by approval; a message is never a transaction; a text has the announced
  length; a refused chunk changes nothing it could be sent again for;
- *parser and reviews*: the fields, amount and fee on the screen belong to the
  text whose hash is signed; a token transfer is shown as the token it transfers;
- *login tokens*: the origin on the screen is in the token that is signed;
- *descriptions*: what is marked valid was signed;
- *settings*: changed in the menu only, and obeyed;
- *reader*: the members of a text are read as they were written, however it is cut, and
  nothing is written outside the buffers;
- *numbers and texts*: what is shown is worth what was signed;
- *screens*: nothing is approved that was not shown in full.

## 2. The modules

    Globals ── SignMsg ─────────────┐
       ├────── AuthToken ───────────┤
       ├────── EsdtInfo ─ ParseTx ─ SignTxHash ─ Device ─ DeviceProperties ─ MCDevice
       └────── Addresses ───────────┘             (Exchange, SigningSession: INSTANCE)

    JsonText ───────────┐
    Base64 ─ TokenText ─┼─ TextProperties ─ MCText       (MemberReader: INSTANCE)
    Numbers ─ EsdtData ─┘

    Screens ─┬─ NanoScreens ─┬─ MCScreens                (UserInterface: INSTANCE)
             └─ StaxScreens ─┘

    DeviceProperties ─ Device_proof ─ Signing_proof ─ Review_proof ─┬─ Session_proof ─ Token_proof
                                                                    └─ Transaction_proof
    TextProperties ─ Text_proof
    MCScreens ─ Screens_proof

Four abstract specifications say what a component promises: `Exchange` (the link),
`SigningSession` (signing a text in chunks), `MemberReader` (reading a transaction) and
`UserInterface` (the screens). Each is implemented, by a refinement mapping, by the detailed
modules beside it.

### The device

**Abstractions.** A *hash* is the sequence of what it has absorbed (`Prepend`, a
length, an address, bytes, pieces of a transaction, and `CX_LAST` once it was
finished); a digest is that sequence when it was finalised. Two digests are equal
exactly when the hashed inputs are, which is collision resistance. A *signature* is the
pair of the key's account and the digest. Reset, power loss and relaunch keep
exactly what the C program keeps: a reset unwinds to `main` and keeps static
memory except what `elrond_main` initialises; power loss keeps `N_storage`.
Failing crypto calls are the constant `CxFaults`: a command is handled with one
fault or with `"none"`, and the handler stops where that call stands, having done
everything before it.

- `Globals`: the shared variables and the three ways to end (`Throw`,
  `ReplyWith`, `ShowReview`). `tx` stands for the reply in `G_io_apdu_buffer`
  and is `NoReply` when `tx = 0`.
- `SignMsg`: `handle_sign_msg`, as `FirstMsgChunk` and `NextMsgChunk`, which end in
  `AbsorbMessage`: too long, hashing failed, more to come, finishing failed, complete.
- `AuthToken`: `handle_auth_token` alike. `handle_auth_token_data` is
  `TokenByte` applied to the bytes of the first chunk one after the other
  (`TokenReadAfter`), including the byte limits that make it give up and the part it does not keep. The parts are C
  strings: a zero byte of the token (`Nul`) ends the text it is appended to and is overwritten by the next (`strcat`), and
  ends the text on the screen (`CString`). `auth_display` holds the fields of the struct that only serve the display.
- `EsdtInfo`: `handle_provide_ESDT_info`; `StoredEsdtInfo` stores as many fields as the
  command holds, before the signature is looked at, as the code does.
- `ParseTx`: the parser at the granularity of punctuation and members. Each
  member goes through `process_field`; the fee and the pretty amount are worked
  out when the chain is read. `verify_chainid` copies the chain id into four bytes whatever its length, so that
  a long one runs over the fields behind it in `tx_context`: the signature, `esdt_value`, the network, which
  is set right after, and the guardian; what it leaves there is `EsdtValueOverrun` and `GuardianOverrun`. A member stands
  for the field its name is taken for, which may be a name that goes on behind that of the field. `Malformed`, `Lengthy`,
  `NotInteger`, `Unprintable`, `NotHex`, `Network`, `DataSize`, `EsdtIdentifier` and `EsdtValue` are constants too, which say what the
  character level finds in a value.
- `SignTxHash`: `handle_sign_tx_hash`; `GiveUp` is `init_tx_context` and the throw
  around it; `ReviewTx` chooses between the two reviews and contains the refusal
  of an amount that leaves the session open.
- `Addresses`: `SET_ADDR`, `GET_ADDR`.
- `Device`: `Launch`, `Unplug` (reset), `Quit`, `PowerOff`, `Receive` (one
  command, its whole handler), `IoExchange`, `Approve`, `Reject`, and the setting.
  `pc` tells whether the program is about to call `io_exchange`, inside it, or
  not running. `link` and `answer` are what a host sees.
- `Exchange`: `Device` implements it with the identity on `link` and `answer`.
- `SigningSession`: a text is announced, received in chunks, reviewed when complete and not
  before, and released once, by a decision on its review. The mapping reads the session off the
  hash: the announced length is its second item, the text what follows (for tokens, behind the
  address). Messages and tokens are two instances of it (`MessageSession`, `TokenSession`).
- `DeviceProperties`: all that is required. `MCDevice`: hosts and bounds.

External code modelled from its use: the SDK's `io_exchange` does not hand over
another command while one is unanswered (the guard of `Receive`; the mutant
without it breaks `ReviewedIsSigned`, so the code relies on it), and power can
go at any time.

### Texts and numbers

- `JsonText`: `parse_data` one character at a time (`Character`), in chunks the host cuts anywhere
  (`NextChunk`) or abandons for a new text (`FirstChunk`). The buffer of the name keeps its tail
  from longer names, as the code's does, and names are compared as the code compares them. The
  padding of the data is looked up in the chunk; a byte before the chunk is an arbitrary one. What
  `process_field` requires of values is left to `ParseTx`.
- `MemberReader`: takes the members of a text that holds in order and accepts it at its last brace, whatever stands behind that
  in the chunk, and refuses one that does not hold. A text holds whose signs are in place, whose values fit, and whose names
  begin with those of fields (for the receiver: are its name); one with a name that only begins that of a field is open,
  and may be accepted or refused. That `JsonText` implements it is what `ParseTx`, whose input are members,
  takes for granted.
- `Numbers`: `parse_int`, `gas_to_fee` modulo the widths `W64` and `W128`, `parse_hex`,
  `make_amount_pretty` on sequences of digits, with the bytes it writes, before and after the zeros at the end are trimmed, and
  whether the ticker overruns `suffix` (`OverrunsSuffix`); `uint32_t_to_char_array`.
- `EsdtData`: `extract_esdt_value` and `parse_esdt_data`, with the length modulo `W8`.
- `TokenText`, `Base64`: `compute_token_display` with `seconds_to_time`, `atoi` modulo the values of
  an `int`, the padding of the origin and its decoding. `AuthToken` takes its outcomes per token.
- `TextProperties`: the properties, and `input`, which an instance sets to every member of `Input`
  so that each function is checked on each of them beside the reader's behaviours.

### Screens

- `Screens`: the reviews, the fields each must show (`Required`), and the order in which the
  builders list those that are present (`Fields`).
- `NanoScreens`: devices with two buttons. A flow is a sequence of steps, `Left` and `Right` move in
  it, both buttons `Enter` a menu entry or decide a review; lists call their selector with the entries
  their getter has a text for. A field counts as seen when its step is left.
- `StaxScreens`: devices with a touch screen. `pairs` counts the pairs of item and value shown so
  far; the long press comes after the last; a rejection is asked for again, and "Go back"
  returns. A status page stands for the menu. `initState` is the switch's own copy of the setting.
- `UserInterface`: what both promise. `MCScreens` chooses the kind of device at the start; only the
  actions of that kind are taken.

`Device` has of the screens what reaches the rest of the program: which review is shown, the decision,
the setting, the end. Drawing, and the moving about, are the SDK's and NBGL's, modelled from how they
are used (the entries marked external in the map).

## 3. The runs

Deadlock is checked in all of them.

| run | module | expects | shows |
|---|---|---|---|
| `messages` | `MCDevice` | pass | `MessageHasAnnouncedLength`, `ReviewedIsSigned`, `RefusedChunkKeepsSession`, `SignatureOnlyByApproval`, `MessageSessionSpec`, `DomainSeparated`: announced lengths 0 to 2, chunks of up to 2 bytes, empty, too long and out of place, two accounts, failures in the middle (`cx_chunk`) and at the end (`sign`), a transaction cutting into the sessions |
| `exchange` | `MCDevice` | pass | `TypeOK`, `ReviewHoldsTheLink`, `ExchangeSpec`, `EveryCommandAnswered`: every instruction, replied at once or after a review, and every call of the crypto library failing in every handler |
| `reviews` | `MCDevice` | pass | `TxReviewShowsDocument`, `TxReviewShowsCosts`, `EsdtReviewShowsTransfer`, `DataNeedsSetting`, `SettingChangedOnlyInMenu`: texts in chunks of one or two members in any order, repeated, malformed, abandoned, with chain ids longer than their buffer and the setting changed in between; descriptions of three tokens, one identifier a prefix of another, incomplete and unsigned ones, transfers on two chains |
| `tokens` | `MCDevice` | pass | `TokenReviewShowsToken`, `TokenHasAnnouncedLength`, `TokenSessionSpec`, `DomainSeparated`: tokens cut in two or more, a transaction begun in between, origins that are not base64, reserved, too long, with zero bytes, and cut by a chunk |
| `text` | `MCText` | pass | `ReadsAsWritten`, `BuffersHold`, `DataSizeCounted`: 39 texts cut at every place, one after the other (12 well-formed, 3 under names that extend those of fields, 2 under a name that only begins one, 2 with more behind the last brace, 20 that break a rule); and `FittingIntIsRead`, `FeeNearFormula`, `PrettyKeepsValue`, `PrettyFits`, `LengthTextIsDecimal`, `EsdtAmountIsExact`, `TtlTextIsOfTheInt`, `OriginShownIsOrigin`: the functions against reference definitions |
| `screens` | `MCScreens` | pass | `ScreensImplementInterface`, `FlowsFit`, `PairsFit`, `SwitchShowsSetting`: every screen of both kinds of device |
| `mixed_sessions` | `MCDevice` | violation | `MessageHasAnnouncedLength` |
| `token_description` | `MCDevice` | violation | `ValidEsdtInfoIsSigned` |
| `split_token` | `MCDevice` | violation | `ReservedOriginRefused` |
| `late_data` | `MCDevice` | violation | `FeeCountsData` |
| `data_size` | `MCText` | violation | `DataSizeIsDecodedLength` |
| `validity` | `MCText` | violation | `TtlTextIsDocumented` |

**Bounds of the device, and why they are enough.** `MaxHashed` = 10 (`HashedWithinBound`) bounds the
pieces a hash absorbs in `reviews` and `tokens`; the longest text that exercises a property
there has fewer, and what has no natural end is a finished hash that is continued.
`TokensWithinBound` goes on with tokens of at most two bytes (`MaxHashedBeside` = 6) once a transaction was begun.
`DomainSeparated` is checked for messages beside transactions in one run and tokens beside transactions in another; for all three
together it is proved.
`OneKindWithinBound` in `reviews` goes no further once both a transfer and another transaction were
taken, until the memory is lost: each is checked after every use of its own kind.
Messages of up to 2 bytes distinguish the empty, the partial, the exact and the
excessive chunk. The token buffers are scaled down by `MCOriginSize` = 4,
`MCTtlSize` = 2 and `MCDisplaySize` = 4, so that each limit is met, passed and missed by one.
`MCAddressLen` = 62 is the code's value. `FirstSession` bounds `exchange`: it goes on from a state only while
hashes have at most 4 items, no finished hash outlives its review, one component has left something in memory, and
a command that leaves nothing is answered only before that. Each handler then meets each failure and each way to answer;
for all interleavings `ExchangeSpec`, `ReviewHoldsTheLink` and `TypeOK` are proved. A state at the bound is
checked, but not continued, so that `EveryCommandAnswered` is checked on behaviours within the bound.
`MCValue` has two chain ids longer than their buffer: `long` reaches `esdt_value`, `longest` the guardian too; they come before
and after the data and the guardian. `MCSignedTokens` has decimals beyond what `make_amount_pretty` can place, which
reaches the refusal that keeps the session.

**Bounds of the texts.** Every width and buffer is a constant, scaled so that its limit is met, passed
and missed by one: `MAX_FIELD_LEN` = 3, `MAX_VALUE_LEN` = 4, `AmountSize` = 10 and `PRETTY_SIZE` = 4,
`W8` = 32, `W64` = 64, `W32` = 256, `W128` = 4096, `IntValues` = 2^18 (a positive int reaches 36 hours, and `TtlInputs` has validities that wrap to
zero, to short and to negative ones), tickers up to one character more than `suffix` holds, origins of 7 characters,
`KeptLength` = 16, 3 hexadecimal digits. `MAX_INT_NUM_DIGITS` = 10 is the code's value, since
`append_time` sets it against words of the real lengths. The names of `MCText` stand for those of the code: `r` and
`ru` for `receiver` and `receiverUsername`, one a prefix of the other, `da` for `data`, `v` for a number.
`FeeInputs` has every gas limit and data sizes on both sides of it. `TransfersAsWritten` checks that the data of
`EsdtInputs` is written as a transfer is (`IsTransfer`), which is what the theorem about them assumes.

**Bounds of the screens.** None: the run exhausts the state space, with the code's sizes 10, 10 and 7.

**Restrictions on hosts and preconditions.**

- In `tokens` no first chunk is longer than announced, every one has its header, and no messages are
  signed; in `messages` no tokens are. Without these the violations and behaviours of section 4 appear.
- `TxReviewShowsDocument`, `TxReviewShowsCosts` and `EsdtReviewShowsTransfer` speak of hashes over one
  text (`OneText`): after a refused amount the session goes on, and a host that appends a second text gets a signature
  over what is no transaction. `TxReviewShowsCosts` further asks that the chain come after the fields
  the fee and the amount are made of, as clients usually send it (`ChainComesLast`).
- `TxReviewShowsDocument` leaves out the guardian, and `EsdtReviewShowsTransfer` the amount, of texts in which a chain id long enough
  to run over the field comes after it (`NotOverrun`): of these texts the properties are false (section 4). A guardian read after such a chain id is
  covered.
- `TokenReviewShowsToken` is about the origin without its zero bytes.
- `ReadsAsWritten` leaves open whether a name that only begins that of a field is taken for it; all else about texts it settles.
  `DataSizeCounted` is about members under the very name of the data, in chunks that hold its last two characters with its closing quote.
- `FittingIntIsRead` is about numbers that fit 64 bits, and `EsdtAmountIsExact` about data whose length
  fits a `uint8_t`.
- `PrettyFits` is about at most `AmountSize - PRETTY_SIZE - 2` decimals, 30 with the code's sizes, and both it and
  `PrettyKeepsValue` about tickers of at most `PRETTY_SIZE - 2` characters, 10 in the code. The network has 18 decimals and
  tickers of at most 10 characters, but `provide_ESDT_info.c:56` accepts up to 31. The device's model takes every ticker to fit.

Section 4 says what happens beyond.

**Fairness** (`FairSpec`, used by `exchange`). `WF(IoExchange)`: after a handler returns the
`for (;;)` of `elrond_main` calls `io_exchange` again, nothing can block it.
`WF(Approve \/ Reject)`: the user eventually presses one of the two buttons of
a review. This is an assumption on the user; without it the
command is rightly pending. No fairness is assumed of hosts, power or menu.

## 4. What the violations say

- `mixed_sessions`: begin a token, continue it with `SIGN_MSG`. The handler finds
  `SIGNING_MESSAGE` and goes on with its own remaining length, 0 by default: the empty chunk completes a
  "message" that is the beginning of a token.
- `token_description`: fields are stored before the signature is checked and `valid` is not
  cleared, so an unsigned description inherits the validity of the one before.
- `split_token`: the display data comes from the first chunk only. An origin that ends in a later
  chunk is never compared with the reserved prefix.
- `late_data`: the fee is worked out at the chain; a data field that follows is not counted.
- `data_size`: `data_buffer[idx - 2]` and `[idx - 3]` are the last characters of the data only if the
  chunk reaches that far back; a cut just before the closing quote makes the size depend on other bytes.
- `validity`: the comment above `seconds_to_time` gives 1234 seconds as `20min 34 sec.`; they are shown as `20min 34`, since
  the text is limited by the size of the number buffer. (And `h > 24` shows 24h to 25h in hours, where the comment
  says more than one day.)

More behaviours were met and are recorded as hazards rather than findings, as no document, comment or test says
otherwise.

- A login token is signed with the account selected by `SET_ADDR`, while the address shown and returned is the
  one in the request.
- A first token chunk longer than announced is refused after its origin was taken for display, and the
  session goes on without its bytes; so does one whose hashing fails. A first chunk too short for its header is refused after the remaining length and the
  address were cleared; an empty continuation of a session that was open then signs its unfinished hash and shows a
  blank address. `TokenReviewShowsToken` and `TokenHasAnnouncedLength` fail for such hosts.
- A refused reserved origin or token amount leaves the session open.
- `parse_int` looks for overflow by comparing with the number before: some numbers beyond 64 bits pass.
- The length of a transfer's data is taken as a `uint8_t`: of 256 base64 characters or more, a part is decoded.
- `atoi` wraps: a validity of more than 2^31 seconds is shown as what it wraps to, and without a number if that is negative.
- A chain id of 4 to 128 characters runs over the fields behind it (`parse_tx.c:314`). One of 120 or more that comes after the
  guardian leaves the guardian out of the review, or shows another; one of 68 or more after the data does the same to the amount of a transfer.
- A token description with a ticker of 11 to 31 characters is accepted; when its amount is shown, `suffix` is written behind
  its end (`parse_tx.c:48`). What becomes of the stack is not modelled.
- Bytes behind the last brace, in the chunk that has it, are hashed and signed, but not read.
- A name that goes on behind that of a field is taken for it, all but `receiver`: `dataX` is `data`. Of such a
  data field the size is not counted, and the one shown is that of an earlier text; so it is of a data field written as a number.
- The zero bytes of a token are left out of its origin.
- The zero that ends an origin of `MAX_AUTH_TOKEN_ORIGIN_SIZE` characters or more falls one place behind the array.
- For more than 30 decimals the guards of `make_amount_pretty` can pass an amount that is longer than its buffer.
- The name buffer keeps the tail of a longer name: an unknown shorter name that this tail
  completes is taken for the field.

## 5. The proofs

The theorems about the device are about `Spec`, for every set of addresses, bytes, tokens, commands and failures
allowed by the assumptions named in the modules (`AddressAssumption`, `AuthTokenAssumption`,
`EsdtInfoAssumption`, `ValueAssumption`, `DeviceAssumption`: the commands are well-formed
APDUs, of any length and number). Those about texts are for every set of texts and inputs and every width and
size (`JsonTextAssumption`, `NumbersAssumption`, `EsdtDataAssumption`, `TokenTextAssumption`, `DocumentAssumption`).
A theorem with hypotheses of its own states them in its ASSUME; they are explained here.

### Device, messages and tokens (`Device_proof`, `Signing_proof`, `Review_proof`, `Session_proof`, `Token_proof`)

- `LinkInvariant` is the inductive invariant under the others. `ReviewHoldsTheLink` alone is not
  inductive: between the end of a handler and the next `io_exchange` it says
  nothing. `LinkInv` adds what holds there: either a reply is in the buffer, the flag is clear and the menu
  is shown, or a review is shown, the flag is set and the buffer is empty. Its step needs
  `HandlerOutcome`: every path of every handler ends in one of these ways.
- `ReviewsHoldTheLink`, `ImplementsExchange` (refinement of `Exchange`) and
  `SignaturesAreApproved` follow from it.
- `TypeCorrect`: in particular the subtraction of a chunk's length from the remaining length never
  underflows, although the lengths are unsigned in C. `TypeOK` leaves out `tx_context` and `auth_display`;
  `TransactionInv` and `ShownInv` say of them what is needed.
- `ReviewsAreSigned`: a handler that shows a review has just signed it (`MessageReview`,
  `TokenReview`, `TransactionReview`), and no handler runs while a review is shown (`LinkInv`).
- `MessagesAreNotTransactions`: under `HashesAreStarted`, that neither `cx_keccak_init` nor
  the hashing of the prefix fails. Without it the property is false: the handler opens the
  session before it starts the hash, so a failing start leaves a session with the hash of the
  previous one.
- `SettingsStay`.
- `RefusedChunksKeepSessions`: for any host and any failures; every path that ends in one of the two
  status words has left the session alone.
- `ReviewedMessageIsComplete`: for hosts that ask for no tokens (`NoTokens`) and when no call that starts a
  hash fails (`MessagesAreStarted`). The invariant is an account of bytes: while a session is open, the bytes in the hash
  and the remaining length add up to the announced one; under review nothing remains.
- `ImplementsMessageSession`: under the same assumptions the device implements `SigningSession`. A
  step of `Receive` is a chunk or a stutter by the account of bytes, `Approve` releases what
  is under review by `LinkInv` and `ReviewedIsSigned`, everything else leaves nothing released.
- `ReviewedTokenIsComplete`: for hosts that sign no messages (`NoMessages`) and send first chunks with their header
  (`HeadersAreWhole`), when no call that starts a hash fails (`TokensAreStarted`). A refused reserved
  origin leaves a finished hash in an open session (`RefusedOrigin`): the
  invariant keeps that case apart and shows that the origin on display goes on to be refused.
- `ImplementsTokenSession`: the same for the second instance of `SigningSession`. The finished hash of a refused
  origin counts as a session that stays closed.
- `ReviewedTokenIsShown`: the origin under review is a part of the token, less its zero bytes. `ShownInv` ties the display to the hash while the
  token is still open: what was read off the first chunk is a beginning of the text that is hashed. It needs
  two assumptions more, because the display is filled before the chunk is absorbed: no first chunk is longer than announced
  (`FirstChunksFit`) and hashing a chunk does not fail (`ChunksAreHashed`). Without either the property is false (section 4).

### Transactions (`Transaction_proof`)

`TransactionsAgree` is the inductive invariant, for all hosts and all failing calls. `TransactionInv` relates the fields of the
parser to the items of the hash: while a text is open, `tx_context` holds the last value of each field among the
members hashed since the text began, with the fee and amount worked out at the last chain, and with what a long chain id read after the data or the guardian has left there; and a review shows these
fields of a hash that ends with the text. It leaves room for hashes over two texts, which a refused amount makes possible.
A step of a handler is a fold over the pieces of a chunk; `ParserSteps` shows that the fold exists, and the proof goes over
the pieces by `SetInduction`. From the invariant:

- `ReviewsShowTheDocument`, `ReviewsShowTheCosts` and `ReviewsShowTheTransfer`: the three properties of the reviews, with
  their premises about chain ids (`NotOverrun`);
- `DataIsTakenWithTheSetting`: an action property; that a chunk without the setting brings in no data is
  again an induction over its pieces.

### Texts and numbers (`Text_proof`)

- `ReaderStaysInBuffers` (about `TextSpec`): for all texts and cuts, nothing is written outside the buffers of name and
  value, and beyond the buffer only the data is counted. `BuffersHold` is inductive with the types of `ReaderInv`;
  the step has one case per parser state.
- `AmountStaysInBuffer`: from `PrettySize`, a bound on the bytes `make_amount_pretty` writes, which
  rests on lemmas on the lengths of joined, cut and trimmed texts. It has no hypothesis about tickers or decimals but those in
  `PrettyFits`.
- `NumbersAreRead`: `parse_int` against the value of the digits, by induction over the positions, with the
  comparison that stands for the overflow check.
- `FeesAreNear`: for all limits and prices, and data whose move fits `W64`, if a product of two numbers of the
  smaller width fits the larger one (`W64 * W64 <= W128`, true of 2^64 and 2^128).
- `AmountsKeepTheirValue`: from the shape of the text (`ZerosFollow`: what is left of the digits, with the zeros
  that were cut, is the digits), for all digits and decimals.
- `LengthsAreDecimal`: by strong induction over the number; the search for the highest power of ten stops
  in time although the power itself overflows (`W32 > 1`).
- `TransfersAreRead`: for data that is a transfer (`IsTransfer`), if the digits its buffer holds fit the width; from
  lemmas on the place of each separator and on the digits, one by one.
- `ValiditiesAreThoseOfTheInt`: `atoi` and `seconds_to_time`, for texts of any length, wrapped or not (`TtlIsReadAsInt`: `atoi`
  gives the number of the digits modulo `IntValues`, as a signed number), for `MAX_INT_NUM_DIGITS >= 10`; the code has 10.
- `OriginsAreShown`: for all origins whose encoding fits the buffer (`EncodingFits`) and a reserved prefix without question
  marks, of which the code's is one. `OriginIsDecoded` gives the decoded text as the printed bytes with at most two
  question marks behind them, from the four characters of a group (`GroupIsDecoded`) and the padding (`PaddingFits`);
  `EndIsTaken` and `EndsAreShown` say what is left of it on the screen.

These theorems have as hypotheses that the inputs are what their callers pass: texts are sequences of characters, amounts
sequences of digits 0 to 9, origins of bytes, numbers within their width. The set `Input` of `MCText` satisfies them.

### Screens (`Screens_proof`)

`ScreensInvariant`: `ScreensInv` says that what the cursor has passed, or the counted pairs, has been seen, and that the switch
shows the setting. From it `SwitchIsSetting`, `FlowsAreLargeEnough` and `PairsAreEnough` (with the code's array sizes,
`ArraySizes`), and `ScreensAreAnInterface`: both kinds of device implement `UserInterface`.

### Induction

The library's theorems for induction over numbers take the predicate as an operator, which the provers
cannot instantiate. A set can be instantiated: `SetInduction` (and its copy
`NatSetInduction` for the texts) says that a set with 0 and the successor of each of its numbers holds all natural numbers;
it comes from `WFMin` of the library, as the strong induction of `LengthsAreDecimal` does. That a recursive function
has the values its definition gives it (`ParserSteps`, `ReadingSteps`, `ItemByItem`, `DigitByDigit`) is proved in the same
way: one that is defined up to a position is extended by the next.

### Only model-checked

`EveryCommandAnswered` is liveness under fairness, beyond the prover. `ReadsAsWritten` and
`DataSizeCounted` relate the reader, over the whole of its behaviour, to the text: the invariant would have to say for each
position of a text what the reader has taken of it. No module declares a RECURSIVE operator.

## 6. Not modelled

Bech32 and hexadecimal encodings (an encoded address is the account it stands for); elliptic-curve
cryptography and key derivation; the vendored `uint256` and `ledger-zxlib` (their arithmetic is
arithmetic modulo 2^w in `Numbers`); the fuzzing harness and the Go test application, which only send
input; wording, fonts and layout. In the chain of modules of the device a chunk of a transaction ends between two members;
`JsonText` shows that the reader takes the same members when it ends anywhere. What stands behind the last brace is, in the device, more of such pieces. In `JsonText` the requirements of
`process_field` on values are left out, in `ParseTx` the characters. The device's model shows reviews as one
screen, the screens' model takes a request for a review as given; `UserInterface` is the
contract between them: a review stays until it is decided, and one decision answers it.

## 7. State of the plan

Done: the shared state and all handlers, the device and the exchange; the signing session and its refinements; the
reader at its own grain; the functions on numbers, amounts, times and origins; the screens of both kinds of device;
the proofs of section 5, with both refinements of `SigningSession`, the interface of the screens and the properties of
the reviews. What could follow: `ReadsAsWritten`, as a refinement with a
history of the members taken; and `DataSizeCounted` from it.
