# A verification project for stacks.js

stacks.js is a set of TypeScript client libraries: Gaia storage, sign-in,
wallets, transactions, Stacking, names, and a command line. Nearly all of it is
asynchronous client code: a function reads some state (a localStorage entry, a
node, a hub), awaits, and then acts on what it read, while other pages, devices
and calls do the same. Most specifications here follow that code from await to
await and ask what survives the interleavings, the lost answers, the retries and
the sign-outs in between; the others take the algorithms that have no state
(codecs, command lines, contract calls) and compare them with what they are for.

All paths below are relative to `src/packages/`.

## 1. The parts of the system

| part | source | state | operations | interacts with |
|---|---|---|---|---|
| Gaia storage | `storage/src/storage.ts` | none of its own; per call, the variables that live over its awaits | `putFile`, `getFile`, `deleteFile`, `listFiles`, `getOrSetLocalGaiaHubConnection`, `setLocalGaiaHubConnection` | the session store (whole-record read and write), the hub (HTTP) |
| hub client | `storage/src/hub.ts` | none | `uploadToGaiaHub`, `deleteFromGaiaHub`, `connectToGaiaHub`, errors from statuses | the hub |
| user session | `auth/src/userSession.ts`, `sessionStore.ts`, `sessionData.ts` | user data with hub config, transit key, etags, in localStorage or in memory | `generateAndStoreTransitKey`, `handlePendingSignIn`, `signUserOut`, `loadUserData` | storage, the authenticator through redirects |
| authentication messages | `auth/src/messages.ts`, `verification.ts`, ... | none | make, sign, verify and decode tokens | user session, wallet, command line |
| wallet | `keychain/src/wallet/index.ts`, `identity.ts`, `profiles.ts` | identities, the wallet config and its copy at the hub, profiles | `createNewIdentity`, `restoreIdentities`, `getOrCreateConfig`, `updateConfigWithAuth`, `makeAuthResponse`, `refresh`, `registerSubdomain` | the hub (no etags), the registrar |
| transaction signing | `transactions/src/signer.ts`, `authorization.ts` | the transaction, the running sighash, `originDone` | `signOrigin`, `appendOrigin`, `signSponsor`, `resume` | builders |
| transaction builders | `transactions/src/builders.ts` | none | nonce and fee lookup, sign, broadcast, sponsor | the node |
| Clarity values, wire format | `transactions/src/clarity/`, `types.ts`, `payload.ts`, `postcondition.ts`, `contract-abi.ts` | none | construct, serialize, deserialize, match a type, parse an argument | builders, read-only calls, command line |
| Stacking | `stacking/src/` | none | `canStack`, `stack`, `delegateStx`, `delegateStackStx`, `stackAggregationCommit`, `getStatus` | the node, builders |
| names | `bns/src/` | none | `buildPreorderNameTx`, `buildRegisterNameTx`, ..., `canRegisterName`, prices | the node, builders |
| encryption | `encryption/src/` | none | ECIES, ECDSA, mnemonic encryption with a legacy fallback | everything |
| command line | `cli/src/` | a shared network adapter with a coercion flag; an authenticator over HTTP; a directory of dumped files | one command per process; `handleAuth`, `handleSignIn` | the node, the hub, names |
| profiles, network, common | `profile/`, `network/`, `common/` | none | tokens, URLs, a fetch wrapper | everything |

What would make each part correct, and where it is hard (the hazards, with
lines and the properties that watch them, are in `PROJECT.json`):

* **Storage.** `putFile` copies the whole session at its start and writes the
  copy back after its uploads, while every call, page and sign-out works on the
  same entry; the hub's preconditions (`If-Match`, `If-None-Match`) are all that
  protects a file; retries after 401 and 409, two parallel uploads of a signed
  put, two requests of a signed delete, one retried page of a listing. *Correct
  when* nothing is overwritten that the session has not seen, a call that
  resolves did its work, a retry neither repeats a write nor uses the
  configuration that failed, every call settles, a listing gives each file once.
* **Session.** Sign-ins, file operations and hub connections read the session
  before awaits and write after them, through a store that hands out copies or one
  that hands out its live object; the hub connection and the session of one file
  operation are read at different awaits. *Correct when* one user's data is not
  used for another, nobody is signed in but by a sign-in, and a response is
  accepted only while its request stands.
* **Wallet.** The config and the profiles are read, changed and written back
  whole with no precondition; an error of a read looks like an empty result.
  *Correct when* a device loses nothing it knew, entries go to the identity they
  belong to, and names to the identity that registered them.
* **Signing, builders.** The sighash chain is order dependent; a sponsor changes
  the caller's object over awaits; a nonce is read and used later. *Correct when*
  what is made verifies, and transactions made one after the other can all be
  confirmed.
* **Stacking.** Four answers, made at different blocks, decide together.
  *Correct when* a refusal by the contract follows from what changed after them.
* **Wire format, calls.** Two's complement, lengths of bytes and of characters,
  prefixes, lists in lists; a hash made in one transaction and revealed in the
  next. *Correct when* what is written is read back, and calls mean what was
  asked for.
* **Command line.** Requests run concurrently over one adapter; the schema of
  the arguments and the handlers that read them are written apart; a dump waits
  for hundreds of transfers. *Correct when* words reach the handlers as they were
  given, a profile goes with its own identity, and a dump that ends is complete.

## 2. The modules

| module | models | checked in |
|---|---|---|
| `GaiaHub` | the hub and the network: files with versions, tokens that age, requests and answers in flight, failures | with `GaiaStorage` |
| `GaiaStorage` | `putFile`, `getFile`, `deleteFile`, the session entry, sign-in and sign-out | `MCGaiaStorage` |
| `ConditionalFiles` | abstract: conditional files, and calls that act on them in one step and say truly what they did | |
| `GaiaPromise` | the refinement mapping from `GaiaStorage` to `ConditionalFiles` | `MCGaiaStorage` |
| `GaiaStorageProofs` | theorems about `GaiaStorage`, and that it implements `ConditionalFiles` | |
| `Buckets` | `listFiles`, `gaia_dump_bucket`, `gaia_restore_bucket` | `MCBuckets` |
| `AuthSession` | the session in both stores under sign-ins, puts and deletes, reads and hub connections | `MCAuthSession` |
| `WalletConfig` | one seed on several devices: identities, config, profiles, names | `MCWalletConfig` |
| `Signing`, `Builders` | sighashes and conditions; the make functions, sponsoring, broadcasting | `MCBuilders` |
| `Stacking` | `stack`, `can_stack`, `stacking_status` over a chain that moves | `MCStacking` |
| `Authenticator` | the command line's authenticator with concurrent requests, and `gaia_sethub` | `MCAuthenticator` |
| `CliSchema`, `CliArgs` | the arguments and handlers of every command; options, keywords, positions, the schema check | `MCAlgorithms` |
| `CommandLine` | what a command line says, read from left to right, and what `CliArgs` must make of it | `MCAlgorithms` |
| `ClarityCodec`, `TransactionCodec` | Clarity values, typed arguments, transactions on the wire | `MCAlgorithms` |
| `ContractCalls` | the calls of the name and PoX contracts | `MCAlgorithms` |
| `BucketsProofs`, `AuthSessionProofs`, `WalletConfigProofs`, `BuildersProofs`, `StackingProofs`, `AuthenticatorProofs`, `CommandLineProofs` | theorems about the module they are named after (`BuildersProofs` about `Signing` too, `CommandLineProofs` about `CliArgs` and `CliSchema`) | |

Operators marked *(seeded fault)* are variants of the definition that follows
them with a plausible mistake; nothing uses them. They show that each property
notices its mistake.

### GaiaHub and GaiaStorage

The hub is not in the repository. Its behaviour is what the requests of `hub.ts`
and the statuses it distinguishes imply: a POST with `If-None-Match: *` is
performed only when there is no file, with `If-Match` only when the etag is the
current one (412 otherwise), a token is accepted or answered with 401, a missing
file gives 404. A *version* stands for an etag: each accepted POST makes a new
one. A *token* is the age (`epoch`) it was made at; `ExpireTokens` makes the hub
refuse the older ones. `net` holds the HTTP exchanges, pending or answered; any
can be served or answered in any order, a request or an answer can be lost
(`fetch` rejects), and the hub can answer 5xx or 409. `effects` and `seen` are
history variables: what the hub performed for each call, and the etags each
session has received.

`store[s]` is the localStorage entry of session `s`. Several calls (pages, or
concurrent promises of one page) share it through `SessionOf`. `op[c]` is the
operation call `c` is in: its options, the point between two awaits where it
stands (`phase`), the attempt, and the variables its continuations close over.
The source's awaits cut it into the actions:

| source | actions |
|---|---|
| `getOrSetLocalGaiaHubConnection` | `PutFile`, `GetFile`, `DeleteFile` (each starts a call and connects when there is no config) |
| `setLocalGaiaHubConnection` | `Reconnect`, then `Connected` = `ConnectFails`, `ConnectAfterSignOut` or `Connect` |
| `putFile` before its uploads | `PutOversized`, `PutBegin`, `PutEncode` |
| `uploadFn` and the retry | `PutAnswered` = `PutPartDone`, `PutResolves` or `PutFails` |
| `getFile` | `GetForeignFile` (multi-player), `GetBegin`, `GetAnswered` |
| `deleteFile` | `DeleteBegin`, `DeleteAnswered` = `DeletePartDone`, `DeleteResolves` or `DeleteFails` |
| `handlePendingSignIn` (its last step), `signUserOut` | `SignIn`, `SignOut` |

Where reading and writing of the session are in one synchronous stretch the
action reads `store` and writes it; where an await is between them the action
writes a copy that an earlier action took.

Abstractions. Contents, encryption and signatures are not represented; a put is
`plain`, `sealed` (encrypted) or `signed` (two uploads), with the application's
own keys left out. Whether a content is larger than the hub allows is a free
choice. The profile lookup of a multi-player read is one step with the read.
`getFile` ends with the answer of its download. The etags of `.sig` names are not
kept: `putFile` never stores them. A sign-in is the last step of
`handlePendingSignIn` (`AuthSession` has its awaits). All sessions are in
localStorage. Bounds: `MaxPuts`, `MaxSignOuts`, `MaxFaults`, `MaxExpiries`.

### ConditionalFiles and GaiaPromise

`ConditionalFiles` is what an application may believe about the client, with no
session, token, request or retry in it: a version of a content is replaced only
by a client that knows it (or was told to ignore versions); a signature is never
replaced; a put or delete that resolves has done all it was asked to; what is
stored twice is said. `GaiaPromise` maps `GaiaStorage` onto it: the hub's files,
the etags a session has received, and calls that are open from their invocation
until they settle. Stating it brought out one exception, which `Store` names: a
signed put whose `.sig` upload is answered with 409 is tried again whole, and
when another page has deleted the content in between it is stored twice.

### Buckets

One command at a time: an application's `listFiles` with a callback that may
stop it, a dump, a restore. `run` holds the variables of `listFilesLoop` (page,
`callCount`, `fileCount`) and the transfers. Files are places in the hub's order,
so that a page is what comes after a marker (`After`), whatever was written
before it. The
downloads of all batches start at once, because `batchify` only groups them:
`Fetch`, `FetchFails` and `Write` interleave freely, and `DumpResolves` and
`TransferFails` wait as the chain of batches does. The command line imports
`listFiles` and `putFile` from the published `blockstack` package
(`cli/package.json:102`); the listing is taken to be the one in this repository.

### AuthSession

`data` is the current session object, `kind` which store it is in. In the live
store a call that has read the session keeps the object itself, also when a
sign-out has installed a new one; in localStorage it keeps a copy. `BeginSignIn`
to `EndSignIn` follow `handlePendingSignIn`: the read, the verification, the
decryption of the application's key with the transit key that was read, the
profile, the write. File calls and hub connections are here with only what they
do to the session:

| source | actions |
|---|---|
| `getOrSetLocalGaiaHubConnection` | in `BeginFile` and `BeginRead`; `EndConnect`, `ConnectFails` or `ConnectAfterSignOut` when there was no config |
| `putFile`, `deleteFile`: the session is copied after that await (`storage.ts:512`, 639) | `CopySession` |
| their retry with a new connection | `Reconnect` |
| the copy is written back with the etag, or without it | `PutDone`, `DeleteDone` |
| `getFile` of one's own or another user's file | `BeginRead`, `BeginVisit`; `ReadDone` stores the etag in the session of that moment (`storage.ts:295`) |

A call goes from `connect` to `chosen` (the config is in hand, the session not yet
copied) to `running`, and after a retry's connection to `again`. `data[o].etag`
stands for the etag of one path: it is the user whose file it is of.

`since`, `seen`, `spanned` and `visited` are history: what has happened to a
request since it was stored, and to a call since it copied the session (`moved` is
a user that changed before that); whether a call wrote to this session although
its user had changed since the call began, and whether another user's file was
read into it.

### WalletConfig

`config` is the encrypted `wallet-config.json`, `profile` the `profile.json` of
each identity (its `apps`: for each application at most one entry, the identity
whose storage the application is told to use, so that publishing replaces the
entry that is there), `owner` the registrar; `dev[d]` is what a device's process
holds: identities, its copy of the config, and the shared `DEFAULT_PROFILE`
object, which the code changes in place; `shared` is history, the entries it has
ever held. The calls of a device run concurrently. `Restart` empties the memory.
`MaxIdentities` bounds the index of an identity a call may begin to make. Failures
are errors of `fetch`, and answers the code does not look at: `uploadToGaiaHub`
returns whatever the hub said.

### Authenticator

`req[r]` is an HTTP request to the authenticator or a run of `gaia_sethub`;
`coerce` is the adapter's flag. `Auth` reads the names of each address, looks all
names up in parallel and fills in profiles and URLs by position (`FilledIn`: an
identity takes the answer that has its rank among those that came); `shown` keeps
the page a request was given.
`SignIn` connects, reads the profile (`ProfileRead`) and uploads it changed; the
hub's storing it (`HubStores`) and the handler's going on to redirect (`Uploaded`)
are two steps, with the answer under way between them, or lost (`UploadAnswerLost`).
A request is `raced` when another upload of the profile comes anywhere between its
reading and its answer. `OldLinks` are links of pages that some browser has open at
the start (`Right`: each names an identity of its address).
Profiles hold, per application, whose address its entry has. The bearer nonce of
a link is the authenticator's (`Restart` makes a new one).

### Signing and Builders

A sighash is the sequence of what was hashed into it, a signature is a key and
the hash it signs: cryptography is opaque, but order, auth flags, fees, nonces
and key encodings are all there. `SignAll` is the loop of the builders over
`signerKeys`. The empty string that `verify` returns for multi-sig is `NoHash`.
`NodeVerifies` is external: the rule of the node `authorization.ts` works for.

`txs[c]` is the object make call `c` has created, `op[c]` the call with its
options and the request it waits for; `sponsorTransaction` changes the caller's
object, so `op[c].tx` is a reference and several calls may hold the same one.

| source | actions |
|---|---|
| `makeUnsignedSTXTokenTransfer`, `makeSTXTokenTransfer`, `makeUnsignedContractCall`, `makeContractCall`, `makeContractDeploy` | `Make`, `AbiValidated`, then `FeeEstimated` and `NonceFetched` when they are not given; the last of them signs (`MakeFinish`) |
| `sponsorTransaction` | `Sponsor`, `FeeEstimated` (changes the caller's object), `NonceFetched`; the last of them sets the sponsor and signs (`SponsorFinish`) |
| a request that fails, a call that does not agree with its ABI | `RequestFails` |
| `broadcastTransaction` | `Broadcast` |
| the node (external) | `NonceRead`, `Confirm` |

What comes after the last await is one synchronous stretch and one step. The
sponsor's signer works on a deep copy of the transaction but on the same
condition object. Abstractions: payloads and post conditions, the network, the
sponsor's hash mode (P2PKH), and fees as a product of rate and size. Options name
at least one public key (`BuildersAssumption`).

### Stacking

`height`, `min` and `account` are the chain; `Mine`, `MinimumChanges` and
`Transfer` move it between any two of a command's reads. `ReadBalance` to
`ReadEligible` are the parallel requests of `canStack`, `Decide` its verdict (and
`stack`'s), `MakeContractCall` the nonce, `Broadcast` the answer; `ConfirmStack`
is the PoX contract's own checks (external). `moved` is history: what has changed
since a command's first request.

### The algorithms

`CliSchema` gives, for each command of `argparse.ts`, its argument names, how many
are required, the patterns, and how many its handler in `cli.ts` reads.
A word is a member of a small set of samples, and a pattern the set of samples it
matches. `CliArgs` is `getCLIOpts` (one letter at a time over the words that are
left), `getCommandArgs` (keywords, then positions, merged), `checkArgs` and
`CLIMain`, with the loops as recursive functions along the words. `CommandLine`
is the reference: it says of each position of a line whether it is an option, a
value, a keyword or an argument, with no state that is passed on (`LineSays`).
`ClarityCodec` and `TransactionCodec` write sequences of bytes and read
them as `BufferReader` does. Integers have `IntSize` bits (128 in the code),
strings `MaxString` characters (128), amounts 2 bytes for 8, signatures 2 for 65.
`ContractCalls` is the arguments of each call and what it is read as.
`MCAlgorithms` has one variable, the input, that its actions choose step by step,
and the other reference definitions: what a transaction is when it is read back
(`AsRead`), the hash a registration must reveal. The codecs are RECURSIVE
operators over nested values, so they are checked by TLC only.

## 3. The runs

In all of them an execution may stop (nobody makes a further call), so deadlock
is not an error.

| run | instance |
|---|---|
| `uploads` | two calls on one session, 2 puts (plain, signed, ignoring etags), 2 expiries |
| `pages` | two calls on one session, two users, 2 encrypted puts, multi-player gets, deletes, 1 failure, 1 sign-out |
| `devices` | two sessions of one user, one call each, 2 puts, gets and deletes, 1 failure, 1 expiry |
| `settle` | two calls on one session, 1 signed put, gets, signed deletes, 1 failure, fairness |
| `sponsors` | four calls, each a make (a sponsored transfer, an unsigned call with ABI, a deploy, six multi-sig transfers, one of them with a key that is there twice) or a sponsor (two accounts), two fees, failures without limit |
| `session` | three calls (two of them a sign-in, a put or a delete, the third a put or delete, a read, a read of another user's file or a hub connection), either store, two users, 2 requests, 1 sign-out |
| `wallet` | two devices, three calls and any number of restores, two apps, one name, 1 failure, 1 restart |
| `signin` | three requests (a sign-in, one of any kind, one that is a page of identities or `gaia_sethub`), two applications, three names at two addresses, one of them expired, one page open at the start, 1 failure, 1 restart |
| `stacking` | two commands, cycles of four blocks, two minimums, an amount that leaves just the fee |
| `bucket` | three commands over four names (one filtered, two with one path), pages of two, batches of one, 1 write, 1 expiry, 1 failure |
| `algorithms` | command lines for every command, 17 simple Clarity values and what holds them, typed inputs of every ABI type, transactions in which each part in turn takes all its forms, requests to the contracts |
| `no_data_ignored` | the instance of `signin`; expects a violation |

What they check:

* `PutOutcome`: a put that resolves stored every file it was to store; a put of
  one file that is rejected with an HTTP status stored nothing. (With a lost
  answer the caller cannot know, and the property says nothing.)
  `PutWritesOnce`: a put stores its content at most once, over both attempts,
  except a signed put that ignores etags. `RenewalHelps`: a put refused with 401
  was refused twice, the second time with a token renewed during the put.
* `KeepsPromise` (refinement): every step of the client, the hub, the network
  and the session is a step of `ConditionalFiles` or changes nothing there.
* `NoUnseenOverwrite`: an upload replaces a version only when its session has
  received that version's etag, or ignores etags; a `.sig` is never replaced.
  `PutRemembersItsVersion`: after a put resolves, the etag in the session is that
  of the version it wrote.
* `DeleteOutcome`: a delete that resolves has removed the content, and with
  `wasSigned` the signature, itself. `NobodyWaitsInVain`: for everything a call
  waits for there is an exchange under way, or an answer with which it can go on.
  `CallsSettle`: every promise settles.
* `OriginStaysValid`: the origin of a transaction a make function resolved with
  verifies *exactly* when the options were in order, and no sponsor call changes
  that. `SponsoredStaysValid`: when all sponsor calls on an object have resolved,
  nodes accept it, and it charges one of the sponsors what that call settled on.
  `SponsorSigns`: when a sponsor call resolves, the object charges that call's
  key, fee and nonce. `SingleSigNoncesIncrease`: a nonce that was looked up is
  beyond those confirmed when the call started (single-sig payers).
* `TransitKeyLost`, `ReplayRefused`: a response cannot be decrypted only for a
  reason (a second request, a sign-out, a call that wrote back what it had read
  earlier), and once signed out an old response signs nobody in, unless such a
  call wrote its transit key back. `SessionOfOneUser`: the hub connection is the
  signed-in user's, unless a call ended in a session of another user than it began
  in (or took its connection from); so is an etag, unless, besides, another user's
  file was read at its path. `SignedInBySignIn`, `EtagForgotten`: who can be
  signed in by what, and what can make an etag disappear. The exceptions are the
  code's: each names the one kind of overlap that does it, and that no other does.
* `UsernamesOwned`, `KnownAppsKept`, `ForeignAppsFromDefault`,
  `EntriesReadAreKept`: a name on a device or in the config is registered to that
  identity; an upload of the config removes no app its device knew; an entry of
  one identity gets into another's profile only through the shared default
  profile; publishing replaces the entry of the application and keeps every other
  that was read. With each goes the exception there is.
* `CoercionRestored`, `AppsSurvive`, `RedirectListed`, `OwnUrlsUpToRejected`: the
  adapter coerces addresses only while identities are loaded; profiles lose
  entries, of the same or another application, only to uploads that had not read
  them or were outrun; who is redirected after a request to write finds its entry,
  unless another upload of the profile came between its reading and its answer;
  URLs go with their names up to the first failed lookup.
* `AbortExplained`, `StartInCycle`, `LostToAnother`, `StatusOfOneLock`: a stacking
  transaction is refused by the contract only for what changed after the answers
  that were checked (but for the fee and an existing lock, which nothing checks);
  its start height is in its cycle except in the three blocks before a boundary;
  a nonce is lost only to another transaction; a status tells of one lock.
* `ListedOnce`, `CountTrue`: a listing gives each file once, and every file
  nobody wrote to; its number is that of the files given. `BackupHolds`,
  `RestoredAsBackedUp`: a dump that resolves holds every untouched file; a restore
  brings each back under its name, whatever was killed before.
* `ReadAsGiven`, `HandlersGetTheirArguments`: every line without a doubled switch
  or an option in place of a value is read as it says from left to right, and a
  handler is never without an argument it reads. `RoundTrip`, `AbiArgumentsFit`,
  `CallsMeanWhatWasAsked`: values and transactions come back from their bytes;
  an argument parsed for a type has it; contracts read from a call what was asked.

Each module has a `TypeOK`. It is proved in each; `pages` has it as an invariant,
because nothing else there would notice a value out of place.

Why the bounds are enough. Two calls give every pairwise interleaving of code that
has no state counting calls; a third is there where a call of another kind must
come between (`session`, `wallet`, `signin`). In `signin`, two applications are
what it takes for one sign-in to lose what another wrote, and the open page lets
two sign-ins run while a third request loads identities or sets a hub. Two puts
are needed for an etag to become stale; the hub keeps no more of a file's history
than its current version. One failure and one expiry reach both attempts of the
only retry the code makes; two expiries (`uploads`) reach the failure of the
retry. In `sponsors`, four calls are what it takes to sponsor two transactions one
after the other, or to let three sponsors meet on one. In `bucket`, pages of two
of four names have a first, a later and an empty last page, and the third command
restores after a dump that was killed. In `stacking`, five heights hold a cycle
boundary and the three blocks before it. Sizes in `algorithms` are scaled down so
that each bound (the widest integer, the longest string, one more of either) is
among the inputs.

Fairness (`FairSpec`, run `settle`): each call's continuations run when their
promise has settled (the event loop), and each request of a call is eventually
answered or lost (HTTP requests end). Nothing is assumed about the application,
the failures, the expiries, sign-in or sign-out. The other runs are of safety
and need none.

`no_data_ignored` checks the comment at `cli/src/auth.ts:344`, "ignore identities
with no data". Failed lookups are filtered out of `nameDatas` (`auth.ts:330`),
which is then read with the indices of `identities`: an expired name is offered
for sign-in with the URL and profile of a later name, and the last names are
dropped instead.

## 4. What is proved

Every safety property the runs check, except those of the codecs in `algorithms`,
is also a theorem: it holds for every value of the constants, that is for any
number of calls, sessions, devices, users, files, keys, options and failures, and
for any bounds; of command lines, for lines of any length. `PROJECT.json` lists
the theorems with the property each one states.

The assumptions are those named in the modules (`HubAssumption`,
`StorageAssumption`, `BucketsAssumption`, `AuthSessionAssumption`,
`WalletAssumption`, `SigningAssumption`, `BuildersAssumption`,
`StackingAssumption`, `AuthenticatorAssumption`). They give the constants their
types, say that sets of calls are finite where they are counted, and that the
stand-ins (`Unset`, `NoKey`, ...) are no ordinary values. Three say more, about
the world: the chain's first height is not above its bound (`Stacking`), a file
has one place in its bucket (`Buckets`), options name a public key (`Builders`).

Each proof about a state machine goes through one inductive invariant, because
no property is inductive as it stands: the property speaks of what a call ends
with, and the reason lies in what the call took with it over its awaits. Each
was checked by TLC on the run's instance before it was proved. There is a lemma
for each action (or group of actions), with a step for each conjunct it can
disturb.

| module | invariant | what it adds to the properties |
|---|---|---|
| `GaiaStorageProofs` | `TypeInv`, `Inv` | A request names the bucket of a hub config, so a call about to send one has a config (`ConfigInPlace`). Every etag in localStorage, in a call's copy of it, in a header and in an answer was received by that session (`StoreKnown`, `CallKnown`); an upload under way carries such an etag, asks for a new file, or belongs to a call that ignores etags (`Guarded`). |
| `GaiaStorageProofs` | `Faithful` | What the client knows against what the hub did: an answer of status 200 stands for one effect of its call (`Sent`, `Truthful`), what a call has gathered stands for its finished parts (`Gathered`), a plain put sends one upload per attempt (`OneUpload`), once one of the two uploads of a signed put is done, the version the other asks to replace is gone (`Spent`), a resolved call did all it was asked to (`Done`). |
| `BucketsProofs` | `Faithful` | A listing has given once, and counted, exactly the files up to its marker, but for those written to since (`UpToPage`, `Whole`); what a dump has fetched is what the bucket has, and is what it has written (`Dumped`); a restore is given the whole directory and has put what is in it (`Restored`); the last dump that resolved is still in the directory (`Kept`). |
| `AuthSessionProofs` | `Apart` | What the session that a call will write back still has in common with the one in the store: user, copy, transit key, as far as the call's history allows to tell (`SameUser`, `SameCopy`, `KeysRead`). |
| `WalletConfigProofs` | `Consistent` | Names, profiles and entries are right in every copy there is: in the files, in the memory of each device, and in what each running call is about to write (`Restoring`, `Positioned`, `Uploads`). |
| `BuildersProofs` | `Kept` | Until a make is answered its transaction is unsigned (`Blank`) and its payer has used no fewer nonces than at the start; once it has resolved, a hash from `verifyOrigin` means that the origin verifies and that a node goes on with the same hash (`Continues`); a sponsor works on a transaction that is resolved (`Sponsoring`). |
| `StackingProofs` | `Accounted` | What a running command has been answered is what the chain says, unless the history names what changed it (`Current`, `InCycle`, `NonceHeld`); what is locked is locked for the future (`LockAhead`). |
| `AuthenticatorProofs` | `InOrder` | The names a request has found are owned by the addresses it found them at, each once (`Listed`); a lookup that is done answers for its name (`Answers`); what is shown and followed is such an identity (`Linked`); a request about to upload has in hand the profile in the bucket with what it adds, unless it is marked as blind or outrun (`Ready`). |

How the main results follow:

* `NothingUnseenIsOverwritten`: `OnlyUploadsWrite` reduces the action property to
  the hub's accepted POST, and `OverwriteStep` combines it with `Inv`.
* `PromiseKept` (`Spec => KeepsPromise`): initial states map to initial states, and
  each action to one of `Ask`, `Store`, `Remove`, `Progress`, `Resolve` or `Reject`
  of the abstract specification, or to a stutter; `Resolve` needs `Gathered`, a step
  of the hub needs `Guarded`, and `OneUpload` and `Spent` when it stores something a
  second time. `PutsWriteOnce`,
  `PutsAreDone`, `DeletesAreDone`, `PutsRememberTheirVersion` and `RenewalsHelp`
  come from `Faithful` directly.
* `EveryWaitIsServed`, `SettledInEight`: the safe half of `CallsSettle`. A call that
  waits for an answer has an exchange for each part it waits for (`InHand`), and
  `StepsLeft`, a number from 0 to 8 read off a call's phase, attempt and parts, gets
  smaller with every step that changes the call, until it has settled. So a call
  settles after at most eight steps of its own, and only the fairness of the event
  loop and of the network is needed to say that these steps happen.
* `LinesReadAsGiven`, `HandlersServed` (`Lines => ...`, where `Lines` says that the
  line is a sequence of words; `TLC` finds it true of every line of the run). The
  loops of `CliArgs` are recursive functions, which `Recursion` shows to exist and
  `Along` to compute a closed form: after some letters and words, exactly the
  options met so far are taken, with their values (`Taken`, `LookOnce`, `AllTaken`);
  after some arguments the keywords met have their values and the others are in
  order, or one was misused (`ScannedTo`); after some names the merged arguments are
  those names' items (`MergedUpTo`). `KeywordStep` ties a keyword, which the
  reference finds by the parity of its place in a row, to the scan, which skips a
  value. `CommandsSized` and `HandlersFit` are facts on the tables: no command has
  more arguments than it takes, no handler reads more than the schema requires.
* `ListsEachFileOnce`, `CountsRight`: the number a listing resolves with is a
  cardinality, and the files of a page are those after its marker up to the page
  size; `Least` (a set of numbers has a least one) and the lemmas on `Place` say
  that such a page exists and joins the pages before it without a gap.
* `OriginsStayValid`: of one key, `OneVerifies`; of several, `ManyVerify`. Both
  rest on what the signing loop and the node's verification do for a sequence of
  any length. These are recursive functions: `SignersThere`, `LeftThere` and
  `HashesThere` show that they exist, `ManySign` and `UnsignedAre` what they
  compute, each by `Along` (what holds at 0 and goes on from each number to the
  next holds up to n), which is proved from the least number, so that no induction
  theorem with an operator as its parameter is needed. The attempt showed that the
  condition `InOrder` was too weak: with a public key that is there twice the old
  one held and the transaction did not verify. It has been corrected, and `sponsors`
  has such an option.
* `ForeignEntriesWereShared`: stated as what must have happened (an entry of
  another identity was in the default profile some process shares), so it is an
  invariant over history, and stronger than the step property it replaces.

Only model-checked, and why:

* `CallsSettle` is liveness under fairness, which the prover does not do; its two
  safe halves are proved (above).
* `RoundTrip`, `AbiArgumentsFit` and `CallsMeanWhatWasAsked`: the codecs and their
  reference definitions are RECURSIVE operators over nested values, and the prover
  has no induction over data.

What could be proved next: lemmas about the integer and string codecs once they are
written as functions; a signer that an application drives itself, on top of
`ManySign`.

## 5. Where code and documentation differ

Found while modelling. Those marked * were shown by a run of an earlier state of
the project; the model has kept the behaviour.

Storage:
* `putFile` writes back at `storage.ts:601` the session it read at 512. An etag
  another call stored in between is lost (*; `legacy-changelog.md:14`, "Persist
  etags in UserSession store"), and a user who signed out meanwhile is signed in
  again (*; `userSession.ts:404`, "Sign the user out").
* The retry of a signed delete uses the first config for the `.sig`
  (`storage.ts:650`; *; `storage.test.ts:64`, "deleteFile gets a new gaia config
  and tries again").
* A 5xx loses its status (`hub.ts:305`), so that "500s: possible server-side
  transient error" (`storage.ts:895`) is never reached (*).
* A listing ended by its callback excludes the last file from its count
  (`storage.ts:777`) but counts filtered entries before it on the page.
* `getFile` of another user's file stores that file's etag in the reader's session
  under the path alone (`storage.ts:295`): the next put to the same path of the
  reader's own sends it as `If-Match`.
* `putFile` and `deleteFile` take the hub connection at `storage.ts:478` and 637
  and copy the session after that await (512, 639): when the user has changed
  between, one user's bucket is written to with the etag of another session, and
  the etag it gives is stored there.
* Deleting a file on one device leaves its etag in the sessions of the others:
  their next put is refused with 412 until they read the file.

Transactions:
* The nonce of a multi-sig sender is looked up under the single-sig version of
  its address (`builders.ts:375-380`, 788), which no node knows: it is always 0
  (*; `builders.ts:261`, "must be increased monotonically").
* `sponsorTransaction` without a fee, on a signed standard transaction, sets the
  origin's fee, which the signature covers, and then throws. A multi-sig origin
  cannot be sponsored: `verify` returns the empty string for it
  (`authorization.ts:457`, a TODO).
* `uintCV(-1)` is 2^128 - 1: the error "Cannot construct unsigned clarity integer
  from negative value" (`intCV.ts:33`) is never reached. `intCV` accepts
  2^127..2^128 - 1 and wraps.
* `stringCV` makes an ascii string whatever its encoding, and a non-ASCII one does
  not come back from its bytes; a 128-byte contract name can be written but not
  read; a buffer cut short is read without error, as a shorter one; a memo comes
  back padded with zeros, a key of an uncompressed field compressed; poison
  payloads are only their type.
* `encodeClarityValue` takes `0` and `1` for booleans and lower-case `true` and
  `false` only; `parseToCV` (`contract-abi.ts`) the words in any case, and no digit.
* `matchType` takes a list only of exactly the declared length, and a tuple with
  extra entries; the type string of an empty list throws.

Names and Stacking: `makeBnsContractCall` drops `attachment`; a preorder takes a
name that its registration cannot reveal; a PoX address of the other Bitcoin
network is accepted; `modifyLockTxFee` with a fee above the amount encodes the
difference. `stack` checks neither the fee (when the whole balance is stacked)
nor an existing lock.

Session and wallet: `LocalStorageStore` stores its session options under the key
"undefined" (`sessionStore.ts:71`). Concurrent `fetchConfig` calls can replace a
newer config by an older one; two concurrent `createNewIdentity` calls make one
identity twice; an unreachable hub is taken for an empty wallet
(`wallet/index.ts:240`), whose config is then replaced by a new one; an entry that
the shared default profile brought into another identity's profile is gone after
that identity's next response to the same application, any other stays; a
device that does not know a name erases it from the config;
`uploadToGaiaHub` ignores the status. The wallet signer drops its network and
version options.

Command line: `-c` is documented but not read, `-G` reads the value of `-N`; a
repeated switch swallows the next word; all `--` are dropped and protect nothing;
surplus arguments are dropped; many commands of the schema have no handler;
`stack`'s fee and nonce arguments are not read; `get_account_history` demands a
page its handler takes as optional. The authenticator does not enforce "should be
the *only* promise chain running" (`auth.ts:304`): a request that has loaded its
identities, or failed to, turns the coercion of addresses off while another is
still loading; an anonymous sign-in writes
`profile.json` without having read it. Names `a/b` and `a\x2fb` share a path in a
dump, and a restore brings back files of earlier dumps.

## 6. What is not modelled

* A signer that an application drives itself (signing and appending in any order,
  `getTxInComplete`, `resume`): next in the plan, on top of `Signing`.
* The second download and the verification of a signed `getFile`; `getFileUrl`;
  encryption metadata of puts.
* The commands that send names and tokens: sequential calls of one package and a
  print. A transaction broadcast before its zone file is refused loses its txid
  (`cli/src/utils.ts:543`).
* The life of names and delegations on the chain: the rules are the contracts'.
* Cryptography (opaque), browser navigation, the bytes of tokens and zone files,
  key derivation, mnemonic encryption, URLs, logging, file formats, JSON forms.
