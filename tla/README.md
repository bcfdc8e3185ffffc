# TLA+ models of nvault

This directory holds a verification project for nvault: TLA+ modules translated
from the source, TLC configurations that check them on small instances, and
proofs for every instance that TLAPS checks. Paths below are relative to the
repository; `store.go:175` is a line of `store/store.go`.

## The system

nvault keeps secrets in a local, encrypted store, and transports the same
envelopes to a managed service. Nothing in it is a long-running server: every
command is a process of its own, and processes meet only in the file system.

| component | state | operations | hard behaviour | what makes it correct |
|---|---|---|---|---|
| **store** `store/store.go` | `<vault>/items`: one JSON record per slot, temporary files | Open, Set, Get, List, Delete | any number of processes without a lock; I/O errors and kills between any two system calls; power loss; records edited outside | an item is replaced whole or not at all; what was acknowledged survives; Get returns only what was sealed for that slot; List misses no slot that is there all along, or is an error; no litter |
| **init** `cmd/nvault/local.go` `initLocal` | identity file, configuration file, store directory | init | two inits at once; failure after any step and its undoing; crash between the two files; directories made on the way | nothing existing is replaced; a finished setup keeps its only key; a failed one leaves nothing; a receipt is true |
| **config** `config/config.go` | configuration file | Load, WriteExclusive, Validate, Resolve | exclusive creation, removal of an incomplete file | as above |
| **options** `local.go:80-327` | none | selectedConfigPath, localDefaults, parseLocalOptions, configuredPassphrase | flag, environment, file, default, for five settings, in several places of the code | the value used is the highest one set, and the reported source is the one used |
| **commands** `local.go:686-775` | none | set, get, list, delete | none of their own | they are one store operation each |
| **run** `local.go:777-865` | the child's environment | List, then Get per key, then the child | others change the store between the Gets | exactly the selected keys are added; the raw seams are removed |
| **doctor, config show** `local.go:867-1072` | none | reports | reports must agree with what commands do | a passing report means that commands can work |
| **crypto** `crypto/crypto.go`, `client/src/crypto.ts` | none | Encrypt, Decrypt, Rewrap, ValidateEnvelope | several recipients, re-wrapping, relocation | only current recipients open an envelope, only in its slot |
| **identity** `identity/identity.go` | none | Wrap, Unwrap | strict decoding | only the passphrase opens it |
| **strict JSON** `internal/strictjson`, `client/src/strictJson.ts` | none | Check, parseUnambiguousJSON | duplicate keys, depth; two implementations | no ambiguous document is accepted |
| **client transport** `client/src/client.ts` | loop state of `pull`, the copy of the items a call sends | policy, versions, pullPage, pull, push, delete | a server that is not trusted; pages that change while pulled; requests late, repeated or unanswered; callers that change their arrays; compare-and-swap | a pull is exact, bounded and ends; what push, versions and delete resolve to is true |
| **wire, schemagen, release, npm script, workflows** | files they write | single-shot tools | none concurrent | outside the core |

The commands call the store; `init` makes the identity the store seals to; `run`
is the one command made of several store operations; every command first finds
its settings in four layers. The client does not touch the local store: a caller
seals an envelope, pushes it, and pulls it elsewhere.

`PROJECT.json` lists every component with its status, every hazard with the line
where it bites and the properties that cover it, and every definition with the
lines it translates.

## Modules

| module | models | role |
|---|---|---|
| `VaultStore` | `store/store.go` | the store, one action per system call |
| `AtomicVault` | | what the store promises, without files |
| `VaultStoreProofs` | | theorems about `VaultStore` |
| `VaultStoreRefines` | | that `VaultStore` implements `AtomicVault` |
| `InitSetup` | `initLocal`, `config.WriteExclusive` | first-run setup, one action per system call |
| `InitSetupProofs` | | theorems about `InitSetup` |
| `PullPages` | `NvaultClient.pull` | the pull loop against any server |
| `PullPagesProofs` | | theorems about `PullPages` |
| `Envelope` | `crypto/crypto.go`, `client/src/crypto.ts` | envelopes in an untrusted store, cryptography symbolic |
| `EnvelopeProofs` | | theorems about `Envelope` |
| `SyncCas` | `NvaultClient.push`, `versions`, `delete` | any number of clients against a comparing server |
| `SyncCasProofs` | | theorems about `SyncCas` |
| `Options` | `localDefaults` to `doctorLocal`, `parseCryptoOptions` | settings, and what is said of them |
| `OptionsProofs` | | theorems about `Options` |
| `RunInjection` | `runLocal`, `setEnvironment` | a run among other processes, extends `AtomicVault` |
| `RunInjectionProofs` | | theorems about `RunInjection` |
| `MC*` | | instances for TLC, with their symmetry |

Operators commented as `Slip:` are not part of a model. Each is a definition as
a plausible mistake would have it; PROJECT.json names the definition it stands
in for and the property that then fails, which shows that the property can.

### VaultStore

Files are inodes. `items[s]` is the inode under the name `slotName(s)`, `temps`
the inodes with a `.nvault-item-*` name, `data[f]` the content of an inode and
`synced` those whose content is on the disk. A record is its plain header, the
associated data written in its envelope, and what the ciphertext was sealed
with; `Torn` is any file that is not one complete record. `pc[p]` is the next
system call of process `p`:

| operation | steps |
|---|---|
| Set | `OpenItems`, `CreateTemp`, `Write`, `SyncFile`, `Rename`, `SyncDir`, `Cleanup` (the deferred Remove) |
| Get | `OpenItems`, `Lstat`, `OpenFile` (with SameFile), `ReadItem` |
| List | `OpenItems`, `ReadDir`, then for every entry `Lstat`, `OpenFile`, `ReadEntry` |
| Delete | `OpenItems`, `Inspect`, `Unlink`, `SyncDir` |

Every call may fail (`FailWriting`, `FailSyncDir`, `Fail`, and the second
disjunct of `Cleanup`), a process may be killed before any step (`Kill`), the
machine may lose power (`Crash`), and the vault may be changed outside (`Damage`).

**The file system.** What the store calls is modelled from how it uses it.
Entries and contents are cached. `may[s]` collects the entries a name has had
since the directory was last synced, and a power loss leaves any one of them,
name by name, in any combination; `linger` does the same for temporary names. A
file that is not synced may be torn by the power loss. A directory that was just
created (`root = "cached"`) may be lost altogether, because nothing syncs its
parent. Inodes are reused, as soon as no entry, cached or stored, and no open
file refers to them: this is what SameFile (`store.go:481`) has to cope with.
`ReadDir(-1)` (`store.go:267`) is a loop over system calls that each fill a buffer,
without a lock, so reading a directory is no snapshot: `ReadDir` takes any part of the
names it has not come to (`unread`), as they are then, until none is left. As POSIX
has it, a name that is there throughout is returned, also when a rename replaces
what it refers to, and one that comes or goes meanwhile may be, at most once.

**Abstractions.** A slot stands for its file name and its associated data, which
are injective images of it (`store.go:88`, `110`; neither pattern admits a slash
or a NUL). `updated_at`, the sorting of a list, formats and the checks of
permissions, types and sizes are left out: a check that fails ends the operation
with an error, as `Fail` does. The hundred attempts of
`createTemporaryItem` are one, since random names do not collide here. The Windows
branch of `syncRoot`, which syncs nothing, is not modelled, and the durability
results do not hold there.

**Changes from outside.** `Damage` edits the file of an item in place, puts a file under
a name that had another or none, or removes a name, at any step of the others. The
record may be anything: a copy of another one with its header and associated data made
to fit, or a new one, since `crypto.Encrypt` takes no more than the public key
(`crypto.go:229`), which the identity file has in clear and init and doctor print.
`foreign` remembers what was sealed outside and for which slot; only a ciphertext that
opens for a slot it was not sealed for is beyond anybody. Such changes are taken to be
on the disk as soon as they are made, but for the name.

### AtomicVault

A map from slots to items. Set and Delete take effect at one instant between
call and return, Get reads at one instant, and List is no snapshot: it finds each slot
of its scope empty at an instant of its own (`Skip`, for any number of them), or reports
the kind the slot had then (`Report`). Any call may fail instead, and a failed Set or
Delete may have taken effect. `Settle` is where everything done so far can no
longer be lost. `VaultStore` implements it under a refinement mapping at the end
of that module (`IsAtomic`): an item is the record its file stores, Set takes
effect at `Rename`, Delete at `Unlink`, Get at `Lstat` or `OpenFile` when there is
nothing and at `OpenFile` otherwise, a List skips at `ReadDir` and reports at
`OpenFile`, and `SyncDir` settles. The mapping is for runs without `Damage`.

### InitSetup

`identity[x]` and `config` are the files, `may` and `configMay` what a power
loss can leave of them. An init is known by its number; so is the key pair it
generates, which is how the model tells one identity from another. The steps
follow `local.go:560-684`: `Begin` (options, with the first reading of the
configuration), `Validate` (the second), `Inspect` (Lstat), `Create` (O_EXCL),
`Write`, `Sync`, `SyncDir`, then `ConfigCreate` to `ConfigSyncDir` for
`WriteExclusive` unless a configuration exists or `--no-config` was given, and
`Report`. A failure goes to `RemoveConfig` and `RemoveIdentity`, the deferred
functions, which may fail too and are not followed by a sync.

`openVerifiedDirectory` (`local.go:369`) and `WriteExclusive` (`config.go:161`) make the
directory of their file where there is none (`MakeDir`), with its parents, and sync that
directory after they have written to it, but never its parent. So `SyncDir` and
`ConfigSyncDir` make the file's entry durable in its directory, `dirs[d] = "cached"`
says that the directory's own entry is not, and `Crash` may take a directory with all
that is in it, receipt or not. `swept` remembers that it did. `Within` and `ConfigDir`
say where the files are; by default identity and configuration share a directory,
and in the instance the other identity path has one of its own. The store directory
(`local.go:603`) is empty when init makes it; `VaultStore` has what becomes of it.

Of the settings, the identity path stands for all that
`validateExistingConfigSelection` compares. The initial configuration is absent
or one whose identity file is gone, which is how init meets an existing
configuration in practice.

### PullPages

One `pull` is a sequence of requests (`Ask`) and answers. The server is not in
the repository, so an answer is any `Response` or a failed request. The client
is single-threaded, and all it does between two awaits is one step: `Refuse`,
`LastPage` or `NextPage`. A page's ciphertexts are their total length, which
decides as the running sum in the loop does, since both of its outcomes throw.
`Honest` is what the word server leads a caller to expect (full pages but for
the last, one policy, no key and no cursor twice), and is used in one property
only.

### Envelope

The system is what members and the store can do with envelopes: `Encrypt`
(`sealEnvelope` is the same), `Rewrap` and `RewrapEnvelope` by the holder of any
key, of any envelope that ever was in the store, and `Edit`, the store's own
doing: the nonce of one envelope, the body of a second or a damaged one, any
associated data, and any stanzas of both, some of them damaged or relabelled as
another's. `Decrypt` and `OpenEnvelope` change nothing, so they are operators that
the properties apply to every envelope and key.

The n-th sealing has data key, nonce and plaintext n, so that a body is the
number of its sealing and its slot. A sealed box opens with the private key it
was made for, and a body with its data key, nonce and associated data. Opening is
a set of outcomes, empty for an error: where stanzas with different data keys
open, any of them may be the first. `form` is what the two decoders tell apart:
Go reads base64 that is not canonical and field names in other case
(`encoding/json`), TypeScript refuses them; a field of wrong length, an unknown
version or broken JSON is refused by both. Go's `Rewrap` returns decoded fields,
which `Marshal` writes canonically, while TypeScript's spreads the envelope it was
given. Sizes are left out, and labels are valid text: two ids that differ only in
bytes that are not UTF-8 pass `validateRecipients` and become one in JSON.

### SyncCas

`history[k]` is every write of a key, so that its version is their number;
A call is a record in
`calls`: what was passed, the client's copy of it (`outbound`), what the request
says, and at the end what it resolved to. `Push`, `Versions` and `Delete` send a
request; `Resolve` is an answer that parses and `Throw` any other end: a conflict,
a network error, an answer that is refused.

The server is not in the repository and modelled as the client needs it:
`ApplyPush` and `ApplyDelete` compare versions and write the whole batch or nothing.
Nothing else guards them. A request can be applied late,
when its caller has long given up; whether it can be applied twice, or after a retry
of it, is for the comparisons to say. `Resolve` chooses any `array`: what the caller
has made of its array meanwhile, which `Parses` must not depend on.
Answers have their results in any order, since nothing on this side orders them. A
caller passes versions it has seen. `recipientRevision` is left out: push forwards it
(`client.ts:596`) and compares nothing, so that only a server can refuse a push sealed to
former recipients. Sizes and forms of answers are as in `PullPages` and left out here.

### Options

A behaviour is one command: `Invoke` with some environment, disk and line, since
nothing runs at the same time. The code is operators: `SelectedConfig`,
`IgnoresConfig` and `ParseOptions` are the three loops that read the line, each in
its own way; `Layers` has the four layers in the order in which `localDefaults`
overwrites them; `Passphrase` and `LoadIdentity` are read again by every command;
`Crypto` is how encrypt and decrypt do it, without configuration. `Diagnosis` and
`Setup` are doctor and init.

A file is a word that says where the setting came from, so that two sources never
name one file by accident, and a passphrase file holds what it is called. `Word` is all
of them, and `Configurations` are the files that `Validate` and `Resolve` let pass. `disk`
says which configurations, identities and passphrases are there and what they are:
an identity is absent, in the clear, or locked with one passphrase. Making paths
absolute and trimming are left out, and a value is never one of the paths that
`filepath` would change. An `NVAULT_IDENTITY_KEY` that is set is a key that parses; with
one that does not, every command that needs an identity refuses to start
(`local.go:472-474`). Of encrypt and decrypt, `--aad` and `--recipient` are left out, which
name no identity.

### RunInjection

The store is `AtomicVault`, which `VaultStore` is proved to implement, and the run
is one of its processes: `Start`, a List for `--all` and `TakeList`, `Select` with
`removeEnvironment`, then `NextKey`, the Get and `SetEnvironment` for every key in
any order, and `StartChild`. `Other` is what the other processes do in between;
`past` records what each slot has held since the run began, `always` and `ever` which
keys the scope had throughout the List, and which at any instant of it: with `--all` the
first must be selected, and only the second can be (`SelectionWhole`). A List that
others disturb may well give keys that were never there together. A key that is no name
of a variable, and a value with a NUL byte, end the run, as the code has it. All keys of
the instance are names, so that `NextKey` never refuses there; the theorems do not
assume it.

## What TLC checks

All runs are exhaustive for their bounds, and all set `CHECK_DEADLOCK FALSE`
because a behaviour stops once the calls, inits or the pull it is given are
over.

| run | instance | shows |
|---|---|---|
| `store_writers` | 2 processes, 1 slot, 2 values, 4 inodes, 3 calls, 1 I/O error, 1 kill or power loss | `TypeOK`, `ItemsWhole`, `TempsOwned`, `CrashKeepsAcked`, and `IsAtomic` |
| `store_listing` | 2 processes, 2 slots of one scope, 2 kinds, 3 inodes, 4 calls, no failures | `IsAtomic` where List has more than one entry |
| `store_damage` | 2 processes, 2 scopes, 2 values, 3 inodes, 3 calls, 1 change from outside | `GetAuthentic`, `ListHonest` |
| `store_delete_twice` | no failures | `DeleteIdempotent` is **violated** |
| `store_kind` | 1 edit, 2 kinds | `KindAuthentic` is **violated** |
| `init_races` | 2 processes, 2 paths, 2 directories, 3 inits, 1 failure, 1 kill, 1 power loss | `TypeOK`, `NeverReplaces`, `ReadyKept`, `ConfigHasIdentity`, `NothingLeft`, `ReceiptTrueUnfailing` |
| `init_receipt` | 3 inits, 1 failure | `ReceiptTrue` is **violated** |
| `pull_any` | 3 keys, pages of 2, at most 2 items, 1 byte, 3 pages, 3 cursors, 2 revisions, fair | `TypeOK`, `PullExact`, `PullBounded`, `LimitsLenient`, `AsksOnce`, `PullEnds` |
| `envelope_edits` | 2 key pairs, 2 labels, 2 slots, 2 sealings, 1 re-wrapping, 1 edit | `TypeOK`, `OpensWhatWasSealed`, `MadeOpens`, `BothOpen` |
| `sync_batches` | 2 keys, batches of up to 2, 3 calls | `TypeOK`, `PushTrue`, `VersionsTrue`, `DeleteTrue` |
| `options` | lines of two options, and behind `--`; no variable, one, two that compete, or a scope that is none; 14 disks | `Precedence`, `ChildsOwn`, `ShowTrue`, `DoctorTrue`, `CryptoAgrees`, `InitUsable` |
| `run_changing` | 2 processes, 2 keys, one with the name of a seam, 2 values, one with a NUL, 2 changes by others | `RunTypeOK`, `ChildExact`, `SelectionWhole` |

**Bounds.** Two processes are enough for every race the code has, since a step
depends on its own process and on one shared entry or file; three calls give
each process a call and one of them a second, which is what makes a slot's
earlier item and an inode reused while it is inspected appear. `store_listing` has four:
two Sets fill the two slots, and a Set or Delete still meets every step of a List of
both. Four inodes hold two items and two temporary files at once. One
fault and one kill or crash meet every step of every interleaving, and the
state after a crash goes on to be used. The theorems drop these bounds for the
properties they cover. In `pull_any` three keys are one more than the items a
pull may keep, and three pages are one more than those need, as 1001 pages of ten
exceed the items in `client.ts:61-62`; an item weighs nothing or the whole of the
bytes allowed, so that each of the three limits is the one reached in some pull, and
all three pages are asked for. In `sync_batches` three calls are a push, its retry
and the call that comes between them, and two keys make a batch that can be applied
in part. In `options` two options on a line are what makes one the value, the repetition
or the opposite of another; the words F, E, C and D of one setting compete in all
combinations that a line and two variables allow. In `run_changing` two changes are
what a List and a Get can see apart. In `envelope_edits` two sealings are what an
edit mixes, two labels let one key have two stanzas or two keys one each, and the
re-wrapping comes before, between or after.

**Fairness.** Only `pull_any` assumes any. `PullPages` assumes that the client goes on and that a request is answered or
fails. The client sets no timeout, so the second is an assumption about the
network, listed as a hazard.

## Findings

1. **Delete is not idempotent under a race** (`store.go:346`, run
   `store_delete_twice`). The comment at `store.go:325` says "It is idempotent."
   Two processes inspect the item; the second Remove fails with a not-exist
   error that is returned.
2. **The kind is not authenticated** (`store.go:88`, run `store_kind`).
   `docs/ARCHITECTURE.md:31` says "It binds the scope, kind, and key into the
   authenticated slot." The associated data has the scope and the key only.
3. **An init can report a configuration that is gone** (`local.go:667`, run
   `init_receipt`). An init that starts while another one has written the
   configuration, which then fails and removes it, completes without one and
   reports it. It takes an I/O error: `ReceiptTrueUnfailing` holds.

Other places where a document, a message and the code disagree were met while
`Options` was written. They are of one command alone and have no run:

- `docs/CONFIGURATION.md:54-59` and `README.md:95-100` put every environment variable
  above the configuration, but `NVAULT_PASSPHRASE` is below `passphrase_file`
  (`local.go:190`); `Precedence` and `ShowTrue` have it as the code does.
- doctor's "built-in defaults and environment settings are active"
  (`local.go:998`) is said of a configuration that was named and is missing too,
  with which every other command refuses to start (`DoctorTrue`).
- `docs/TROUBLESHOOTING.md:69-71` says that doctor reports `NVAULT_PASSPHRASE`; it
  reports `NVAULT_IDENTITY_KEY` only.
- `promptHidden` suggests `NVAULT_PASSPHRASE_FILE` (`local.go:430`) to encrypt and
  decrypt as well, which do not read it (`main.go:211`).
- An init beside an existing configuration may be given another passphrase file
  (`local.go:554` does not compare it); later commands then do not unlock what it
  made without being told (`InitUsable` excludes it).
- An init that is given `--scope` does not look at an `NVAULT_SCOPE` that is no scope,
  with which the commands after it, given no flag, refuse to start (`local.go:280`);
  `InitUsable` excludes it.
- `--store --no-config` names a store to one loop over the line and ignores the
  configuration to another (`WellFormed` excludes values that look like options).

## What is proved

The proofs hold for every number of processes, slots, values, files, pages,
calls and every bound; they assume only what the modules' named `ASSUME`s say, and
`tlapm` checks them to the last leaf. Every invariant of the passing
runs is proved, and so are the action properties `CrashKeepsAcked`,
`NeverReplaces` and `AsksOnce`, and the refinement `IsAtomic`.

**VaultStoreProofs.** `TypeCorrect` gives the type invariant with, per process,
what its step says of its operation. `ItemsAreWhole` needs more than its
statement: `Rename` publishes a whole, synced record only because of what the
process did to its file before and because nobody else touched it meanwhile. So
the invariant `WholeInv` adds that a writer's file is its own (no name refers to
it, no other writer has it), holds the record after `Write` and is synced after
`SyncFile`, and that a Set in progress stores what was asked for. Inode reuse is
where it is delicate: `CreateTemp` takes only a file that no entry, not even one
on the disk, refers to. `AckedIsDurable` follows from an invariant on `may`: a
slot at rest can be left with nothing but its item. `GetsAreAuthentic` has an
invariant of its own, since it holds of records made outside too: every ciphertext in
any file was sealed for its slot, by a Set of that slot or outside (`SealsOK`), and
`Decoded` compares all three copies of the slot. `ListsAreHonest` rests on names
instead, since List decrypts nothing: what a List goes through, has read of the
directory or has reported was a name at an instant of the call (`around`), and
`ReadEntry` reports a record only under its own. `TempsOwned` is inductive as it is
(`NoTempLeaks`).

**VaultStoreRefines.** `RefinesAtomic`: with `MaxDamage = 0`, every behaviour of the
store is one of `AtomicVault` through the mapping of `IsAtomic`. There is one lemma
per action, which names the abstract step it is (`RenameRefines`: a Set,
`UnlinkRefines`: a Delete, `SyncDirRefines`: a Settle, `ReadDirRefines`: a Skip of the
names it does not find, ...) or shows that it is none. Two things make it true. What others do between two steps of a process changes
nothing of what the abstract vault says of that process (`OthersBar`), since nobody
writes a file that is open for reading or that a name refers to (`DataKept`); and a
name can only be left with whole records by a power loss, so what survives is an item
(`WholeInv`, from `VaultStoreProofs`). `ReadInv` adds what the mapping needs
beyond that: a file open for reading is the whole record of its slot, a List has the
entry it works on before it and has found no name it has yet to come to, and a
directory that is not there is empty. It also
assumes `AbsenceAssumption`: the model value `None` is neither an item nor a call.

**InitSetupProofs.** `SetupInv` numbers the running inits apart and says which
files each of them owns at its step. Two parts carry the theorems. `Durable`: from
the sync of the directory to the receipt the whole identity is the only version a
power loss can leave, and `Alone` (what a step of one init leaves alone) keeps that
true through every step of the others; this gives `CompleteSetupKept` and
`InitsNeverReplace`. What a power loss leaves of a directory that was lost is nothing, and
only inits begun before it can have anything there (`Swept`). `ConfigsInv` speaks of every version of the configuration on
the disk, not only of the one in place: each either has its durable identity or was
undone, and an undone one can come back only when its init has died or got stuck.
Without the versions on the disk `ConfigHasIdentity` is not inductive, since a power
loss after `RemoveConfig` brings an old one back. `ReceiptsAreTrue` has a second
invariant, `SettledInv`, for behaviours in which no call fails: an init that goes on
beside a configuration it has found, which then was there before all inits because
that init's identity was not, or that has synced its own, leaves a receipt for
something that nothing removes.

**PullPagesProofs.** The invariant says that what pull has collected is what was
sent, that the cursors followed are those asked for, and that an honest server
has sent `Limit * pageNumber` keys. The last, with the assumption
`Limit * MaxPages > MaxItems`, shows that the page limit never ends the pull of
a vault that is small enough (`LimitsAreLenient`); `Appending` is the lemma on
sequences that the duplicate check rests on.

**EnvelopeProofs.** The properties speak of opening, the invariant of parts: every
body in the store is damaged or of a sealing that happened, in its slot; every
wrapped key is damaged or went to a key its data key was given to; and every
envelope that was returned has the one form its sealing or re-wrapping gives it
(`Built`). `Edit` keeps the first two because it only recombines parts. That a
re-wrapped body has the slot and nonce of its data key follows from its having been
opened, which is why `Rewrap` must authenticate before it returns. They assume the
symbolic primitives, which stand for the security of NaCl boxes and of the AEAD.

**SyncCasProofs.** The invariant follows a write from the call to the history:
`CallsOK` (a request is its caller's argument), `WritesOK` (write v of a key is by a
call that was to replace v - 1), `BatchesOK` (a call that has written one key of its
batch has written all), and `ResultsOK`, `VersionsOK`, `DeletesOK` for what calls
have resolved to, which stays true because histories only grow. `PushesAreTrue`
follows: a call that wrote a key twice would have two expected versions for it, and
`Valid` allows one item per key. That no key has more versions than there are calls, with requests
applied late and in any order, is a pigeonhole argument over the calls that wrote them
(`SyncTypes`). `DeletesAreTrue` is the subtle one: a tombstone of version
`expected` or `expected + 1` is at most one write newer than what the caller knew,
and that write is the tombstone itself.

**RunInjectionProofs.** `RunInv` relates the run to what the store has held
since it began: a List under way has reported only keys of some instant of it, and
every key of all instants is reported or left (`ListOK`), because it skips only what is
empty; an answer to Get is of some instant (`GetOK`), and
the environment has the added keys in place and the rest of the parent's without the
seams (`EnvOK`). It uses the steps of `AtomicVault` only, and so holds for any store
that implements it, as `RefinesAtomic` says of this one.

**OptionsProofs.** The invariant `Ran` only says that the result of a command is what
its operator gives for its line, environment and disk (`RanAlways`): all the work is in
the operators, which are loops over a line of any length. The library's theorems of
induction cannot be used here; the least element of a set of numbers takes their place.
`SetInduction` says that a set that has 0, and with each number the next, has all of
them, and `UpTo` is the same up to a bound. A loop is a `Scan`, a recursive function
whose cells `SelectRuns` and `ParseRuns` relate to the ones before them; a lemma about
the loop then speaks of the set of positions at which its cell is as it should be.

- `SelectOwn` and `SelectedIs` are the first loop, `ParseOwn`, `SettingsOwn` and
  `KeyedOwn` the third. Both come to the last value of each flag in front of `--`
  (`Given`), or to what they began with, and to the same although they skip values in
  different ways, because on a `WellFormed` line that is accepted they wait for a value at
  the same words. `SelectBeyondOwn` and `ParseBeyond` say what `--` changes.
- `Layered` joins these to the layers below: value and source of a setting always come
  from one layer. `Precedence` and the sources in `ShowTrue` follow.
- `Lockstep` compares two loops over lines that begin alike: `ChildsOwn` is a line
  and its own part; list, show and doctor allow the same flags
  (`ReadersAlike`), so that what one of them says is what another uses (`SameOptions`).
- `LaterIs` and `LaterStarts` are the command after an init, whose line has
  nothing but the `--config` of the init's; it reads the settings of that init in the
  configuration (`KeptIs`), and finds the passphrase again (`FoundAgain`).

The assumptions are about types but for three facts of the code: no word is one of the
marks that `identities` has for files that are no locked identity, and the default is a
word (`WordAssumption`); a variable that is empty is one that is not set
(`EnvironmentAssumption`, as `local.go:81-82` and `174-195` compare with `""`); and a
configuration that is read has passed `Validate`, so that its paths are absolute and its
scope begins with a letter or a digit, and none of them looks like an option
(`DiskAssumption`). `LineAssumption` leaves any words on a line, the empty one included.

**Only model-checked.** Liveness, `PullEnds`, since the prover handles neither fairness
nor ENABLED.

## Not modelled, and why

- **Strict JSON** (`internal/strictjson`, `client/src/strictJson.ts`): recursion over
  tokens without state. What matters of it elsewhere, that Go and TypeScript differ in
  what they accept, is `form` in `Envelope`.
- **Identity files** (`identity.go`): Wrap and Unwrap are one sealed record. `InitSetup`
  has the file whole or torn, `Options` who can unlock it.
- **`Validate` and `Resolve`** of `config.go`, `wire.go`, cloudAAD, key encodings and
  `NvaultClient.policy`: pure checks of form. `Options` has the outcome of the first
  two (valid, broken, missing), and leaves relative paths out.
- **Release builder, schema generator, npm script**: sequential tools that write
  files of their own; the builder writes `checksums.txt` last
  (`nvault-release/main.go:271`), and nothing reads its directory meanwhile.
- The cryptographic primitives, terminal handling, formatting, generated types, the
  workflows a hosted service runs, and the managed server itself, of which
  `SyncCas` and `PullPages` have what the client relies on.
