# kilovault-cli: models and proofs

TLA+ models of the parts of kilovault-cli that are hard to test: commands that
share files, a server and a keyring without a lock, that wait for a user in the
middle, and that can fail or be killed at every step. TLC checks small
instances; TLAPS proves the most important results for every value of the
constants. Paths are those of the repository.

## 1. The system

kilovault-cli is a command-line program. Nothing of it runs in the background:
every command is one process that reads some shared state, talks to the vault
server, asks the user, and writes. Hard behaviour comes from several of
these processes side by side, from the server being written by others, from
processes that stop half-way, and, inside `profiles edit`, from a goroutine that
handles signals beside the main one.

| component | code | state | operations | correct when |
|---|---|---|---|---|
| profiles | `cmd/kilovault/profiles.go`, `edit.go`, `pkg/profiles/profile.go` | one sealed file per vault user: the working values and, per key, the state of the last sync (plaintext, hash of the stored value, mode) | `pull`, `push`, `edit`, `new`; `list` and `diff` only read | edits are not lost; a push writes only what it compared with the server; modes (encrypted or not) are kept; a half-done push can be continued |
| credential store | `cmd/kilovault/credentials.go`, `pkg/credentials` | `credentials.enc`: admin tokens, E2E secrets, the data key of the profiles, the time of the last backup | `init`, `credentials set-token / set-secret / remove-secret / passwd / backup / restore / list / show-secret` | a save takes nothing back; the data key never changes; a store that says it is backed up is |
| unlock session | `cmd/kilovault/session.go`, `pkg/session` | one key in the user's kernel keyring, with a timeout | `unlock`, `lock`, expiry; every store command reads it | a session opens the store, or is dropped |
| private files | `pkg/securestore/files.go` | the file system | `WriteFileAtomic`, `ReadPrivateFile` | readers see a whole file at any time; a reported success is durable |
| sealing, key derivation | `pkg/securestore/seal.go`, `kdf.go`, `pkg/client/crypto.go` | none | seal, open, derive | cryptography, taken as ideal |
| RPC client | `pkg/client/client.go` | none | one HTTP POST per call | a call has an effect once or not at all; its answer may be lost |
| configuration | `pkg/client/client.go`, `syncconfig.go`, `main.go` | `config.json` | `config set / clear`, `token --save`, `init` | a command changes its field and keeps the others |
| batch, attr | `cmd/kilovault/batch.go`, `main.go`, `pkg/client/batch.go`, `attrpath.go` | the server; the file of `batch export` | `batch run`, `batch export`, `set`, `attr`, `admin set`, `admin delete`: operations on the server without rollback, an edit inside a JSON value | a batch applies a prefix of its operations, in order; a backup brings back what was stored, encrypted or not; an `attr` changes what its paths name and keeps the encryption |
| fetch | `cmd/kilovault/fetch.go`, `pkg/export`, `pkg/service` | three files in `/run/kilovault` | `fetch`, by the systemd unit or by hand | readers see whole files; a success is complete; nothing stale outlives a restart |
| profile documents, edit session | `pkg/profiles/doc.go`, `cmd/kilovault/edit.go` | a decrypted file in RAM while the editor runs; two goroutines, the editor, signals | render, parse and merge a document; `editInRAM` | what is saved is what the editor left; untouched lines keep their text; the decrypted file is gone when the process ends |
| command line, prompts, tokens | `main.go`, `prompt.go`, `jwt.go` | none | flags, terminal input, JWT signing | not modelled: I/O and formatting |

How they interact: every profiles command first opens the credential store
(with the session's key, or the password), keeps the whole store in memory,
and takes the admin token and the E2E secrets from it. `pull`, `edit` and
`push` use `vault.admin.list/get/set/delete` on the server. `pull`
(`askSecret`) and `new` write the store again, as they opened it. Profiles and
the store are replaced through `WriteFileAtomic`. There is no file lock and no
compare-and-swap on the server.

What makes it hard: steps of two commands in any order; foreign writes on the
server while the user looks at a prompt; a lost answer after the server has
taken a change; a kill between a change on the server and the save of the
profile; a power loss between write, fsync and rename; a whole-file save of an
old copy. `PROJECT.json` lists each of these under "hazards", at its line.

## 2. The modules

| module | models |
|---|---|
| `ProfileSync` | the profiles commands, the server and the profile files |
| `WorkingCopy` | what it promises one admin: copies that are checked out, edited and pushed |
| `MCProfileSync` | budgets and symmetry for its runs |
| `ProfileSyncProofs` | types, consistency of the last-synced state, and that a push writes and overwrites only what it compared, and in the clear only what was, proved |
| `SyncAloneProofs` | commands one at a time: no edit, secret or applied change is lost or overwritten, and the refinement, proved |
| `AtomicFile` | `WriteFileAtomic`, call by call, over a page cache |
| `AtomicRegister` | what it promises: the file changes at one instant |
| `MCAtomicFile`, `AtomicFileProofs` | its run; invariants and the refinement, proved |
| `CredStore` | the credential store and the unlock session |
| `MCCredStore`, `CredStoreProofs` | its runs; types, the backup mark, saves and sessions, proved |
| `HostFetch`, `MCHostFetch` | `fetch`, the unit's runtime directory and `config.json`; its runs |
| `HostFetchProofs` | whole, fresh and complete output files; `config.json` keeps its fields, proved |
| `BatchRun` | `batch run`, `batch export` and the single commands that make the same calls |
| `AttrPath` | the edit of a JSON value at a path, and what it means over a flat view |
| `BatchAttr` | `BatchRun` with the edits of `AttrPath`, and what an `attr` may change |
| `MCBatchRun` | their run |
| `BatchRunProofs` | types, order of a batch, kept encryption and faithful restores, for any edit, proved |
| `AttrPathProofs` | an `attr` changes what its paths address, and numbers to `float64`, proved |
| `ProfileDoc` | render, parse and merge, as operators |
| `EditSession`, `MCEditSession` | `editInRAM` and the save, with signals; its runs |
| `EditSessionProofs` | types, clean-up, and what is saved, proved |

The modules are layered by abstraction and not composed into one state space:
`ProfileSync` and `CredStore` take a file save as one atomic step, which is what
`AtomicFile` shows to be justified (`FileIsAtomic`); `ProfileSync` takes the
opened store as a map of secrets that is saved as a whole, which is what
`CredStore` models in detail; and the editor of `ProfileSync` replaces the values
of a profile in one step (`EditSave`), which is what `EditSession` takes apart.
`EditSession` extends `ProfileDoc`. `BatchRun` takes an edit function as a parameter
(`AttrEdit`), and what is proved in `BatchRunProofs` holds for any; `BatchAttr` extends
`BatchRun` and `AttrPath` and assumes the one to be the `Edit` of the other.

### ProfileSync

A running command is a process; `proc[p]` is its memory and `pc` the next call
it makes. One action is one RPC, one file read or write, or one answer of the
user, so that anything can come between the lines of the code where another
process can come between them.

| code | actions |
|---|---|
| `openProfilesEnv` | `Start` |
| `runProfilesPull`, `pullUser`, `askSecret` | `PullList`, `PullNext`, `FetchKey`, `AskSecret`, `PullSkips`, `PullSave`, `PullEnds` |
| `runProfilesEdit`, `loadForEdit` | `EditLoad`, `EditList`, (`FetchKey` ... `PullSave`), `EditReload`, `EditSave`, `EditQuits` |
| `runProfilesPush`, `push`, `applyPlan` | `PushSelect`, `PushLoad`, `PushCheckList`, `PushCheckKey`, `PushStops`, `PushConfirmed`, `ApplyDelete`, `ApplySet`, `PushSave` |
| `runProfilesNew` | `NewExists`, `NewList`, `NewSave` |
| an error return after an RPC; a kill | `RpcFails`, `lost` in `Applied`; `Crash` |
| `admin set`, `admin delete`, hosts and other clients | `ExternalWrite` |

Abstractions. A stored value is a plaintext, the secret it is encrypted under
and a nonce; the hash `RemoteHash` is the stored value itself (SHA-256 is taken
to be free of collisions). Users and keys are visited in any order, where the
code sorts them. Profile files are readable and of the right version. The
endpoint is fixed. `SyncedAt`, wording and the `--show-values` output are left
out. The document of `edit` is the set of values it parses to; `EditSession` has
the document itself. `vault.admin.get`
answers an empty value for a key that is not there, as `VaultAdminGet` reads
every answer without a result.

`WorkingCopy` is the abstract specification of the commands: a server and, for
every user, a copy of its plaintext values or none. `Checkout` makes the copy all
of what the server holds, `Edit` changes it, and `PushSet` and `PushUnset` bring one
key in which the two differ to the server, sealed if it is new or was sealed.
`ProfileSync!IsWorkingCopy` is `WorkingCopy!Spec` with the values of the files as the
copies; the last-synced states, the memory of the processes, nonces and secrets are
gone. It holds while one command runs at a time and nobody else writes: an RPC that
fails half-way through a pull or a push is a stutter.

`touched` is a history variable: the keys that someone else wrote since the
process read them. No guard reads it.

### AtomicFile and AtomicRegister

`path` is the sequence of files the path has named; `mem` is how much of a file
is visible and `disk` how much would survive a power loss. Writes and renames
reach the disk at an fsync or at any time before; renames in one directory reach
it in their order. `writer[w]` is a process in `WriteFileAtomic`. A call can fail
at each step (`Fail`): the temporary file is removed or stays, and after the
rename the new file stays although an error is returned. A directory that
`MkdirAll` has just made can vanish as a whole in a power loss, because its
parent is not synced; what is promised about reported successes is therefore
promised for a directory that is on disk (`dir = "durable"`).

`AtomicRegister` is the abstract specification: a log of contents that `Commit`
extends at one instant, a stable prefix that a power loss cannot take back, and
`Succeed` only for a stable entry. `AtomicFile!IsAtomic` is `AtomicRegister!Spec`
under the refinement mapping given there.

### CredStore

The key of a file is a password and a salt; a file opens with its key only. Salts
and data keys are drawn fresh (`fresh`). A command opens the store as a whole
(`LoadSession`, `TryKey`, `DropSession`, `Password`), may give up (`Leave`), and
saves it as a whole (`Set`, `Remove`, `ChangePassword`, `RecordBackup`,
`SaveToken`, `CreateSave`). `Clear` and `Link` are the keyring calls of `unlock`,
`lock` and `passwd`; `Expire` is the kernel's timeout. `Fail` is any error or kill
between two steps and `Lose` the loss of the file that `restore` exists for.
`Clear` is one step, where the code searches a key and invalidates it.
`overlapped` is a history variable: two commands have run at the same time.
Values are checked against the server (`verifyAdminToken`,
`verifyProfileSecret`) only to give up, which is `Leave`.

### HostFetch

| code | actions |
|---|---|
| `runFetch`, `writeAtomic` | `StartByHand`, `LoadKeys`, `LoadSecret`, `GetKey`, and per file `OpenTemp`, `WriteTemp`, `Rename` |
| the unit of `renderUnitFile`, as systemd runs it | `StartService`, `StopService`, and `Fails` for its failure |
| `config set`, `config clear`, `token --save`, `init` | `StartConfig`, `LoadConfigFile`, `Truncate`, `SaveConfig` |
| an error return or a kill | `Fail` |
| `set` and other clients of the server | `ServerWrites` |

The temporary and the output files are separate variables, and `fd` says where
the file that a process has open is by now, because a rename by another process
moves it. A file is a whole content, `Blank` (truncated) or `Torn` (parts of two
writes). systemd is modelled from the unit's text: a oneshot that stays active
after success, and a runtime directory that is removed when the unit fails or
stops. `config.json` has the two fields that `fetch` reads; a change of another
field rewrites these two as they were loaded. A sync key stands for its output
name. The rendering of values and the check of environment names, which refuses
before anything is written, are left out. `held`, `saved`, `overlapped` and
`clashed` are history variables.

### BatchRun and AttrPath

| code | actions |
|---|---|
| `runBatchRun`: read, decrypt, `ParseBatch` | `RunBatch`, `RunBackup` (the file of an export) |
| `set`, `admin set`; `attr`; `admin delete` | `RunSetCommand`, `RunAttrCommand`, `RunDeleteCommand` |
| `execBatchOp` | `RunSet`, `RunDelete`, and `RunAttrGet` with `RunAttrSet` |
| `runBatchExport` | `ExportList`, `ExportGet`, and `ExportOpen` with `ExportSave` for `os.WriteFile` |
| an error or a kill; a lost answer | `Fail`; the second case of `Apply` |
| other clients | `ForeignWrite` |

A stored value is a plaintext under layers of encryption: `encryptIfSecret` adds
one whatever the value is, `decryptIfNeeded` takes one off. That is what tells a
restore with `Raw` from one without. A single command is a batch of one
operation: it makes the same calls in the same order. A command runs with any
secret, or none. An operation that `ParseBatch` refuses stops the batch before
anything is sent. Keys of an export are visited in any order; a file with parts
of two writes does not decrypt. The caller is an admin, so that `vault.get` and
`vault.admin.get` of its own keys are the same slot.

`AttrPath` has documents as objects, arrays and scalars, and paths as segments
that are a name or an index, which `parseIndex` tells apart by the text.
The code's recursion is a walk down and a way back: `Descent` is the node at every
step of a path, `Rebuilt` the new node above each changed child, and `Edited` the
document after every removal and setting, each a function over the natural numbers.
An error anywhere is `NoDoc` from there on. The reference definition (`FlatSet`,
`FlatRemove`, `FlatEdited`) says what an edit means without any walk: a document is
flat, with what stands at every path (a scalar, the type of a container, nothing);
a setting replaces what is at its path and behind it, a removal takes it away and
moves what is behind an element of an array one place down. `EditsOnlyAddressed`
compares the two at the paths in `LookedAt`.

The code decodes the whole value before an edit and encodes the whole result
(batch.go:109 and 127, main.go:396 and 424), and `encoding/json` holds every number as
a `float64`. `Decoded` does this to each number of a document and of the values of a
setting: it becomes the nearest multiple of what `Precision` bits can tell apart
(`Rounded`, half to even). An integer beyond 2^53 comes back changed even where no
path leads. The reference says the same of its flat view (`FlatRead`), so
`EditsOnlyAddressed` has this as the one change outside the paths; it does not promise
that an unnamed number is kept. Numbers in the model are integers: a fraction is
rounded by the same rule, to finer multiples. A number beyond the range of `float64`,
or a nesting deeper than the decoder takes (`MaxNesting`), is an error of
`json.Unmarshal`; such a text is not in `Docs`. `null`, booleans and strings are
`Text`. Left out is what the encoder does to the writing of a document without changing
its tree: order of names, spaces, escapes.

`hist` is a history variable: the server at the start of the command, what others
wrote since, and what a restore is expected to bring.

### ProfileDoc and EditSession

The text of a value is abstracted to what the code tells apart: empty, a JSON
object or array (compact, with white space inside, or around it), or any other
text. A document says for each key what stands behind it each time the key
occurs, so that duplicate keys can be written and refused. `Garbage` is every
document that is not one JSON object with valid keys.

| code | actions |
|---|---|
| `editInRAM`, main goroutine | `CreateDir`, `Notify`, `WriteContent`, `StartEditor`, `EditorReturned`, `ReadEdited`, `EditAgain`, `StopSignals` |
| `cleanup`, by either goroutine | `Once`, `Zero`, `Remove` |
| the goroutine over `sigs` | `TakeSignal`, `Drained`, `Abort` |
| `runProfilesEdit` after it | `Finish`, `Exit` |
| the editor; the kernel | `EditorSaves`, `EditorQuits`; `Signal` |

The deferred calls run in reverse order: `StopSignals` (`signal.Stop` and `close`)
before `cleanup`. `sync.Once` lets the second caller wait until the first is
done. A signal goes to the channel between `Notify` and `StopSignals`, is dropped
when the channel is full, and kills the process outside. A closed channel is
drained first. SIGHUP is handled like SIGTERM. SIGKILL and power loss are out of
scope: no code runs then, and the file is in RAM. `os.RemoveAll` is one step,
and so is the overwriting before it. A file of zeros is one content, `Zeroed`.
`left` is a history variable: what the file held when the editor last succeeded.

`SavesWhatEditorLeft` compares texts byte for byte, and names one exception, in which
the code disagrees with README.md:478 and doc.go:16 ("a string is stored exactly as
written"). `MergeEdit` compares the parsed text of a line with the canonical text of
the old value, and cannot tell a nested `[1,2]` from the string `"[1,2]"`. For the
first, keeping the stored `[1, 2]` is what README.md:487 promises. For the second it
is not: a user who replaces the nested value by the string `"[1,2]"` has asked for
that text, and `[1, 2]` stays stored. The `edit` run has this case (without `Quoted`
in `SameTree` the property is violated); it is the only one in which a string is not
stored as written, and the two texts are the same JSON value.

## 3. The runs

Bounds are named in the `.cfg` files and in the MC modules: `Limit` bounds how
often each kind of event happens, nothing bounds the steps of a command.

| run | instance | shows |
|---|---|---|
| `sync_single` | 1 process, 2 keys, 4 commands, 2 edits, 1 failure | `AppliedIsRecorded`, `SecretsSuffice`, `EditsKept`, `IsWorkingCopy`: commands one after another, an RPC failing anywhere |
| `sync_race` | 2 processes, 3 commands, an edit, a foreign write, a failure, a lost answer, a crash | `TypeOK`, `BaseConsistent`, `PushIsChecked`, `PushKeepsSecrecy` through every interleaving |
| `sync_retry` | 1 process, 2 users, 2 keys, 2 commands, 2 edits, a lost answer, a crash | `RetriedPushConverges`: retried forced pushes of all profiles bring every change to the server, unless one of them needs an unknown secret |
| `sync_meantime` | 1 process, a foreign write | violated: `PushOverwritesOnlySynced` |
| `sync_pull` | 2 processes | violated: `PullKeepsEdits` |
| `atomic_file` | 2 writers, 2 contents, 4 renames, any number of power losses | `NeverPartial`, `ReturnedSurvives`, `IsAtomic` |
| `cred_store` | 2 processes, 4 commands beside any number of reading ones, a failure, a lost file | `TypeOK`, `NoFalseBackup`, `SavesOneChange`, `SessionOpens`, `StaleSessionGoes` |
| `host_fetch` | 2 processes, 2 keys, 2 starts of the unit, a fetch by hand, a config command, a foreign write, a failure | `TypeOK`, `OneFetchIsAtomic`, `NothingStale`, `SuccessIsComplete`, `ConfigKeepsRest` |
| `host_hand` | 2 processes, the unit and a fetch by hand | violated: `ReadersSeeWhole` |
| `batch` | 2 processes, 2 users, 1 key, 3 batches, 2 commands, 2 failures, lost answers or foreign writes | `TypeOK`, `AppliesInOrder`, `RestoredAsExported`, `EditsOnlyAddressed`, `AttrKeepsLayers` |
| `edit` | 2 keys, every kind of value and of line, 2 saves of the editor, 2 signals, a failure | `TypeOK`, `NothingLeft`, `SavesWhatEditorLeft`, `UntouchedKeepText`, `SignalEndsIt` |
| `edit_signal` | a signal | violated: `EveryExitCleans` |

Why the bounds are enough. Two processes are needed for every race and the
properties speak of one process against "someone else", which is also
`ExternalWrite`. One key shows every conflict of `push`; two keys are needed for a
push that stops half-way.
Two users are in `sync_retry`, because a push takes all profiles and the one that it
cannot seal stops the others; one starts with a plain value and one with a sealed one,
each with its secret known or not. A foreign write adds nothing there, since a forced
push does not compare with the server, and a lost answer already leaves the server
ahead of the profile. The other runs of the profiles have one user; several are in the
proofs. Two values tell an edit from what
was there. One of each failure is enough to
put it at every step. Four store commands give init, backup, a lost file and
restore, or init, unlock, passwd and an overlapping command. Two starts of the unit are one
restart, which is what could leave something stale; `config.json` may already be
truncated at the start, which stands for an earlier command that was killed.
Two commands in `batch` are an export and a restore, or two that overlap; two
failures or foreign writes are enough to disturb each of them. The server starts with
one sealed document for each user; batches, deletes and foreign writes leave it with
plain, doubly sealed and missing ones. The batches have
every kind of operation, in front of and behind another one, one of them on a
value that is ciphertext already; the edits append, replace, shift and remove.
`Precision` is 2 in this run: the number 5 of `Config`, which no path of `Grow` and
`Shift` names, comes back as 4, as 2^53 + 1 comes back as 2^53, and the 7 of a setting as 8. The
eight paths of `MCLookedAt` are the places these documents have, and one past them.
Two saves and two signals in `edit` are a document that is refused and opened
again, and an interrupt for the editor in front of a SIGTERM.

The four violated properties are what the documents or comments say and the code
does not do in one corner each; "findings" in `PROJECT.json` quotes the lines.
`sync_meantime` and `sync_pull` are the known price of working without a lock, and
the window of `sync_meantime` is as long as the user takes to answer the prompt.
`host_hand` comes from the fixed temporary name in `writeAtomic`. `edit_signal`
comes from the order of two `defer` statements: signals have their default
action again a few instructions before the file is removed.

`CHECK_DEADLOCK FALSE` in the profile, host, batch and edit runs: when the budgets
are spent, or the one command has ended, there is nothing more to do. In `AtomicFile` and `CredStore` deadlock is checked.

What holds only while commands run one at a time: `EditsKept`,
`AppliedIsRecorded`, `SecretsSuffice` and `IsWorkingCopy` are checked with one process, and
`SavesOneChange` and `SessionOpens` as long as no two commands have overlapped.
The code takes no lock, so overlapping commands do lose edits and secrets.
Likewise `OneFetchIsAtomic`, `NothingStale` and `SuccessIsComplete` hold as long as
no two fetches have overlapped, and `ConfigKeepsRest` as long as no two config
commands have; fetches and config commands may overlap each other freely.
The properties of `batch` hold beside any other commands, for the keys that
nobody else has written in the meantime.

## 4. Fairness

`RetriedPushConverges` assumes that a started command goes on (`WF` on `Work`):
the code waits for nothing but the server, which answers or fails, and the user.
The HTTP client has no timeout, so a server that never answers is outside this
assumption. It also assumes a user who starts `push --force` again whenever
nothing runs (`WF` on `RetryPush`) and who, asked for ever, says yes again and
again (`SF` on `PushConfirmed`). Without `--force` it would be false: a change
whose answer was lost is a conflict with itself. The premise
that remains is not one of fairness: a change that has to be sealed for a user whose
secret the store does not have stops the push of *all* profiles before anything is
sent (`profileChanges`, called for each of them first), so another user whose secret
is known waits as long as that change is there.

`StaleSessionGoes` assumes that commands go on (`WF` on `Work`) and that the user
keeps running some (`WF` on `Start`): a stale session is dropped by the next
command that tries it, not by itself.

`SignalEndsIt` assumes that the Go scheduler lets both goroutines go on with the
handling of a signal (`WF` on `Handler` and on each `Cleanup`). It assumes nothing
of the user: the editor may stay open and a prompt unanswered for ever. A signal
that the full channel drops is not in the channel, and nothing is said of it.

Everything else is a safety property and assumes no fairness.

## 5. The proofs

For every number of processes, users, keys, values, secrets and events:

* `ProfileSyncProofs`: `TypeCorrect` (`TypeOK`) and `BaseIsConsistent`
  (`BaseConsistent`). `BaseConsistent` is not inductive: a profile reaches the disk
  from a process's memory (`plan`), and what is recorded there comes from what the
  process read (`got`) or wrote. `IInv` therefore says, per process, which parts
  of its memory are set at which `pc` (a user is being worked on, its plan is
  there, its secret is known before `ApplySet` seals with it) and that every plan
  in memory is `Sound`.
  `PushWritesChecked` (`PushIsChecked`): `CInv` follows the
  comparison: at each `pc` every change of every planned user is either still to
  be read in this phase (`Unread`), or a recorded conflict, or agrees with the
  server, or was written by someone else since (`touched`). `PushSecrecy`
  (`PushKeepsSecrecy`) follows from it: what a push writes in the clear was last
  synced in the clear (`PlainWasPlain`), and what it has compared is still that. The
  proof found an exception that three foreign writes are needed for, more than the
  runs allow: a key that is deleted between the list and the get of a pull is
  recorded as an empty plaintext value; set again and deleted again between the list
  and the get of a push, it agrees, and is stored in the clear.
  `PushOverwritesCompared` follows from `CInv` too, and needs no condition: what an
  unforced push overwrites is what was last synced, or was written by somebody else
  after the comparison. This is how much of README.md:519 holds beside others;
  `sync_meantime` shows that the second case happens.
* `SyncAloneProofs`, for one process: `SecretsAreSaved` (`SecretsSuffice`) and
  `EditsAreKept` (`EditsKept`) under all failures, crashes and foreign writes, and
  `AppliedRecorded` (`AppliedIsRecorded`) and `FilesAreCopies` (`IsWorkingCopy`, the
  refinement) where foreign writes, lost answers and crashes are excluded. `KeepOK` ties what a command holds to the disk: the secrets
  it knows are the saved ones and open what it holds, the values it pushes are
  those of the file, what it fetches over has no changes. `RecordOK` ties it to the
  server: what is listed and fetched is there, and every profile in memory or on disk
  matches, but the file of the user being applied.
  `PullKeepsAlone` (`PullKeepsEdits`, README.md:526) and `PushOverwritesAlone`
  (`PushOverwritesOnlySynced`, README.md:519) say when the promises hold that
  `sync_pull` and `sync_meantime` violate: the first whenever one command runs at a
  time, the second if nobody else writes on the server either. Both are under all
  failures, crashes and lost answers.
* `AtomicFileProofs`: `FileIsWhole` (`NeverPartial`), `ReturnedStays`
  (`ReturnedSurvives`) and `FileIsAtomic` (`IsAtomic`, the refinement). `IInv`
  says that a writer past its fsync has a whole file in memory and on disk, that
  every file the path names is whole in both, and that what was reported is
  below what is flushed.
* `CredStoreProofs`: `StoreTypeCorrect` (`TypeOK`) and `BackupsAreReal`
  (`NoFalseBackup`). The mark on disk comes from stores held in memory, so `IInv`
  says of every store, in the file or in a process, and of every backup, that a
  mark comes with a backup of the same data key.
  `SessionsOpen` (`SessionOpens`) and `SavesTakeNothingBack` (`SavesOneChange`) hold
  while commands run one at a time. `AloneInv` says that what a command holds in memory
  `Copies` the file but for the backup mark, that one that creates finds no file, and
  that the session opens the store or a `passwd` is about to clear it.

* `HostFetchProofs`: `TypeCorrect`, `OneFetch` (`OneFetchIsAtomic`),
  `RestartIsFresh` (`NothingStale`), `Success` (`SuccessIsComplete`) and `RestIsKept`
  (`ConfigKeepsRest`), for any `Limit`. `FInv` says, per fetch, that what it has got
  are its sync keys that are no longer to get (`GotOK`), that its temporary file is
  its own or went with the directory (`TempOK`), that the files before the current
  one are written (`DoneOK`), and that what it holds was on the server since the
  last start (`FreshOK`); the last three need that it is the only one (`Alone`).
  `CInv` says that the process that is about to save has loaded the last whole
  configuration.

* `BatchRunProofs`: `TypeCorrect`, `BatchInOrder` (`AppliesInOrder`), `KeepsLayers`
  (`AttrKeepsLayers`) and `BackupRestores` (`RestoredAsExported`), for any batches and
  any `AttrEdit`. `AppliesInOrder` speaks of a replay of the batch, a function defined
  by recursion: `Recursion` shows that there is one and `SetInduction` what holds of
  all of it. `OrderInv` ties the process to the replay: in every key that nobody else
  has written, the server is where the operations before the current one lead.
  `RunsWell` says that a running command is at one of its operations, which are
  valid ones. `ReadInv` says that an `attr` between its two steps holds what the server answers
  for its key, unless someone else wrote it. For the restore, `ExportInv` says
  that what an export has got so far is what the server had at its start, in every
  key that nobody touched; `BackupInv` carries this to the file, and `RestoreInv` to a
  run of it: its operations `Brings` the expected values, and those before the
  current one have brought them. `Apart` is what a step of anybody else may do to a
  command: mark a key as touched, or leave it as it is.
* `AttrPathProofs`: `OnlyAddressed` (`EditsOnlyAddressed`), for documents of any depth,
  paths of any length and any number of edits. `DescentUnfolds`, `RebuiltUnfolds` and
  `EditedUnfolds` give the three recursions; `DescentMeets` says that walks which have
  met stay together. `RebuiltStands` is the heart: after the way back every path of
  the flat document has what it had, but for what is behind the changed node. `SetStands` and
  `RemoveStands` make it the reference definition of a setting and of a removal,
  `EditStands` of a whole edit, by induction over its steps. In front of the first step
stands the decoding: `DecodedUnfolds` gives its recursion, by induction on `Nesting`,
and `ReadStands` says that the flat view of the decoded document is `FlatRead` of the
stored one. `AttrInv` says that what a
  process holds between the two calls of an `attr` is that edit of what it has read.
* `EditSessionProofs`: `TypeCorrect`, `NothingLeftBehind` (`NothingLeft`), `SavesLeft`
  (`SavesWhatEditorLeft`) and `Untouched` (`UntouchedKeepText`). `FileInv` says which
  goroutine is in the clean-up and that there is no file without a directory and
  none after it; `EndInv` that a process that has ended regularly has passed the clean-up;
  `ReadInv` and `ResultInv` that what main reads after a successful editor is
  `left`, or what a clean-up beside it made of the file, and that only the first
  becomes a result. `MergeKeeps` and `CompactLines` say which lines `MergeEdit` gives
  the old text to: those of the exception of `SavesWhatEditorLeft`, and no other.

The assumptions are the named ones of the modules: the model values that mean
"absent" and "torn" are not values, the bounds are natural numbers, and the
admin token is one of the entries. `BatchAttr` assumes that the parts of a document
are documents, that paths are not empty (`strings.Split` returns at least one
segment), and that a text that is not JSON is an error. `AttrPath` assumes that
documents are nested at most `MaxNesting` deep (the decoder of Go refuses more than
10000 levels) and that `float64` has at least one bit; its 53 is not used.

Induction over the natural numbers is proved from the library's theorem that `<` is
well founded on them (`Least`, `SetInduction`, `Recursion`), over sets instead of
predicates. Every invariant and every safety property of the passing runs is a
theorem. Model-checked only is liveness (`RetriedPushConverges`, `StaleSessionGoes`,
`SignalEndsIt`), which the prover does not reach.

## 6. What is left

Every component with state of its own is modelled. What would come next: a
weaker abstract specification of synchronisation that `ProfileSync` implements
beside foreign writes and lost answers too.

Not modelled, and why: cryptography (ideal by assumption); permissions and ownership
checks of files (they refuse before anything changes); `batch encrypt` and `batch
decrypt` (one file in, one out) and `admin cleanup` (one call); the text of values
where only rounding or escaping is at stake (fractions in `attr`, plaintexts that
begin with `enc:v1:`); the installation of the service (shell commands run once); the
choice of an editor and of a RAM directory, flag parsing, prompts and JWT signing
(I/O).
