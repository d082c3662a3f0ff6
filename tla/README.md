# A TLA+ model of mayfly-cli

`mayfly` is the command line of an SSH certificate authority. A user signs in
with an identity provider; from then on `mayfly ssh host` obtains a short-lived
certificate for the user's key, caches both on disk, and launches OpenSSH with
them. Other commands inspect and administer the server.

The program has no daemon and almost no threads. What makes it hard is that

- every command is a **process of its own**, several of them run side by side,
  and they share files without a lock;
- every command can be **killed between any two system calls**, and the next one
  must cope with what it left;
- every step that matters talks to a **server and an identity provider** over a
  network that loses answers, with clocks that disagree.

The specifications here model those behaviours, TLC checks them on small
instances, and TLAPS proves the main results for every instance.

## 1. The system

| Component | Source | State it keeps | Operations | Hard part |
|---|---|---|---|---|
| Certificate cache | `internal/certcache` | a directory per identity: key, public key, certificate, `meta.json`, and a `.tmp` of each | `Lookup`, `Save`, `Remove`, `List`, `Prune` | four files, no lock, shared temporary names, crashes in a save or a removal |
| Lifecycle manager | `internal/certs` | none | `Ensure` (reuse, renew, issue), `Issue`, `verify` | decides on metadata read earlier; local and server clock differ |
| Account index | `internal/account` | `accounts.json`: accounts, active account per profile | `Upsert`, `Remove`, `SetActive`, `Rename`, `Touch`, `Active`, `Find` | read at start-up, rewritten whole at each change, no lock |
| Token store, credential backends | `internal/oauth/tokenstore.go`, `internal/credentials` | one secret per provider, profile and subject, in the platform keyring or in one encrypted file | `Save`, `Load`, `Delete`; `Get`, `Set`, `Delete` | two stores (tokens, accounts) changed one after the other; the file is read, changed and rewritten whole |
| Machine id | `internal/machine` | a file with a random id, if the platform has none | `ID` | made without a lock, truncated before it is written; the encryption of the credential file hangs on it |
| Session commands | `cmd/login.go`, `cmd/logout.go`, `cmd/auth.go`, `cmd/helpers.go`, `cmd/ssh.go` | a copy of the index, the token in use | login, logout, use, remove, rename, a token loaded for every call | stale copies, one identity in two profiles, interrupted logins and logouts |
| Device login | `internal/authflow`, `internal/oauth`, `internal/oauth/providers` | device code, polling interval, attempts | start, poll, restart, identify | expiry against approval, slow_down, lost answers |
| HTTP client | `internal/client` | attempt counter | request with retries | a retry of what was already served |
| Configuration, profiles | `internal/config`, `internal/profile`, `cmd/root.go` | two files, read-mostly | six layers merged | precedence |
| SSH arguments, launch | `internal/ssh`, `cmd/ssh.go` | none | `ParseArgs`, `buildSSHArgs`, `Exec` | OpenSSH's option syntax |
| Audit | `cmd/ops.go`, `internal/opsadmin` | the follow cursor | search, `--follow`, `--watch` | exactly once, in order, while the log grows |
| CA, machine, rollout commands; health, status, metrics | `cmd/ca.go`, `cmd/machine.go`, `cmd/rollout.go`, `cmd/ops.go` and their packages | none here; the server's | forty commands, one request and a rendering each, `--watch` | confirmation of destructive changes; retries of changes that are not idempotent; what flags add up to |
| Doctor, diagnostics | `cmd/doctor.go`, `cmd/diagnostics.go` | none | checks, three requests and an overall verdict | which failed check hides which; the exit status is a readiness gate |
| The rest | platform, context, logging, profiler, browser, version, public API | none | detection, output | - |

How they interact: `cmd/root.go` builds one `App` per process: configuration,
profile, credential store, providers and the account index, each read once.
`cmd/ssh.go` asks the account index for the active account (or runs the device
login), hands the lifecycle manager an HTTP client whose token source loads the
account's token for every attempt, takes key and certificate from
the cache, touches the account and launches OpenSSH. All communication between
processes goes through the cache directory, `accounts.json`, the credential
store and the servers.

What makes each component correct:

- **cache and manager**: nothing expired is handed to OpenSSH; a certificate with
  no more than the threshold left is renewed; a save that is not disturbed leaves
  files of one issuance, a removal that is not disturbed leaves none; prune takes
  expired entries only; the key belongs to the certificate.
- **index and tokens**: an active account exists; a token is filed under the
  profile and identity it was issued for, and requests carry the right one; after
  a login the account is active with its token stored, after a logout token and
  account are gone.
- **device login**: it keeps the pace the server asks for, succeeds only with what
  the user approved, fails only for a reason, loses codes and tokens only to faults, ends.
- **audit follow**: every matching entry once, in order, none from before.
- **configuration, arguments**: the highest layer that sets a field wins; OpenSSH
  reads the arguments it is given as the user meant the line; the certificate is
  for the host, lifetime and profile of that line.
- **credential store**: its calls are atomic per key, and a key holds only what
  was set for it.
- **operator commands**: what a command shows or reports as done is so, and a list
  has what its flags ask for; a change is carried out once, but for attempts whose answer was lost; nothing is destroyed
  unasked; with a format for scripts, stdout is one document; a command ends.
- **doctor**: every check is reported, a failed one hides only what depends on
  it, and the exit status never passes a server that cannot be used.

`PROJECT.json` lists every component with its status, and every hazard of this
kind at the line where it bites.

## 2. The modules

### CertCache and CertPromise

`CertCache` models the directory of one identity (no step for one identity
touches another's), the processes that work on it, and the manager's decisions.
A file is the number of the issuance its bytes come from: key pair, certificate
and metadata of the n-th request are all "n", so that a mixture of two
issuances is visible. **One action is at most one system call that changes the
directory**; that is the granularity at which processes interleave and are
killed. `writeFileAtomic` is four of them: the temporary file is opened, which
truncates it (`Create`), its bytes are written (`Write`, or `WriteStops` on a full
disk), its mode is set (`Chmod`; if that fails, `Discard` unlinks it), and it is
renamed. A file may also be `Empty`, or `Torn`: the end of longer contents behind
shorter ones. `fd` is the file a process has open; it keeps writing into it after
another process has renamed or unlinked it.

| Model | Code |
|---|---|
| `disk`, `dir` | the four files and their `.tmp`, the directory |
| `grants[n]` | validity the server gave the n-th certificate; `Skews` is the difference of the clocks |
| `proc[p].entry`, `.at`, `.checked`, `.seen` | the `Entry` in memory, the clock readings of the decision and of `verify`, the certificate file it read |
| `Start` | `ssh`, `ssh --no-cache`, `cert issue`/`renew`, `cert remove`, `remove --all`, `cache --prune` |
| `Lookup`, `MetadataCorrupt`, `Decide`, `VerifyOK`, `VerifyFails`, `Request` | `Cache.Lookup`, `Manager.Ensure`, `verify`, `issue` |
| `Save`, `Create`, `Write`, `WriteStops`, `Chmod`, `ChmodFails`, `Discard`, `Rename`, `StoreFails` | `Cache.Save` and `writeFileAtomic` |
| `List`, `RemoveAll`, `Unlink`, `Rmdir` | `Cache.List`, `Remove`, `Prune`, and what `os.RemoveAll` does: names read once, unlinked in any order, directory removed last |
| `Abort` | the process is killed or a call fails, anywhere |
| `solo`, `overlapped` | history variables, read by properties only |

`CertPromise` is what the package comment of `internal/certs` promises, with no
files in it: a command is handed only a certificate the server granted, and one
whose validity contains a reading of the local clock taken after that command
began (`began`). `CertCache` refines it (`handed` and `began` are the refinement
mapping).

### Sessions

`Sessions` models the account index, the token store and the commands that
change them. `index` is `accounts.json`; `tmp` its shared temporary file; every
process works on the copy it read when it started (`proc[p].known`) and
publishes the whole copy at every change, in the two steps of `Store.save`. An
account is an identity (provider and subject) with the profile it was last
recorded in; a token is the number of its grant. `SignIn` is the outcome of a device
login. `Abort` may end a command after any step. Find resolves to any account of
the profile; aliases and timestamps are left out. A token is stored atomically, as
`KeyStore` promises.

Tokens do not expire and are not refreshed in the model, because they are not in the
program: `buildRegistry` (`cmd/root.go`) registers `mayflyserver` alone, which sets
no expiry and no refresh token and has no `Refresh`, so the refresh in `loadToken`
(`cmd/helpers.go:74-87`) is never reached. `docs/authentication.md:75-77` agrees:
transparent refresh is planned (BL-032). A call whose token the server no longer
takes fails, which is `Abort`.

### FileStore and KeyStore

`KeyStore` is what `internal/credentials/store.go` promises its callers: `Get`,
`Set` and `Delete` of a key, each taking effect at one moment between call and
answer or not at all. The platform keyrings behave so. The comment of the
interface leaves concurrent processes to the backend; `KeyStore` says what is left
when they have disturbed each other: entries may be lost or come back
(`Interfere`), but a key never holds a secret that was not set for it.

`FileStore` is the backend that does not get this for free: `file.go`, with the
machine id it derives its passphrase from (`internal/machine`).

| Model | Code |
|---|---|
| `file`, `tmp` | `credentials.json`, its temporary file; `Corrupt` is what `json.Unmarshal` refuses |
| `proc[p].fd` | the inode `os.WriteFile` has open, which may have been renamed meanwhile |
| `Start`, `Draw`, `TruncateId`, `WriteId`, `IdNotWritten` | `machine.ID`, `persistedFallback`, whose errors are ignored |
| `Ask`, `LoadOnly`, `Load` | `Get`, `Set`, `Delete` up to the load; `Decrypted` |
| `Open`, `Write`, `Rename`, `SaveFails` | `save`: create or truncate, write, rename; a failed write leaves the file as it was opened or `Corrupt` |
| `Exit` | the process ends or is killed, anywhere |
| `offered`, `disturbed` | history variables, read by the refinement only |

A ciphertext is the secret and the passphrase it was made with. `Over` is what a
file holds when two processes have it open and the shorter text goes over the
longer. `disturbed` becomes true when a process begins an update, or a first run,
while another is in the middle of one, when an id could not be written, and when one
that is on file could not be read, so that a new one is drawn. Reading the
credential file may fail at any time (`LoadOnly`).
`osid` stands for any passphrase that is the same for all processes, the platform's id or
`MAYFLY_CREDENTIAL_PASSPHRASE`; one that is changed between calls is not modelled.

### DeviceLogin

One run of `authflow.Login`: the loop over codes, the polling loop and the
retries of the HTTP client under it. The server, outside the repository, is
modelled by what the client can observe: it issues a code for every request
that reaches it, asks for a slower pace when it likes, gives one token for an
approved code. A unit of time is five seconds, the step of `slow_down`. A
request that goes wrong may or may not have been served; `Retry` and `GiveUp`
are the two ways `doWithRetry` takes it. The same is true of one that Ctrl-C cuts
off (`Cancel`): a poll may have fetched the token, a start may have issued a code
that nobody sees. `DeviceLogin` ends where `Sessions`'
`SignIn` starts.

### Audit

`audit`, `events` and `history` as one command: a view (`view`), a view that is
refreshed (`--watch`), or a tail (`--follow`: a `seed` request for the newest
matching entry, then `poll` requests after the cursor). `log` is the server's
audit log; `Grow` appends to it at any moment, so that it has grown between an
answer and its printing, between two requests, and between a request that was
lost and the one sent again. `Wanted` is the filter that the preset (a category
of `events`, a kind of `history`) and the flags add up to.

| Model | Code |
|---|---|
| `Start`, `Seeded`, `Polled`, `Wake` | `runAudit`, `runAuditFollow`: `last`, the cursor, the sleep between two polls |
| `Viewed`, `Wake` | `runMaybeWatchOps` |
| `Wrong` | `doWithRetry`: asked again, or the command fails |
| `ServeSeed`, `ServePoll`, `ServeView` | the answers the client relies on |
| `old`, `asked`, `start` | history variables, read by properties only |

The server is outside the repository. What is assumed of it: the log is append
only, an entry is visible as soon as any later one is, the stream answers with
everything that matches after the cursor up to some entry, in order, and the
search with the newest that match; an answer that has entries names the last
position in it. A page of the stream may be cut anywhere.

### SshCommand

`mayfly ssh` has no flag parser of its own: `ParseArgs` walks over the line and
must tell this program's flags, OpenSSH's options and their values, the host and
the remote command apart. The line is parsed twice, before the configuration is
built (errors ignored) and in the command (errors count). `SshCommand` is that
program from its line to the launch, one action per token and per call.

| Model | Code |
|---|---|
| `Switch`, `ValueFlag`, `Option`, `Target`, `Command` | the cases of `ParseArgs` |
| `Load`, `Merge`, `Environment`, `Resolve`, `Overlay`, `ProfileName`, `BuildApp` | `Loader.Load`, `Store.Resolve`, `ApplyFlags`, `resolveProfileName`, `buildApp` |
| `Run`, `EnsureAccount`, `Ensure`, `Launch` and the failures beside them | `newSSHCommand`; accounts and certificates themselves are `Sessions` and `CertCache` |
| `BuildSSHArgs` | `buildSSHArgs` |
| `Reads`, token by token `ReadsOn` | OpenSSH's own reading of its line (getopt, external): groups of letters, attached values, options after the destination |

A token keeps what its spelling amounts to, so that `-p 22`, `-p22` and `-NL` are
different without any strings; what is taken as a value is a member of `Text`. An empty
word, which only quotes can put on a line, is left out. `Reads` is used twice: on the
line, with this program's flags added, it is what the user *means*; on the arguments
built, what OpenSSH will *do*. `PlainPassedThrough` says that the two agree whenever the
line spells its options the way `ParseArgs` knows, and where exactly this program's own
options stand among the user's: OpenSSH takes the first of two, so the order decides.

### Handlers, Doctor and Operations

The operator commands are forty handlers over one client. `Handlers` says of each
what it makes of its flags: a *plan*, that is the checks before anything is sent
(`valid`), the requests (`asks`), whether they are repeated (`watched`) and
whether a line of text goes before the answer (`announces`). `Doctor` has the
checks of `mayfly doctor`, a set of names with a status each, and their verdict, as a
function of what the three requests brought. `Operations` carries a plan out.

| Model | Code |
|---|---|
| `PlanOf`, `new...Command` | the command tree and the `RunE` of each command |
| `Refuse`, `Do`, `Return` | the early returns, `api.Do` and its error |
| `Send`, `NoToken`, `Exhausted`, `Breaks`, `TimesOut`, `Unusable`, `HearAnswer`, `HearRefusal`, `HearBusy` | `doWithRetry` and `doOnce`: what is counted, what is tried again, what is returned |
| `Render`, `Refresh`, `Tick` | output and exit status; the `runMaybeWatch` loops |
| `runDoctor`, `OverallStatus` | the same |
| `Serve`, `RefuseRequest`, `AnswerBusy`, `ServeLate`, `Elsewhere` | the server, a gateway before it, other operators and agents (external) |
| `done`, `adrift`, `late`, `calm` | history variables, read by properties only |

The server's state is one word per CA and machine; it accepts a change from the
states `docs/ca.md` and `docs/machines.md` allow, and may refuse anything. A request
names what it asks for, a thing or one of the paths of the API, and the query the
handler has built from its flags (`query`, and `--state`, `--generation` and
`--limit` of `rollout`). What the server lists for such a request (`Subject`) is
written once, after the server; what the operator means by the flags (`Wanted`,
`Meant`) is written from `docs/machines.md` and `docs/rollout.md`, and
`SuccessIsTrue` says that the two agree. Four readings of these documents are
assumptions of the model:

- a machine that is online with the latest bundle is `current`, one that is offline,
  disabled or revoked `stuck` (an update that failed, the fourth reason
  `docs/rollout.md` has, is not a state of the model), every other `lagging`, a
  machine that awaits approval among them;
- a machine has one generation: the latest (1), the one before (0), or none (-1).
  `--generation` filters "by current/synced generation"; the two are not told apart;
- `--hostname`, `--os`, `--arch` and `--agent-version` are handled as `--status` is
  (`machine.go:457-462`), and `--status` stands for them;
- flags have the values that their help names.

The views that count or recount events (`ca stats`, `machine status`, `rollout
status`, `summary`, `generations`, `health`, `timeline`, `history`, and `health`,
`status`, `metrics`) are requests of their own, with retries, output and exit status,
but what their answer contains is the server's and is not modelled, but for the
machines of `health`, which `doctor` looks at.

A request can be lost before or after it was served, or served after the client has
given it up. A behaviour is one command from any state: the commands share no
state but the server's, so the others are `Elsewhere`.

## 3. The runs

Small constants are enough where behaviour is decided by who comes between two
steps: two processes show every pairwise interleaving, two or three issuances
every mixture of an old and a new file, and each run was made as large as a few
minutes allow.

| Run | Instance | Shows |
|---|---|---|
| `CertCache` | 2 processes, one runs `ssh`, the other `ssh --no-cache`, `cert issue` and `cache --prune`; 2 issuances, time 0..2, lifetime 1, threshold 1, server clock 1 ahead; 2.1 million states | undisturbed saves and removals are whole whatever crashed before; metadata and key agree only if all files do; no crash publishes half a file; reuse respects the threshold; refinement of `CertPromise` |
| `CertCacheTornPair` | 1 process, ssh/issue | **violated**: a killed save leaves a key its certificate was not signed for, and `ssh` reuses the pair |
| `CertCachePruneRace` | 2 processes, ssh/prune | **violated**: prune deletes a certificate renewed since it was listed |
| `CertCacheTornMeta` | 2 processes, each `cert issue` | **violated**: one publishes the temporary metadata the other has truncated, and it stays unreadable |
| `Sessions` | 2 processes, all eight commands, two identities, one of which signs in to both profiles, 2 tokens | as long as no identity has signed in to two profiles, a request carries its own profile's and account's token; an active account exists, in spite of stale copies; an undisturbed login or logout has its full effect |
| `SessionsSharedToken` | 1 process, one identity in two profiles | **violated**: a call in the first profile uses the second profile's token; a logout in the first then leaves a token nobody can reach |
| `DeviceLogin` | 2 codes, 2 retries, lifetime 5, pace 1..3, 3 faults | the pace of each first try, the outcome, what can be lost, and that the login ends |
| `Audit` | 7 command lines, 0..1 entries at the start, log of 3, `--limit` 50, 3 or 0, 1 retry, 2 faults | a tail is complete, ordered, without repetition or history; a view is current and filtered as asked; a tail catches up |
| `SshCommand` | all lines of up to 3 of 16 tokens and of 3 tokens before a host, two settings; 4 lines under 432 combinations of layers | OpenSSH reads what the user wrote; each setting comes from the highest layer that has it; the certificate asked for is the one meant |
| `SshPassedThrough` | `-NL 8080:db:80 web`, and `-N -L` apart | **violated**: a group of letters whose last takes a value is passed on so that OpenSSH takes the injected `-i` for that value |
| `FileStore` | 2 processes, 2 keys, 1 secret, 2 machine ids, a host with an id of its own and one without | the file refines `KeyStore`, atomic until disturbed, honest for ever; calls that fail are refined too |
| `Operations` | 166 command lines, 2 CAs, 1 machine, 24 states of the server, 0 or 1 retry (and -1), 1 change by others | what a command reports is so, a list is what its flags ask for; a change happens once but for lost answers; no destruction unasked; one document; doctor's verdict; every command ends |

The bounds: `MaxTime` and `MaxIssues`, `MaxTokens`, `MaxFaults`, `MaxInterval`,
`MaxLog`, `MaxIds`, `MaxOthers` cap the clock, the server's grants, the faults, the pace, the log, the
machine ids drawn and the changes by others. Nothing else is
bounded: commands can be started over and over, but for `Operations`, where a
behaviour is one command. The certificate runs need a
certificate with more than the threshold left, one that expires within the clock's
range, and one that is not valid yet. With lifetime 1, granted by a clock 1 ahead, one
certificate is all of these in turn: not valid at 0, due at 1, expired at 2. `cert remove` and
`remove --all` are not in the passing instance; they take the steps of a prune, but for the
condition on the expiry, which the proofs do not need. The session
runs need a second token, so that one profile's can be replaced or mistaken for another's;
the audit run an old entry for the tail not to replay, and two new ones for a
page to be cut between; the `ssh` lines every pair of a token and what it could take for
its value, before and after a host; the credential store two keys, so that one
can be lost by an update of the other, and two machine ids, so that a process can
encrypt with one that is overwritten; the operator commands two CAs, so that the last
enabled one can be told from any, one retry, so that a change can be served
twice, and one change by others, which may fall between any two steps.
Processes, and in `FileStore` keys, are symmetric in the runs without liveness.

`solo[p]` in the properties' names ("an undisturbed save", "SoloLoginTakes") is a
history variable: no other process was inside the directory, or ran a command,
since p began. It makes the guarantee exact: what other processes left before,
crashed or not, is arbitrary; only overlap is excluded. What overlap can break
is shown by the violated runs.

Every property is paired with a mutant of a mapped definition (a forgotten file
in `Save`, a late threshold, an account selected in every profile, a restart
that is not counted...) under which TLC finds it violated, so none of them holds
by the shape of the model.

### Fairness

`CertCache` and `Sessions` state safety only: a user may stop using the program
at any point, and a process may be killed, so nothing has to happen. In
`DeviceLogin`, `WF(Tick)` and `WF(Login)` say that time passes and that the
client's own steps are taken: its timers fire, and each request ends, because the
HTTP client has a timeout. Nothing is assumed of the user. That the server
reports an expired code as expired is an assumption on the server: the client
has no deadline of its own.

In `Audit`, `WF(Serve)` and `WF(Proceed)` say that a request is answered and the
command goes on: the client is one loop of requests and timers. The log need not
grow, requests need not fail, nobody has to press Ctrl-C; a tail that fails or is
interrupted has ended, and `NewEntriesShown` promises nothing beyond that.

In `Operations`, `WF(Client)` says that a process that can go on does, its timers
included; neither the server nor the network owes it anything. That is enough
for `CommandEnds`, for commands that do not watch and whose requests have a timeout.
With `request_timeout_seconds` = 0, which the code accepts, there is none, and a
command may hang: `TimesOut` has `limited` as a guard. `FileStore` states safety only.

`DeviceLogin`, `Audit`, `SshCommand` and `Operations` are checked without deadlock
detection, for a command
stops when it has ended; one that stopped earlier would violate `LoginEnds`,
`NewEntriesShown` or `CommandEnds`, and in `SshCommand` every line's steps are
taken one by one. In `FileStore` only the bound on machine ids stops a process.

## 4. The proofs

`CertCacheProofs`, `CertCacheSoloProofs`, `SessionsProofs`, `DeviceLoginProofs`,
`AuditProofs`, `SshCommandProofs`, `FileStoreProofs` and `OperationsProofs` prove, for
any number of processes, profiles, identities, codes, keys, CAs, machines and log
entries, any commands, command lines, settings, lifetimes, skews, paces, retries and
bounds:

| Theorem | States |
|---|---|
| `CertCacheProofs!TypeCorrect` | type correctness |
| `CertCacheProofs!ReuseIsNotDue` | a reused certificate had more than the threshold left |
| `CertCacheProofs!ImplementsPromise` | `CertCache` refines `CertPromise`: what is handed over was valid at a clock reading not older than the command |
| `CertCacheSoloProofs!SaveIsWhole` | an undisturbed save leaves four files of one issuance |
| `CertCacheSoloProofs!RemovalIsClean` | an undisturbed removal that succeeds leaves nothing |
| `CertCacheSoloProofs!AgreementIsEnough` | without overlap, equal metadata and key mean a whole entry |
| `CertCacheSoloProofs!PublishedAreWhole` | without overlap, no file is half-written under its own name |
| `SessionsProofs!TypeCorrect` | type correctness |
| `SessionsProofs!ActiveAccountsExist` | an active account exists |
| `SessionsProofs!OwnTokens` | as long as no identity has signed in to two profiles, requests carry their own token |
| `SessionsProofs!LoginTakes` | after an undisturbed login its account is active and its token stored |
| `SessionsProofs!LogoutForgets` | an undisturbed logout that names its accounts, or any as long as no identity has signed in to two profiles, leaves nothing of them |
| `DeviceLoginProofs!TypeCorrect` | type correctness |
| `DeviceLoginProofs!PaceAlwaysKept` | the loop begins no poll sooner than the pace the server asks for; retries under a poll are outside it |
| `DeviceLoginProofs!DoneIsApproved` | a login succeeds with the token of the code it showed last, which was approved |
| `DeviceLoginProofs!FailuresExplained` | without a fault it fails on a denial or when its codes have expired |
| `DeviceLoginProofs!NothingEverWasted` | no token is lost but to a fault or an interruption; every fault loses one code at most, an interruption none but the one being asked for |
| `AuditProofs!TypeCorrect` | type correctness |
| `AuditProofs!TailIsExact` | a tail prints what matches, once and in order, up to its cursor |
| `AuditProofs!TailIsNew` | a tail prints nothing that was there before it started |
| `AuditProofs!ViewIsOneMoment` | a view is the newest matches of one moment since it was asked for |
| `AuditProofs!ShowsOnlyWanted` | nothing is printed that flags and preset do not ask for |
| `SshCommandProofs!TypeCorrect` | type correctness |
| `SshCommandProofs!HighestLayerAlwaysWins` | each setting is that of the highest layer that has it, and says so |
| `SshCommandProofs!AlwaysAskedAsMeant` | on a plain line the certificate is for the host, lifetime, server and profile meant |
| `SshCommandProofs!PlainAlwaysPassedThrough` | on a plain line OpenSSH reads what the user means, and this program's options around it |
| `FileStoreProofs!TypeCorrect` | type correctness |
| `FileStoreProofs!ImplementsKeyStore` | the encrypted file refines `KeyStore` |
| `OperationsProofs!TypeCorrect` | type correctness |
| `OperationsProofs!EffectsAlwaysAccounted` | a change is carried out once, but for lost answers |
| `OperationsProofs!NothingEverWithoutConsent` | nothing is destroyed unasked, no CA made without a passphrase |
| `OperationsProofs!OnlyOneDocument` | one document for scripts, and nothing else |
| `OperationsProofs!SuccessIsAlwaysTrue` | what a command shows or reports as done is so, and a list is all that its flags ask for |
| `OperationsProofs!DoctorAlwaysAgrees` | doctor has every check once, its exit status agrees with them, and it fails where the code's thresholds say so |

*CertCache.* The invariant is `LocalInv`: types, and for each process `Shape`
(which commands reach which step, and what they carry: an entry from the lookup
on, a checked certificate at the end) and `NotDue` (what was decided for reuse
was not due at the clock reading of the decision). `Shape` is needed because the
properties speak of the last step only, while the facts they need are
established several steps earlier. Neither mentions the files: reuse and
verification are safe *whatever* the directory contains, and that is why the
theorems hold in spite of every race. The refinement then needs one observation:
the only step that hands anything over is `VerifyOK`, which has read the
certificate file and compared it with a clock reading of this very command: `Shape`
keeps `began` below every reading the command carries.

The theorems about undisturbed commands do depend on the files. `SoloInv` says,
for a process that is alone, that nobody else is inside (`Alone`) and how far its
save or removal has got (`Progress`: what is renamed is its own, and so is the
temporary file between write and rename, which it has open and nobody else has renamed;
what is still there is on its list). A step of another process either ends the
solitude or touches nothing (`Unseen`).
For `AgreementIsEnough` two facts more: nobody else is saving the same issuance
(`EntriesDiffer`), and a save's issuance is in no file it has not renamed yet
(`EntryIsNew`). So from the first rename, of the key, to the last, of the
metadata, the two differ. `PublishedAreWhole` goes along with the same invariant: without
overlap the only file that is ever renamed is the one its owner has finished (`FileStep`).

*Sessions.* Every stored token was issued for the key it is filed under
(`TokenMatchesKey`, not a property but a part of the invariant), because a process on
its way from a grant to `SaveToken` holds a token granted for the key it is going to write
(`FlowOf`). `IndexClosed` needs more: the published index is some process's copy,
published from a temporary file that another process may have written. The invariant
`Tidy` (a selection's account is known; every account has signed in to the profile it
is recorded in; and as long as no identity has signed in to two, a selection's account is
recorded in the profile that selects it) is therefore stated of the index, the temporary
file and every copy at once, and each change of a copy preserves it. `OwnTokens` follows:
the key a token is loaded by is then the profile's own.

The theorems about undisturbed commands have an invariant like that of the
certificate cache. A process that has been alone since it started (`Alone`) works on a copy
that is the index, or lies in the temporary file about to become it (`Copy`); what
interrupted commands left there before does not matter, since a save begins by
overwriting it. `LoginTold` and `LogoutTold` say how far each command
has got: which of the token, the account and the selection are in place, and of which
targets everything is gone. `LogoutForgets` has a premise (`OwnTargets`): plain `logout`
works on the active account, which may be recorded in another profile once an identity
signs in to two, and then the token filed under this profile stays. The reason is that of
`SessionsSharedToken`.

*DeviceLogin.* The properties speak of single moments, the invariant of the way
there. `InPace` follows timer and interval: what is left on the timer and
what has passed since the last poll add up to the interval, and the interval is the pace of the
code, or shorter where an answer was lost. `Holding` says that there is no token
before one was approved. `UsedUp` is what `FailureExplained` needs of the
attempts before the last: each of them ended because its code had expired.
`Counted`, one shown code for every attempt, ties the number of attempts to it.
`NoSpare` and `NoneUnseen` keep the books of tokens and codes at every step, with
one code more while a start that Ctrl-C cut off may have been served.

*Audit.* `FollowsExactly` counts from `start`, the end of the log when the first
request was answered, but the cursor begins at the newest entry that *matched*,
which may be older. `NoGap` closes the distance: nothing that matches lies between
the cursor and `start`, so it is harmless that the first poll asks from further
back. `Answered` says what an answer under way contains and which cursor it
belongs to; with it a page is exactly the interval of matches between the old
cursor and the new one, and the printed intervals adjoin each other. `ViewInv` is the
invariant of the views: a page that has been served, and a view that is shown, are
the newest matches of some moment not before the question. The log may grow
afterwards, and may grow between an answer that was lost and the next; what was
the newest at a moment stays that.

*SshCommand.* `HighestLayerWins` is a matter of the functions that build the
configuration, once `Typed` says that past `BuildApp` it is exactly what they make of the
line and the layers. The other two compare `ParseArgs` with `Reads` on a line of any
length. `Kept` is the loop invariant of `ParseArgs`: what the user means by the part
of the line already read, and what OpenSSH would make of the options kept so far,
agree in every option, and the flags read are the ones meant (`Before`). It holds
only where the line is `Plain`, and where it stops being so is the counterexample
of `SshPassedThrough`: after `-NL`, the user's reading waits for a value and
`ParseArgs` does not. Behind the host nothing of this program is read any more
(`SettledReads`), so both readings go on alike (`LikeReads`), whatever of this program's
own stands before. `Sent` says that what was asked for and launched comes from the finished
line. What `Reads` makes of a line is a recursion over its tokens; the facts about it
(`ReadsConcat`: the whole is read like its parts, one after the other) rest on
`SequenceInduction`: a set of sequences that has the empty one and is closed under
`Append` has them all, which is proved from the least counterexample.

*FileStore.* A step of the file's processes maps to a step of `KeyStore` or to
none: `Rename` is the moment an update takes effect, `LoadOnly` that of a `Get`;
a disturbed step maps to `Interfere`. `IInv` has three parts. `Shape` says what a
process carries where. `AllHonest`, of the file, the temporary file and every
copy in memory, says that their entries were offered for their keys; it holds
through every race, and is all that is left after one. `Calm` holds until
processes disturb each other: one of them updates (`OneAtATime`), it holds what the file is to
become (`Saving`), and every entry can be read with the passphrase the next
process will have (`SamePassphrase`, `Legible`; `NoneYet` covers the first run,
before which there is no entry that a new id could make unreadable).

*Operations.* `EffectsAccounted` speaks of the end of a command; `Tallied` keeps
the books until then: what the server has done, or may still do, exceeds what
is adrift by one only while an answer is on its way or has been heard, and every
attempt adds at most one to what is adrift. `Underway` says that requests belong
to plans whose checks have passed. That a plan with a change has it as its only
request, and that the checks of a destructive one ask for consent, are facts about the
forty handlers (`PlanFacts`, with a lemma for each group of commands);
`NothingEverWithoutConsent` follows. `Documented` says that nothing of a document is
written before the end. For `SuccessIsTrue` there is once more a fact about every
handler, `Right`: what the server lists for its request is exactly what the documents
promise for the flags typed, all of them together, in every state of the server
(`ListSelects` and the lemmas beside it compare the two definitions flag by flag).
`Truthful` follows the answer to the screen: as long as nobody else has changed anything (`calm`), what it tells is still so (`Bears`).
`DoctorAgrees` rests on `Informed` (an account that is not authorized hears nothing of
the server's inside, and the exit status is the verdict on all the requests there
are) and on `Report`: whichever of the three failed, every check is there once.

Assumptions, all of which TLC evaluates in every run that uses the module:

- the typing of the constants (`CertCacheAssumption`, `SessionsAssumption`,
  `DeviceLoginAssumption`, `AuditAssumption`, `CommandsAssumption`, `FileStoreAssumption`,
  `OperationsAssumption`);
- `NamesAssumption`: a CA is no machine, and neither is a collection;
  `InvocationsAssumption`: a command has the arguments cobra demands before its handler
  runs, its shortcuts are kinds of liveness and the clock's drift is a natural number;
- `TextAssumption`, `InputsAssumption`: tokens, layers and profiles are made of texts, and no
  token is an empty word; `LettersAssumption`: OpenSSH takes a value after every letter
  `valueOpts` lists, none of these letters is the name of a long flag, and the empty
  text is no number;
- for `OwnTokens` and `LogoutForgets` the premise in their statements, that no identity
  has signed in to two profiles yet; without it `SessionsSharedToken` is the counterexample.

Every safety property of a passing run is the subject of a theorem. Only model-checked are
the liveness properties `LoginEnds`, `NewEntriesShown` and `CommandEnds`, for liveness
under fairness is beyond the prover.

## 5. What is not modelled, and the plan

Next, in this order:

1. **The truncation of the index's temporary file**, as `FileStore` has it for the
   credential file, and profile management.
2. **The root flags that `ssh` does not know** (`cmd/root.go`), once a document says what
   they should do there.

Left out for good: the layout of tables and documents, cryptography, key generation,
platform detection, process launch, profiling, `diagnostics` (it prints the
environment), the direct identity providers, which no command reaches, the fallback of
the machine id to the host's name, and the server's own behaviour beyond what its
documentation lets an operator rely on: which states allow a change, and what a list
contains.

Places where a document and the code disagree, without a run. `doctor` is modelled
as the code has it, and `DoctorAgrees` says nothing of what the documents say instead:

- the clock: `doctor` warns at a drift of 5 s and fails at 60 s (`cmd/doctor.go:20-22`),
  where `docs/diagnostics.md:68` says 30 s and 5 min;
- the CA: `docs/diagnostics.md:72` asks for at least one active CA and a selected signer;
  the code takes the server's word that a CA is configured (`cmd/doctor.go:205`) and only
  prints how many are enabled, so that it passes with none enabled if the server says so;
- the machines: `docs/diagnostics.md:71` flags pending, stale and offline machines; the code
  looks at the number enrolled and, under another check, at the number offline;
- the providers: `docs/diagnostics.md:70` has them reachable; the code looks at what is registered;
- the audit chain: `doctor` passes, with a warning, when the status could not be read;
- the top-level `README.md` shows `machine revoke --yes`, a flag the command does not have.
