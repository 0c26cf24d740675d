# AmiSnap in TLA+

AmiSnap is a backup program for AmigaOS. `SNAPSHOT` walks a source volume and
stores its files, deduplicated by content hash, in a repository; `RESTORE`
writes a snapshot back; `PRUNE` deletes snapshots and reclaims what nothing
refers to any more. A repository lives on a directory, a WebDAV server or an S3
bucket. There is no server and no database: a repository is a set of files, and
everything it promises rests on the order in which the commands write, rename
and remove them, on a lock file, and on what each call reports when it fails.

## 1. The system

| Part | Source | State it keeps | Operations | Modules |
|---|---|---|---|---|
| Repository writer | `core/repo.c` | `objects/`, `snapshots/`, the manifest being built | put an object unless it is there, add an entry, probe for a free snapshot id, commit the manifest | `SnapRepo`, `StoredForm` |
| Lock | `core/repo.c:595-610` | `amisnap.lock` | test and put, remove | `SnapRepo` |
| Prune | `core/prune.c` | set of marked hashes, counts | delete manifests, mark, refuse, sweep `objects/` and `tmp/` | `SnapRepo`, `SnapshotList` |
| Snapshot command | `cli/main.c:627-1286` | previous index, counters, archive bits of the source files | scan, decide changed or unchanged, read, store, set the archive bit, commit | `SnapRepo`, `ChangeDetect` |
| Change detection | `core/index.c` | the previous snapshot's entries, sorted | build, look up, compare | `ChangeDetect` |
| Scanner | `amiga/scan.c`, `core/exclude.c` | the directories being walked, one path buffer | list, exclude, recurse, emit entries | `Scan`, `Exclude` |
| Restore | `core/restore.c`, `amiga/restore_meta.c` | the destination tree, counters | verify everything, write every entry, apply metadata in reverse | `Restore` |
| Verify | `core/repo.c:368-593` | counters | fetch, decode and hash every object | `Restore`, `StoredForm` |
| Repository header and keys | `core/repo_header.c`, `core/repo_crypto.c`, `cli/main.c:514-576,1792-2085` | `amisnap.repo`, wrapped key, object encoding | INIT, REKEY, open | `RepoFormat`, `HeaderCodec` |
| Directory backend | `core/backend_dir.c` | files, `tmp/` | put (write, rename), streaming put, get, exists, list, remove, mkcol | `DirBackend` |
| WebDAV and S3 backends | `core/webdav.c`, `core/s3.c` | a connection that may be stale, multipart uploads | the same operations as requests, retried once on a reused connection | `RemoteBackend`, `RemoteServer` |
| HTTP | `core/http.c` | the response read so far | build a request, feed the parser | `HttpParser`, `HttpExchange` |
| Sockets and TLS | `amiga/socket.c`, `amiga/tls.c` | a pair of buffers, the session | connect, send, receive, close | `Transport`, `ByteStream` |
| Codecs | `core/tlv.c`, `core/meta.c`, `core/manifest.c`, `core/compress.c` | a buffer, a cursor | encode, decode, validate | `Tlv`, `ManifestCodec`, `StoredForm` |
| Hashes | `core/blake2s.c`, `core/sha256.c`, `core/hmac_sha256.c`, `core/pbkdf2.c`, `core/xxhash32.c` | a partial block, counters | init, update, final | `Digests` |
| Random numbers, console | `core/drbg.c`, `amiga/random.c` | entropy pool, generator, timer | stir, draw, prompt, calibrate | `Entropy` |
| Sidecars | `amiga/applyuaem.c`, `tools/amisnap_reader.py` | counters | walk, parse, apply | `Uaem` |
| Program | `cli/main.c`, `amiga/stackswap.c` | stack, libraries, log, backends, lock | start, run a command, leave | `Process`, `SnapshotList` |
| Compressors, ciphers, encodings | `core/lz4.c`, `core/miniz.c`, `core/chacha20.c`, `core/sigv4.c`, `core/base64.c`, ... | none | pure functions | not modelled (section 6) |

How they interact: every command calls `open_backend`, then `open_repo_key`;
`SNAPSHOT` and `PRUNE` then take the lock; everything else reads or writes the
repository only through the backend's operations. Commands are separate
processes; nothing is shared but the repository (and, for `SNAPSHOT`, the source
volume, which its user goes on using).

What is hard: two commands over one repository; a crash between any two calls; a
call that took effect but reports failure; an answer that is wrong or stale when
it is used (a file changed after it was scanned, an object swept after it was
seen, an id taken after it was probed); bytes that come in pieces; errors on the
way that must leave the repository, the destination or the manifest as if
nothing had happened. PROJECT.json lists these hazards line by line.

## 2. Modules

Read them in this order.

| Module | What it is |
|---|---|
| `SnapshotStore` | abstract specification: a set of restorable snapshots with fixed contents |
| `SnapRepo` | SNAPSHOT and PRUNE over one repository: writer, lock, mark and sweep, failures, crashes |
| `SnapRepoProofs` | proofs: types, the inductive invariant and all safety properties, refinement of `SnapshotStore` |
| `ChangeDetect` | how SNAPSHOT decides that a file need not be read, while the source volume is in use |
| `ChangeDetectProofs` | proofs: types, no stale content under PARANOID, no stale content with honest datestamps |
| `Restore` | RESTORE: verify, write, apply metadata, on a destination directory, with a repository that decays or is pruned |
| `RestoreProofs` | proofs: types, the inductive invariant and all of its safety properties |
| `RepoFormat` | INIT, REKEY and the encoding of what SNAPSHOT writes |
| `RepoFormatProofs` | proofs: types, readability, fixed format, nothing in the clear; for `Digests`, that digests are the standards' of the whole, and that inputs, keys and derivations that differ give what differs |
| `KeyStore` | abstract specification: what `backend.h` promises, a map from keys to contents with atomic calls |
| `DirBackend` | the directory backend as file system calls, several processes in one directory; implements `KeyStore` |
| `DirBackendProofs` | proofs: whole reads, no litter, the refinement of `KeyStore` |
| `RemoteServer` | external: what a WebDAV server and an S3 service do with a request |
| `RemoteBackend` | the WebDAV and S3 backends over HTTP, composed with `RemoteServer`; implements `KeyStore` |
| `RemoteBackendProofs` | proofs: answers go to their requests, POSTs are carried out once, listings are exact; the WebDAV and S3 backends implement `KeyStore`, types, no lost uploads, only faults make a call fail |
| `ByteStream` | abstract specification: what `transport.h` promises of a connection |
| `Transport` | the plain socket and TLS over a pair of buffers; implements `ByteStream` |
| `HttpParser` | the request builder's counterpart: the incremental response parser |
| `HttpExchange` | one request and its answer over `Transport`, with the retry on a kept connection |
| `HttpExchangeProofs` | proofs: an exchange comes out as asked and as answered however its bytes are cut, and the connection implements `ByteStream` |
| `Tlv`, `ManifestCodec`, `HeaderCodec` | fields and records; the manifest's writer and reader; `amisnap.repo` |
| `StoredForm` | objects and manifests as stored: frames, derived nonces, the checks of a read |
| `Digests` | buffering, padding and counting of the hashes, HMAC and PBKDF2 |
| `Exclude`, `Scan` | the pattern matcher against its documentation; the walk over a source in use |
| `SnapshotList` | the list of snapshots, KEEP_LAST, the choice of the latest, LIST |
| `Uaem`, `Entropy`, `Process` | sidecars and the calendar; random numbers and prompts; what a run holds and gives back |
| `PartsProofs` | proofs for `StoredForm`, `Process`, `Entropy`, `SnapshotList`, `Scan`, `Exclude` and `Uaem`: what is fetched is what was stored, a run leaves nothing behind, draws differ and lines are as typed, the list is complete and in order, the walk passes nothing over, a line of the exclude file keeps out what it is documented to, a sidecar gives its own entry what was written |
| `MC...` | instances for TLC; `MCSnapshots` runs `ChangeDetect` and `RepoFormat` side by side, `MCParts` every module from `Tlv` on, one machine at a time |

`SnapRepo` composes the repository writer, the lock and the two commands that
change snapshots. The other modules look at one question each and abstract the
parts `SnapRepo` answers for: `ChangeDetect` keeps of the repository only the
entries of the last committed snapshot, `Restore` only the state of the objects
the snapshot refers to, `RepoFormat` only how each object and manifest is
encoded.

The modules stack. `SnapRepo` and `Restore` take a backend call for one atomic
step that may take effect and still report failure; `KeyStore` says that, and
`DirBackend` and `RemoteBackend` implement it. `RemoteBackend` takes an exchange
for a request and an answer that belongs to it; `HttpExchange` shows how both
come out of bytes in pieces, on top of `Transport`, which implements
`ByteStream`. `StoredForm` justifies what `SnapRepo`, `RepoFormat` and `Restore`
take for granted, that a fetched object is the stored one or an error;
`ManifestCodec` does so for a manifest's entries, `HeaderCodec` for the header,
`Scan` for the order of entries that `Restore` assumes (`InOrder`).

### SnapRepo

| State | Code |
|---|---|
| `objects`, `committed`, `refs` | files under `objects/` and `snapshots/`, what a manifest refers to |
| `tmp`, `lock` | files under `tmp/`, `amisnap.lock` |
| `pc`, `op` | where a process is in `cmd_snapshot` or `cmd_prune` |
| `cur`, `todo`, `file` | the object at hand in `write_object`, the chunks still to store, all chunks of the file |
| `draft`, `prev`, `id` | the manifest under construction, the loaded index, the candidate snapshot id |
| `ids`, `mark`, `dels` | `amisnap_prune_execute`: ids to delete or mark, marked hashes, "one was deleted" |

Every backend call is a step: `put` is `Stage...` (write under `tmp/`) and then
a rename; the lock is tested (`LockFree`, `LockRefused`) and put (`StageLock`,
`LockTaken`) in separate steps, as `amisnap_repo_lock_acquire` does. The three
`...Fail` actions stand for a failing call at any step, with the cases in which
a put or a remove took effect all the same; `Crash` loses the process's memory
at any step. `FileFail` leaves out one file and goes on; `SnapFail` gives up the
snapshot. The ids that PRUNE deletes go oldest first; a repeated remove may
report "not found" for a manifest it deleted (`counted` in `DeleteManifest`).
The order in which the chunks of one file are stored is abstracted to a set.

Three switches: `LockGap` lets two processes stand between the test and the put
of the lock, which `repo.h:283-291` documents as accepted because there is one
operator; `ExistsHonest` and `ListHonest` say whether `exists()` and `list()`
keep what `backend.h` asks of them.

### ChangeDetect

One repository, one source volume. `src` has, per path, the version of the
content, its size, datestamp, protection bits and archive bit; `now` counts
writes and is the volume's clock. `seen` is what ExAll() reported when the
directory was listed, `size` what Examine() said when the file was visited,
`cur` the file at hand; `index`, `draft` and `last` are the previous entries
loaded, the entries written by this run and those of the last committed
snapshot. `Begin`, `ListFiles`, `Visit...`, `Read...`, `Mark`, `Commit` and
`Abandon` follow `cmd_snapshot`, `scan_dir` and `snapshot_on_entry` branch by
branch; between any two of them a user may `Write`, `Protect` or `Swap`.
Comment and owner behave like the protection bits and are folded into them.
`held` is history: the versions a path had since this snapshot listed it.

### Restore

`phase`, `i`, `k` are the position of `amisnap_restore_manifest` in its
verification, content pass and metadata pass; `dest` is the destination tree,
`staged` the open staging file. `object` is the state of each object: good,
damaged or gone. A directory's metadata is `saved` until something in the
directory changes, which is why the code applies metadata in reverse.
`Prune`/`Sweep` and `Rot` change the repository meanwhile; `WriteFails`,
`FetchFails`, `Stop` and `Crash` interrupt; `Start` may run again over what is
left. rename() is POSIX's (it replaces a file, not a directory). Names of staging
files are not tracked: a leftover of a crash is overwritten or ignored.

### RepoFormat

`header` is `amisnap.repo`: the key, whether objects are framed (OBJCOMP), and
the passphrase that wraps the key. An object and a manifest remember the format
they were written in. A SNAPSHOT reads the header once (`OpenRepo`) and uses it
until it ends; INIT and REKEY read the header in one step and write it in
another, with no lock between them. A put that reports failure after taking
effect is `PutFails` for objects and the ordinary action for the header.
COMP_PREF and the chunk size do not decide whether something can be read (each
frame names its own algorithm) and are left out.

### DirBackend

`node` says what each path leads to: the bytes of a file, a directory or
nothing. `at` is the next file system call of each process and `h` the handle it
has open, so `dir_put` is `"mktmp"`, `"open"`, `"write"`, `"close"`,
`"parents"`, `"rename"`, with `"discard"` on the way out of a failure; a streamed
put waits at `"held"` between appends. An open file is the file, not its name:
when the name is taken or removed under it, the handle's `file` becomes `Gone`
and it goes on reading the old bytes or writing into nothing. A write may be
short, every call may fail, a process may `Crash` anywhere; `"sweep"` is PRUNE's
removal of whatever lies under `tmp/`. `Owner` says who puts and removes a key,
which is what the lock and the one operator of `repo.h` amount to. `litter` and
`faulty` are history: files left under `tmp/` by a crash or a failing unlink, and
whether something failed or interfered during a call. `StatHonest` is the
assumption that stat() fails only for what is not there.

### RemoteBackend

`call` is the backend call being made and `todo` its requests still to be made
(`PlanWebdav` and `PlanS3` give them per call: WebDAV creates the parents of a
key one by one before it writes, S3 looks whether an object is there before it
deletes). `at`, `fresh` and `attempt` are the position in `webdav_exchange` or
`s3_exchange_ex`: get a connection, send, receive. `conn` is the connection kept
between calls, which the server may have closed (`"stale"`) or which holds the
rest of an answer without a length (`"soiled"`). `own` and `body` are the
connection of a WebDAV streamed upload, `h` the handle of `put_begin()` with its
buffer, upload id and ETags. `line` is the request and the answer on the
connection in use. A connection that is given up leaves its request in
`abandoned`: the server may still carry it out until the next call is made, or
never. `last`, `faulty`, `ran`, `unsettled` are history.

`RemoteServer` is what the servers in `tests/webdav` and `tests/s3` and the
protocols' documents agree on: MKCOL of what exists is refused, a chunked body
is stored when its last chunk has come, a multipart upload is completed when
every part named is there and only the last is small. Which error a server
answers, and whether it did what was asked before, is a choice (`ServeBadly`).
Requests and answers are records; their bytes are `HttpExchange`'s subject.
Assumed of the network: bytes left over from an answer without a length never
look like an answer that reports success, and a request on an abandoned
connection is not carried out after the next call has begun. An idle connection
that is closed is no fault, and the client has to hide it.

### Transport, HttpParser, HttpExchange

A byte is a token of `Byte`. `sock` and `wire` are the network, `out` and `in` the two
halves of the BIO pair, `pend` the socket's bytes that did not fit (`pending_in`),
`tls` the library: a black box that needs the messages of a handshake in turn,
seals what it is given in records and opens a record once it has all of it.
`at` and `want` are the position in `tls_pump()` and what the library said it
wants; `Settings` are the ways a command can be called and the servers it can
meet (certificate, host name, versions, size of records). `Around` is the rest of
the world: the server speaks, the network delivers any number of bytes, cuts or
resets, at most `Troubles` times; a wait may time out at any moment and costs
nothing. `HttpParser!Feed` is `amisnap_http_response_feed()` on a piece of any
length: `line` holds an unfinished line, `left` what is missing of a body or
chunk. `HttpExchange` composes the two: `ask`, `phase`, `fresh`, `attempt` are
the locals of `webdav_exchange()` and `s3_exchange_ex()`, `resp` the parser.

### The parts that work alone

- `ManifestCodec`: `writer` is the `amisnap_manifest_writer` with its sticky
  error, `file` the bytes it made, `fate` what storage or a later version of the
  program did to them, `reader` the locals of `amisnap_manifest_decode()`, which
  takes one field per step and calls back. A cell stands for a tag, a length, a
  number or a digest; `Tlv` is generic over the layouts of the records.
- `HeaderCodec`: `header` as INIT or REKEY wrote it or as one bad cell left it;
  `opened` is what decode, prompt, derive and unwrap made of it.
- `StoredForm`: `objects` and `snapshots` as files of nonce, text and MAC, a text
  being a frame of an algorithm and a payload or the plain content; storage may
  cut, alter, misplace or lose a file (`decayed`); `sealed` is the history of
  nonces; a snapshot chooses its own compression, prune deletes.
- `Digests`: one context at a time is fed in pieces of any length; the
  compression functions are uninterpreted and injective, the definitions of the
  standards are the reference.
- `Exclude`: a line is typed one character after the other; for every line up to
  the bound the code's pattern and matcher agree with `exclude.h`, written down
  again as `Documented`.
- `Scan`: `frames` is the recursion of `scan_dir()`, with what is left of each
  batch; `pathBuf` is the one buffer all levels share, so a component of a longer
  sibling may lie behind the end. Users remove entries meanwhile; that ExAll and
  ExNext give no entry twice is assumed of the filesystem.
- `SnapshotList`: snapshots come and go, manifests decay, LIST prints them one
  after the other; KEEP_LAST and the choice of the latest are made at any moment.
- `Uaem`: the calendar of the sidecars, day by day, against the formula; a walk
  that applies sidecars to a tree. `settings` has the comment, the date and the
  protection of every entry apart, for each has a call of its own that may fail;
  `refused` remembers which calls failed, which the code does not. The walk by
  itself (`MCUaem`) is held against the header's words about failures.
- `Entropy`: `resources` is what is held of the system, `pool` and `drbg` what
  was folded in, `console` the mode a prompt must leave as it found it.
- `Process`: for each command the steps that can fail, in the order of its
  function; `held` is what would stay behind; `latches` are the static flags of
  the two libraries.

## 3. Runs

Runs that pass:

| Run | Question and bounds |
|---|---|
| `SnapRepo_safety` | Two processes, two objects, three ids. Do references ever dangle, does the lock exclude, is the sweep exact, do committed snapshots keep their contents, does the system implement `SnapshotStore`? Two processes are all the lock can tell apart; two objects allow one shared and one private reference; three ids allow one to be kept, one to be deleted, one to be written. |
| `SnapRepo_live` | Two processes, two ids, fairness: does every command end? |
| `Snapshots_recorded` | What SNAPSHOT records, as two machines of which a behaviour has one (`MCSnapshots`). The source: one file, three writes, sizes on both sides of the chunk limit, archive bits set by others, everything at any time: is old content ever recorded, if each write changes the datestamp? The repository: three processes, three keys, two objects, two passphrases; INIT first, only unframed encrypted repositories rekeyed; three processes allow two REKEYs and a SNAPSHOT at once. Does every snapshot stay readable, is anything written in the clear? |
| `ChangeDetect_paranoid` | Two files, one write, restored datestamps, swaps and bits: is old content ever recorded under PARANOID? |
| `Restore_faults` | Four snapshots (chunks shared between files, a link, an empty file, a directory and a file named like the staging directory, an unsafe path), four subtrees, four destinations (empty; a file where one is to be written; a file where the staging directory belongs; a file where a directory belongs), two runs, every hazard. |
| `DirBackend_calls` | Two processes with a key each, `d/x` and `x`: one basename, so the names of their staging files differ by the hash alone, and one key with a parent to make. Contents of one and two pieces, so that a write can be short. One process makes every call, the other puts, reads and sweeps `tmp/`. Does anybody read part of a file, does a call fail without a cause, is anything left behind, does the directory implement `KeyStore`? |
| `RemoteBackend_calls` | Both protocols; two objects in one directory, contents of one chunk and of three, parts of two chunks (an upload of one PUT, and one of two parts with a short last one), pages of one name with a limit of two (a listing of two pages, and one that is too long), two uploads under way, every fault at any moment. Do the backends implement `KeyStore`, fail only for a cause, always return? Does an answer go to its request, is a POST made once, is an upload ever lost, is a listing complete? |
| `HttpExchange_pieces` | Two exchanges (the second over the connection that was kept), a plain socket and six TLS situations, seven answers to two requests, one with a body (a length, chunks with an extension and a trailer, no body, nonsense in a length and after a chunk, a length beyond the limit, an answer cut short), one trouble anywhere, time limits everywhere, buffers of two and three bytes so that everything wraps. |
| `Parts_alone` | Ten machines side by side, one per behaviour. Bounds: manifests of up to three records, one bad cell; lines of four characters over every class of character the matcher tells apart; trees of three levels whose paths reach the limit of the path buffer; three snapshots with a list of at most two; inputs of seven bytes with blocks of three, so that a digest ends before, on and after a block; two runs of the program, so that the second meets what the first left; the calendar to 2100, which is no leap year. |

Runs that find what the code does not do:

| Run | What it shows |
|---|---|
| `RemoteBackend_head` | Against a server whose answer to HEAD has the length of the object, as HTTP wants it, S3's `exists()` fails for every object that is there: the parser is not told that no body follows (`s3.c:310`, `http.c:258`). |
| `Uaem_result` | APPLYUAEM on a tree whose one sidecar has lost its entry: the three calls fail, nobody looks, and the result is one applied, none failed and OK (`applyuaem.c:180`), against `applyuaem.h:27`, where `failed` counts a sidecar whose "target entry didn't exist / couldn't be modified". With the other two trees single calls are refused as well. |
| `RepoFormat_rekey` | REKEY drops OBJCOMP: an encrypted, compressed repository cannot be read after it (`main.c:2050`). |

Several properties are conjunctions of named parts, one per question
(`ServesWhole`, `ExchangesFaithfully` and those of `Parts_alone`); each part has
a mutant of its own.

Deadlock is checked everywhere except in `Restore`, `HttpExchange` and the parts
alone, which end when the last run, the last exchange or the input is over.

Mutants: each property of a passing run has a variant of a modelled definition
(`\* mutant` in the modules) with a bug the property detects.

### Disagreements described here only

Met while reading and modelling; each can be seen in the named action.

Repository and commands:

- `dir_exists` answers "absent" when stat() fails for any reason
  (`backend_dir.c:333`), so the id probe can settle on a taken id and the rename
  replaces a committed snapshot. With `ExistsHonest = FALSE` TLC finds
  `CommittedIsFixed` violated.
- `dir_list` takes a failing readdir() for the end of the directory
  (`backend_dir.c:351`), so the mark can miss a manifest and the sweep deletes
  its objects. With `ListHonest = FALSE` TLC finds `NoDanglingRef` violated.
- An abandoned snapshot leaves the archive bits it set (`main.c:858`); a file
  rewritten with its old datestamp before it is then skipped. With `"date"` in
  `Tricks` TLC finds `NothingStale` violated.
- A first SNAPSHOT that fails, or a PRUNE interrupted after its last delete,
  leaves objects in a repository without snapshots; `prune.c:244` refuses to
  sweep such a repository, while `prune.h:36` says the next prune collects them
  (`RefuseSweep`).
- The entry pairs metadata from the listing with content read later; when two
  files exchange names in between and back again, all fields match and the bytes
  are the other file's, against `main.c:747` (`Swap`, with `"swap"` and `"live"`).
- The fast path drops the entry's xxHash32 (`main.c:752`), which
  `CLI-Reference.md:58` says is "recorded on every snapshot, paranoid or not";
  the next PARANOID run reports the file as one that failed the re-check.
- NOARCHIVEBIT is not respected by the branch for new or changed small files
  (`main.c:857` against `CLI-Reference.md:76`; `ReadSmall`).
- Setting the archive bit writes back the protection bits of the listing and
  reverts a change made since (`main.c:645`; `Mark`).
- `list_all_snapshots` drops ids after the 1024th, while its comment says "not
  silently truncated" (`main.c:438`; `Collected`). Which ids are dropped is up to
  the order in which the backend lists them.
- Ids order as their clock does (`main.c:443`); a clock that was set back makes
  KEEP_LAST delete the newest snapshots, and lets two manifests share a nonce.
- `resolve_snapid` uses a SNAPID "verbatim" but cuts it to 16 characters
  (`main.c:465`), so a longer one finds a snapshot it does not name.
- INIT on a repository that has plain snapshots makes them unreadable; only
  `Encryption.md` asks the user to run it first (`InitStart`, `InitFirst`).
  INIT and REKEY take no lock.

Restore:

- A path that is not safe is refused when it is reached, after the entries
  before it were written (`restore.c:169`), against `restore.h:125` "with zero
  writes performed".
- RESTORE takes no lock: a PRUNE after the verification makes it end part way,
  against `restore.h:94` (`Prune`, `Sweep`, `FetchFails`).
- A snapshot with a file named `tmp` at its root cannot be restored, because the
  destination's staging directory has that name (`backend_dir.c:225`;
  `Obstructed`).
- Making a directory succeeds when a file is in its place (`backend_dir.c:99`
  against `backend.h:59`; `MkdirAll`).

Formats:

- `amisnap_manifest_decode` hands every entry to its caller before it has come
  to the digest at the end (`manifest.c:399` before `:405`), so a caller sees
  entries of a manifest that is refused afterwards (`Told`).
- A file of a size above 0 without content can be written but not read
  (`meta.c:178`; `Consistent`); the commands never write one.
- Nothing checks OBJCOMP and CHUNK_SIZE in the header of a repository: with a bad
  byte there it opens, with the right key, and says something else of its
  objects (`HeaderDecays`, `Opening`). `OpensOnlyAsItIs` asks of a damaged header
  no more than the key; objects read under the wrong OBJCOMP fail at their frame
  or their digest.
- One string longer than 65535 bytes fails the whole snapshot, not one entry
  (`TooLong`, the writer's sticky error).
- `tlv.h:64` says a failed append leaves the buffer unchanged, but
  `amisnap_buf_field` may leave a tag and a length without their value; only the
  sticky error of the writer keeps such a buffer from being used.

HTTP:

- A listing whose answer has no length is taken for an empty one: only the
  `get` functions look at `body_unframed` (`webdav.c:558`, `s3.c:560`). With
  `"LIST"` in `Unframed` TLC finds `ListingIsExact` violated.
- `socket.h:34` says inet_aton() is tried first; `socket.c:61` has its own parser.

Others:

- A `*` in a pattern that meets a `*` in a name matches it as a letter and stands
  for nothing else there (`exclude.c:161` against `exclude.h:30`);
  `ExcludesAsDocumented` asks of paths without one.
- Matching is "case-insensitive throughout" (`exclude.h:45`), but only ASCII
  letters are folded (`exclude.c:141`), not those of the Amiga's Latin-1. The
  letters of the run are ASCII, and `Documented` shares `SameLetter` with the
  matcher, so no property is about it.
- `amisnap_stir_file()` and `amisnap_entropy_stir()` from elsewhere are never
  called, against `entropy.h:22-28`: two INITs from the same frozen state draw
  alike (`Entropy` starts every run with the same pool and asks only for draws
  that differ within a run).
- `amisnap_random()` returns -1 without a timer (`random.c:221`), against
  `entropy.h:15` "always succeeds"; the prompts return 0 with what was typed so
  far at the end of the input (`random.c:270`), against `entropy.h:52`.
- The header comment of `main.c:7` still says PRUNE is not wired.

## 4. Fairness

- `SnapRepo_live`: a running process is scheduled and its calls return, hence
  weak fairness of its command steps; nothing is assumed about which result a
  call has, and the failing actions and `Crash` have no fairness.
  `SF_vars(ScanDone(p))`: the scan visits finitely many entries, so among the
  files it stores, reuses or fails on it must reach the end.
  `SF_vars(LockFree(p) \/ LockRefused(p))`: `LockGap = FALSE` keeps a process from
  its test only while another one stands between its test and its put; that
  window closes again and again, and a process is not passed over for ever.
- `RemoteBackend_calls`: weak fairness of the client's steps only: the code runs
  on, and receiving ends by a timeout at the latest (`Lose`). Nothing is assumed
  about the server.
- `HttpExchange_pieces`: `WF_vars(Client)`, which includes the time limit of the
  socket (`SO_RCVTIMEO`). The server may be silent for ever.
- `Parts_alone`: weak fairness of a reader of a manifest and of the walk over a
  source, so that `ReadersReturn` is about code that has been started; nothing
  makes anybody write, remove or type.
- `DirBackend`, `Restore`, `ChangeDetect`, `RepoFormat`: none; their properties
  are safety.

## 5. Proofs

All theorems hold for every value of the constants under the modules' named
assumptions (types and ranges), which TLC evaluates in the runs. The inductive
invariants were checked by TLC on the instances of the runs before they were
proved.

`SnapRepoProofs`. Types without further assumptions. All others assume
`LockGap = FALSE` (one operator) and, where it matters, `ExistsHonest` and
`ListHonest`; section 3 says what happens without them. The invariants are not
inductive on their own: `NoDanglingRef` is kept by the sweep only because every
committed reference is marked, which holds only because the manifests that are
not yet marked are still in `ids`, and because nobody else commits meanwhile.
`IInv` says this phase by phase (`ProcInv`) and adds that at most one process is
past the lock test (`OneHolder`). From it follow `NothingDangles`, `Exclusion`,
`SweepExact`, `SnapshotSafe`, `Immutable`, and `Implements`, which maps every
step to a step or a stutter of `SnapshotStore` through the set of restorable
snapshots.

`ChangeDetectProofs`. `ParanoidIsSafe` has no assumption on users: under
PARANOID what is recorded for a file of one chunk was read, or has the same
bytes as what was read, since the listing; the strengthening `Followed` says
that the history of a listed path contains what it holds now. `HonestIsSafe`
assumes `"date"` and `"swap"` are not among `Tricks`: then a version and its
date are the same, and `HonestInv` orders entry, listing and file by date, so
that equal dates mean equal contents. The archive bit is never used in that
proof: with honest datestamps the bit adds nothing, and with others it is what
the protection rests on.

`RestoreProofs`. The invariant has four parts. The staging file is a prefix of
the chunks of the entry at hand, all of them good when they were read, so what a
rename puts in place is whole (`FilesAreWhole`). While the verification runs,
every damaged object among those passed has been counted, and a run with a count
never reaches the content pass (`DamageChangesNothing`). Since the run began the
destination has changed only at entries of the subtree and at directories on the
way to them (`OutsideIsLeftAlone`). And what the content pass has passed is in
place, with its metadata once the metadata pass has passed it, going backwards.
The last two theorems assume that the entries come in the scanner's order,
parents before children and each path once (`InOrder`, which is what `scan.c`
does on a volume at rest): `SuccessIsComplete` needs it because a later entry
could otherwise undo an earlier one, `RerunsAreNotObstructed` because the kinds
of a path in leftovers and in the snapshot would otherwise differ.

`RepoFormatProofs`. Types without further assumptions. `SnapshotsStayReadable`,
`FormatNeverChanges` and `EncryptedStaysEncrypted` assume `DocumentedUse`: INIT
runs first and on its own, and only encrypted unframed repositories are rekeyed.
`FormatInv` says that every object, and everything a running SNAPSHOT or REKEY
is about to write, has the header's format.

`DirBackendProofs`, for any processes, keys and contents, where no key is a
prefix of another and none begins with `tmp`. Per process the invariant says:
while a put is under way, what the staging file holds followed by what is still
to be written is what was given, or the staging file was swept and the call is
faulty (`PutState`); what a reader has open is whole (`ReadState`). The argument
has two halves: a process's own step keeps its own part, and a step of another
process leaves it `Undisturbed`, because staging names differ, keys have one
owner, and the only thing a stranger does to a staging file is to remove it,
after which the handle writes into nothing and the rename fails. Hence
`ReadersGetWholes`, `NothingIsLeft` and `Implements`: through the contents of the
keys one process owns, its calls are `KeyStore`'s. The last one assumes
`StatHonest`; without it the step of `exists()` has no counterpart.

`PartsProofs` holds the proofs of seven modules; only `Scan` and `Exclude` belong
together.

`StoredIsReadBack` (`StoredForm`): everything under `objects/` and `snapshots/` is as some
command wrote it unless storage has failed, the MACs there are are those of
objects and manifests the repository's commands made, and a nonce is derived
from what it encrypts; so a read gives the content of the address or an error,
an error has a cause, and no nonce is used for two texts.

`RunsLeaveInOrder` (`Process`): an action property, so `ProcessInv` describes
the state a step starts from: what may be held in which phase (`HeldByPhase`),
that a library is open exactly when its static flag says so (`FlagsTell`), that
an open backend has the libraries of its URL (`BackendsStand`), and that no plan
takes the lock before it has opened the repository (`LockStands`), which is a
fact about each of the commands' step lists. The URLs are of the four kinds
`open_backend()` tells apart (`SchemeAssumption`).

`DrawnAndTyped` (`Entropy`): a block drawn later has a longer chain of the
generator behind it (`Chained`), so no two are the same, whatever the pool was
given. For the line the invariant gives the buffer a list of places in what was
typed, and says that behind the p-th character as many more were typed than
erased as the line has characters from p on (`Outweighs`); an erase therefore
takes the last survivor and no other, and while a key always fits the limit
never shows (`Fitted`). The calibration is integer division, for any counter
width.

`ListedRightly` (`SnapshotList`), for any ids and any limit: a finite set of
numbers has one increasing list (`SortedIncreases`, `SortedLists`), so what
KEEP_LAST leaves is counted from its end, and the last of it is the maximum.
For LIST, what was there when it began and still is is in what was shown or in
what is left of the list, both in order (`ListInv`).

`WalkGivesAll` (`Scan`), for any source that is a tree (`VolumeAssumption`), any
exclude list, batch size and limit of a path, whatever the patterns match. The
i-th of the nested calls of `scan_dir()` walks the directory made of the first
i - 1 components of the one path buffer (`At`), and those are the same whatever
entry of the innermost directory the buffer holds. What ExAll gave of a
directory and is not in the batch any more was given to the visitor, or is out,
and what is in the batch was not (`FramesInv`), so nothing is given twice; an
entry's directory was given before it, so what is kept in follows from the entry
alone. For what is missing, `CompleteInv` names the directories that failed, no
more of them than were counted: anything else that is kept in, and whose
directory was given, is still to come in the batch or in the listing of a call
under way (`ToCome`), and when none is under way there is nothing to come. That
the filesystem has no owners is found out on the first directory, and every level
below starts from that (`OwnersInv`).

`ExcludeFollows` (`Exclude`), for lines of any length over any characters and
any paths without empty components (`PathsAssumption`: they are made of names) and
without a `*`. `exclude.h` is taken by its words: `Stands` gives, for each place
of a pattern, the places of a name where the rest may begin. Of the single pass
of `glob_match_one()` it is shown that every turn goes on in the name or moves the
last star or its mark on (`LeftFalls`), so it ends, and that from a state it
succeeds where the rest of the pattern fits here, or what follows the last star
fits further on than its mark (`PassHopes`). That earlier stars need never be
tried again is `StarLeadsOn`: wherever the last star could still lead, what was
matched since leads further on than here. The pass is a function over `GlobStates`
that calls itself with less left to do, so it has a value (`GlobExists`). The rest
is how a line is cut: the blanks (`StrippedInk`), `#?` (`NormalIsTokens`) and
the components of a pattern and of a path (`CompIn`, `CompRooted`, `BodyMeans`).
Inductions are over sets of numbers, upwards (`SetInduction`) and downwards
(`DownInduction`), for the library's rules take an operator.

`SidecarsApplied` (`Uaem`), for any trees (`TreeAssumption`): the years, leap
years and months counted up to a day are what the formula gives (`CalendarInv`),
and from its line a day is read back (`LineIsRead`). For the walk, while no
failure was counted every sidecar is done with or still ahead: below an entry
that is left of a directory being walked (`CalledOrAhead`). No two sidecars have
one target (`TargetsDiffer`), so a later one cannot take back what an earlier
one gave. What OK then says of a sidecar is that its line parsed and that each
part it tells its entry has, or the call for that part failed (`refused`; all do
when the entry is not there). It is not what `applyuaem.h` says: the run
`Uaem_result` shows that failing calls do not keep APPLYUAEM from OK.

`RemoteBackendProofs`, for every set of `Faults`. `AnswersGoToRequests`: what is
on a connection belongs to the exchange that is waiting, because `HangUp` follows
every failure and a connection that is not open carries nothing (`WireInv`).
`PostsOnce`: a POST that was carried out has its answer waiting and is never sent
again; the one danger left is a request abandoned earlier in the same call that
is carried out late, so `OnceInv` also says that after an abandoned POST the call
has no POST left to make. This holds only because a step that fails ends the
call or leads to the abort of the upload, which is no POST (`FailFacts`).
`PlanInv` keeps the requests of a call a well-formed plan. `ListsExactly`
assumes finitely many names and listings that announce their length
(`"LIST" \notin Unframed`; section 3 has the code's answer to one that does not).
What was reported is, at every moment, the names of the answered pages, each
once, and the continuation token stands for them (`ListInv`); a page on its way
is part of what is below the prefix and meets none of the names before it
(`SoundInv`), because nothing is stored while a listing is under way: no request
abandoned earlier outlives the start of a call, and those a listing abandons
change nothing (`HeldInv`).

Its second half proves `RemoteImplements`: every step of either backend is a
step of `KeyStore` or changes nothing of it. It assumes nothing of the faults.
The store may change only as the call under way asked, so every request that is
out, or was left behind by this call, must serve it (`SentInv`): the steps of a
plan do what was asked in an order that works (`StepsInv`), and what the next
request carries is the call's content (`ReadyInv`). For an upload that content
is put together over several calls: what was handed over is the parts S3 has
acknowledged followed by what is still collected, or what the open connection
has taken, unless the upload has failed (`HandleInv`). A reply is truthful
because an answer on its way says what is so now (`AnswerInv`). A request
carried out late can only repeat the effect of the last call made, because none
outlives the start of the next: a limit of the model, not of the network (see
`abandoned` in section 2). The parts are joined
by `FlattenSeq`; its lemmas rest on induction over the set of lengths for which
they hold (`SetInduction`), as the library's rule takes an operator.

`NoUploadLost` counts: the uploads no handle names (`Orphans`), and the one that
a request left behind may still start (`Late`), are no more than the exchanges
that went wrong, but for one that has been started and is about to be told to the
client (`Balance`). It holds because a call leaves at most one initiation behind
and makes none after it (`LateInv`), and because an answer that says an upload is
there, or gone, is right (`CountInv`). `TypeCorrect` adds what is on the way and
on the server (`NetInv`) and the client's side (`ClientInv`). Both assume
finitely many upload ids.

`OnlyFaults` is the theorem that the rest of the system can rely on a backend: a
call whose `faulty` is false does not fail. Every request that is served as it is
has to get an answer the call can use (`ServedWell`), which takes one invariant
per way it might not. The collection a request needs is there, since each step
of a plan makes the parent of the next (`ColsInv`). A connection that turns out
to be dead was kept from before, and its request may be sent again (`ConnInv`).
Unless the upload is being aborted, an open one that has not failed is on the
server, with the parts that were acknowledged and at most the one on its way,
every one of them large enough but the last (`UploadInv`), whatever of it was
left behind on connections that were given up: such a part is one the upload has
or is sending again (`LateUpInv`), and an initiation, or an abort while no abort
is asked for, is not among them. What a failed abort
says nobody is told, since the call has failed already (`FaultInv`, `OpenInv`).
And a listing does not run out of pages: without a fault each page but the last
is full and tells names not told before (`PageInv`), so their number is bounded
by the directory's. The last needs an assumption, that no directory has more than
`MaxPages` times `PageSize` names, which is the limit the code sets itself
(`MAX_PAGES`); the other assumption is `HeadLength = FALSE`, without which
`exists()` fails for no fault of anybody's (run `RemoteBackend_head`).

`RepoFormatProofs` also holds `DigestsWhole` (`Digests`). Its invariant says what a context stands
for, with no word of how the input was cut: so many whole blocks of it went in on
top of the initial value, and the rest waits (`Holds`); in BLAKE2s the last block
waits even when it is whole, for nobody knows yet that it is the last
(`BlakeHolds`). Every update keeps that (`ShaUpdateHolds`, `BlakeUpdateHolds`,
`XxhUpdateHolds`, the last by the three ways `amisnap_xxh32_update` takes), and
what a final call makes of it is the standard's function (`ShaEnds`,
`BlakeEnds`, `XxhEnds`, `HmacEnds`). That digests differ rests on the compression
functions being terms: the values over one initial value tell the items put in
(`OverInjective`). SHA-256 puts the length of the input last, BLAKE2s its counter
into every block and the length of the key below them, so a digest tells the
number of blocks, the lengths, and then cell by cell the key and the input
(`ShaTells`, `BlakeTells`, `HmacTells`). A derived block is the set of its chain's links, and
two chains with a link in common have the same passphrase, salt and number, since
the first link is over a salt and a number, which no digest is (`NotIndexed`); no
link comes back, for its predecessor would have too (`LinksDiffer`), so the number
of iterations is told as well. `BlockAssumption` asks of the keys that no two of
them differ in zeros at the end alone: HMAC pads a short key with zeros. A
passphrase is a C string and has none; the keys of the repository and of a
signature are of one length each. Induction, here and for `Over`, is over sets of
numbers (`SetInduction`).

`HttpExchangeProofs` proves `HttpFaithful` and `StreamPromised`, for any sizes of
the buffers, any settings and servers, any requests and answers, and however the
bytes of either are cut. It has three parts.

The parser does one turn of its loop after another, each a function of its state
and what is left of the input (`Turn`), and has a value because every turn leaves
less to do. What has been fed in two pieces leaves the state that one piece
leaves (`ParseConcat`): a turn that finds its line, its body or its chunk
unfinished keeps what there is of it and does the same on what follows.

Of the connection, `TransportInv` says: what `send()` was given is with the
server, in the pair or still to be sealed, in this order (`Delivered`); what the
server has said has been handed out or is coming, in TLS, in `pend`, in the pair
or on the wire (`Received`); every byte has the end of its record behind it, and
a close_notify is the last thing that comes (`Records`); and what is on its way of
a handshake is the messages that TLS still waits for, in turn, so that a
connection that is reported up was one `Agrees` and `Accepts` allow (`Shaking`).
`Alerted` adds that `recv()` does not go past an alert, without which the end of
a connection could be taken for the end of an answer. From these every step is a
step of `ByteStream` or changes nothing of it.

Of the exchange, `HttpInv` says: the server has been asked what it has served
and at most one request more, the one at hand (`Requests`); what has been heard
is earlier answers, what the parser has been fed of the last one, and a piece it
has yet to be fed (`Reads`); and a connection made for this exchange fails it
only for a reason (`Blames`). That the server cannot take part of a request for
a request rests on their framing (`Framed`): a request ends where its length
says.

`AnswerAssumption` says what an answer means: what its bytes give the parser in
one piece. The instance writes the meanings out, so TLC compares them with the
parser's when it evaluates the assumption. It also says that servers stop where
the answer ends. `AskAssumption` keeps the words that frame a request out of the
rest of it and its length to one digit; `MarkAssumption` keeps the marks that
stand for records and handshakes apart from bytes. The rest are types and ranges.

Only model-checked: that commands, calls, exchanges and readers end, since
liveness under fairness is beyond the prover, and `DocumentsReadBack`: fields are
decoded by a recursive operator (`Tlv`), whose value for every input the prover
cannot be told.

## 6. Not modelled

PROJECT.json lists every part with its reason. In short:

- The compressors are vendored, pure functions (`lz4.c`, `miniz.c`): about half
  of the lines of the source. Their results are external to `StoredForm`.
- ChaCha20, the rounds of the hashes, signing, base64 and URL encoding are pure
  functions covered by published vectors; the cipher and the compression
  functions are injective terms here.
- The text of requests, XML and reports; BENCHMARK's timing loops; the
  conversion of names between hosts (`amipath`, `no_locale`).
- Running out of memory, except where a model says so (`ManifestCodec`).

Abstractions that bound what the checks say: hashes are injective; listing a
directory while PRUNE deletes from it follows POSIX; a file is read in one step;
files are not empty in `ChangeDetect`; a directory's entry appears and goes away
at once and nothing that was renamed is lost by a power failure (the code calls
no fsync); two processes that put the same key at a time share one staging file,
which `DirBackend` leaves to the lock (`Owner`).

## 7. What is left

- The XML and PROPFIND scrapers, as the parsers of tokens `HttpParser` is.
