# courier-pythonfilter in TLA+

courier-pythonfilter is a mail filter daemon for the Courier MTA. Courier's
`courierfilter` starts the program `pythonfilter`; for each message `courierd`
connects to its Unix socket, names the body file and the control files of the
message, and reads one SMTP-style reply. The daemon runs the message through
the filter modules that its configuration lists, each message in a thread of
its own. This directory models the parts of that program whose correctness
depends on interleavings, failures, time and crashes, checks them with TLC, and
proves with TLAPS, for every value of the constants, all but a few of their safety
properties.

All paths below are relative to the repository's root.

## The system

| component | state | operations | hard behaviour | what makes it correct |
|---|---|---|---|---|
| daemon (`pythonfilter`) | socket file under two names, listening socket, `activeFilters` and its lock, one thread per message | load, set up the socket, accept loop, `processMessage`, shutdown wait | a shared count, threads that die or do not start, a failing `accept()`, a 10 s deadline, crash and restart | every client is answered once or sees its socket closed, and only for one of three reasons; the count is exact; no stopped daemon leaves a socket behind; a shutdown ends |
| filter list (`pythonfilter`) | the list of (name, `doFilter`, bypass); per message `replyCode`, `bypass` | load a line, run or skip a filter, send the verdict | exceptions, values carried round the loop | a filter is skipped only for a reason an earlier filter gave; the deciding filter's reply is the one that is sent |
| `filters/TtlDb.py` | token -> time of last use, a lock, `LastPurged`; a dbm file or an SQL table | `lock`, `unlock` (which flushes), `purge`, in, get, set, del | a flush that raises, crashes, times cut to seconds; servers that share a table | a token lives until its TTL, and not much longer |
| `filters/greylist.py` | two TtlDbs | `doFilter` | two locks held together, the clock, a crash between two flushes | no triplet passes before its time; none is forgotten; no message is blocked |
| `courier/control.py` | the recipient records of a message and their delivery marks, over several files | read, add, delete by value | numbering, duplicates, several files | the files behave as one list; marks fit records |
| recipient filters (`noduplicates`, `nosuccessdsn`, ...) | a list of recipients read at the start | edit the control files record by record | stale lists, add then delete, partial failure | nobody loses the message, nobody gets it more often than before |
| `courier/quarantine.py`, `pythonfilter-quarantine` | a directory of files, a db of ids, a lock file | quarantine, release, purge, in several threads and processes | files and db change separately, ids reused, crashes, the order of unlock and close | a message is held until it expires; no file is there that no purge will remove |
| `filters/dialback.py` | two TtlDbs, which several hosts may share | look up, verify by SMTP, record | check-then-act without a lock, statements that raise, slow servers | no verdict without a server's word; a slow server delays nobody else |
| `comeagain`, `auto_whitelist`, `ratelimit` | one TtlDb, or a table of time slots | `doFilter` | stale records, flushes that raise, window bounds, slots trimmed while others count | who wrote to whom, and when, decides who is exempt or held up; limits and windows are kept |
| `courier/xfilter.py` and the filters that use it, `courier/sendmail.py` | the data file; the message while it is changed | load, change, rewrite in place; send a copy | a crash or an exception in the middle of a write; each filter reads what the one before wrote; a copy goes through the same filters | the queue holds whole messages, rewritten once by each filter that should; nobody is taken for a sender he is not |
| `courier/config.py` | Courier's configuration files, the cached `me` | lookups | files edited between two lookups, lines that raise | the entry that should decide does |
| `courier/authdaemon.py` | one request | connect, send, receive, each with a time limit | answers in pieces, silence, a closed connection | an answer is whole, or an exception; a request ends |
| policy filters (`whitelist_relayclients`, `whitelist_block`, `deliveredto`, `privateaddr`, `localsenders`, `quota`) | none | `doFilter` | what they ask fails or changes while they ask | every verdict has a reason, every reason a verdict |
| `dropmsg` | the files of the queue | a walk: search, move two files | Courier delivers meanwhile, renames that raise, being killed | a walk that ends has left no match behind and parted no files |
| other content filters (`clamav`, `attachments`, `spfcheck`, `whitelist_dnswl`, `whitelist_spf`, ...) | none | stateless decisions | - | not modelled |

How they interact. The daemon calls `doFilter` of each filter with the names
of the files. Filters read and change the control files through
`courier/control.py` and the body through `courier/xfilter.py`. Filters of
different messages run in different threads and share only the TtlDbs, each
behind a lock of its own, and `ratelimit`'s table. Filters of one message meet in its
files: what one writes the next reads, and some of them ask that file who sent the message. `clamav` is the filter that
quarantines; the quarantine is shared with the `pythonfilter-quarantine`
processes (`-purge` and `-release`, started from outside) through a
locked db. The daemon's thread and the filters it runs meet in one place only:
`doFilter` is called, and returns or raises. This is why the daemon, the list,
and each filter with its store can be modelled apart: the daemon's module lets
filters take any time, the list's module lets them have any outcome.

`PROJECT.json` lists the components with their status, and the hazards: the
lines at which this code can go wrong in ways its unit tests (`tests/`, which
call the functions of one module in one thread) do not reach.

## Modules

| module | models | built on |
|---|---|---|
| `Pythonfilter` | the daemon's main thread, its message threads, the clients, `courierfilter` | `FilterService` (refined) |
| `FilterService` | what the daemon promises its clients, in eleven actions | - |
| `Pythonfilter_proofs` | theorems about `Pythonfilter` | `Pythonfilter` |
| `FilterLoop` | how the configuration becomes the list, and a message goes through it | - |
| `TtlDb` | one dbm TtlDb: its file, its lock, its operations | - |
| `Greylist` | the greylist filter in many threads | two instances of `TtlDb` |
| `SqlTtlDb` | the SQL TtlDbs of a filter: tables that several hosts share | - |
| `Dialback` | the dialback filter in many threads on several hosts | `SqlTtlDb` |
| `ControlFiles` | the control files of a message and the filters that edit its recipients | - |
| `Quarantine` | the quarantine and the processes that share it | - |
| `SenderMemory` | `auto_whitelist`, `comeagain`, `ratelimit` in many threads | two instances of `TtlDb` |
| `Config` | the lookups of `courier/config.py`, as operators | - |
| `AuthDaemon` | one request of `courier/authdaemon.py` | - |
| `Policy` | the filters that decide by these two | `Config`, `AuthDaemon` |
| `XFilter` | the data file, and what is read from it and done to it | - |
| `DropMsg` | the walk of `dropmsg` through the queue | `XFilter` |
| `Spool` | messages from their submission to the queue, through the filters that go by the data file or change it | `DropMsg` |
| `Filtering_proofs`, `Greylist_proofs`, `ControlFiles_proofs`, `Quarantine_proofs`, `Dialback_proofs`, `SenderMemory_proofs`, `Spool_proofs` | theorems about the modules they are named after (`Spool_proofs` also about `DropMsg`, `Filtering_proofs` about `FilterLoop`, `Policy`, `AuthDaemon` and `Config`) | those modules |
| `MC...` | symmetry sets and constants for TLC | the module they are named after |

A definition whose name ends in `_M` is the definition after it with a
plausible mistake in it. Nothing refers to it; putting it in the place of the
right one must break the property `PROJECT.json` names under "mutants".

### Pythonfilter

`mainPc` is the main thread's position, named after what it does next;
`wpc[c]` that of the thread running `processMessage` for connection `c`.
`activeFilters = activeFilters + 1` (line 275) and `- 1` (line 240) are each a
read into `mainTmp` or `wtmp[c]` and a write, since Python gives no atomicity
for them. `lastAccepted` is the main thread's variable `activeSocket`: it keeps
a socket object alive, and with it the connection, when the thread that should
answer it has died or was never started (`Dies`, `AcceptConn`). `conn[c]` is
what the client sees, and `request[c]` what it has sent: `readline()` (lines 181 and
187) has no time limit, so a thread stays in `ReadRequest` until its client has sent
the whole request, a malformed one, or hangs up.

| code | actions |
|---|---|
| lines 70-138, load the filters | `LoadFilters`, `LoadFails` |
| 142-166, socket | `UnlinkStale`, `BindSocket`, `RenameSocket`, `Listen`, `SetupFails` |
| 263-269, select | `SelectStdin`, `SelectSocket` |
| 270-278, take a connection over | `AcceptConn`, `MainAcquire`, `MainLoad`, `MainStore`, `StartThread`, `MainRelease` |
| 279-283, the except clause | entered by `AcceptFails`, `StartThreadFails`, a failing `MainRelease`; `RecoverRelease`, `RecoverRaises` |
| 292-297, shutdown | `CloseSocket`, `UnlinkPath`, `Exit` |
| 179-242, `processMessage` | `ReadRequest`, `RunFilters`, `SendReply`, `WorkerAcquire`, `WorkerLoad`, `WorkerStore`, `WorkerRelease`, `CloseConn`; `SendRaises` when the client is gone, `ReadRaises` then or when its request is malformed |
| outside | `Connect`, `SendRequest`, `HangUp`, `StdinCloses`, `DeadlinePasses`, `Kill`, `Restart` |

`Accounted`, the set that the count stands for, has the threads that died and
those that could not be started in it: the code does not count them out.

`release()` of a lock does not ask who holds it: in `RecoverRelease` and
`WorkerRelease` the lock is freed whoever took it. `EndProcess` is what the end
of the process does to threads, sockets and the kernel's queue.

`FilterService` has four states, `down`, `up`, `draining`, `crashed`, and the
clients. A waiting client is dropped only by the step that closes the door
(those the program has not taken over), by a stop after the deadline, by a crash, or
for a malformed request (`Refuse`); it is answered only if it asked. The mapping is `service` in `Pythonfilter` (`listening` is up; the steps
between the closing of the socket and the exit are draining), `client <- conn`,
`asked <- request`, `late <- overdue`.

### FilterLoop

A configuration is a sequence of lines, each a name and the set of names it
bypasses. Loading appends a line's filter, leaves a module without `doFilter`
out (`OmitLine`), or ends the program. For a message, `RunFilter(outcome)` takes
any outcome of the filter: nothing, a reply by the class of its code, an
exception, a value that is no string. The history `ran` records what each did.
Messages are handled one at a time: the list does not change after start-up and
all else is local to a thread, so threads could not disturb each other here. Its
definitions are called `LoopInit`, `LoopNext`, `LoopSpec` and so on, so that one
module can extend both it and `Policy`, the filters that run in the loop.

### TtlDb and Greylist

`TtlDb` has the state of one dbm TtlDb (`TtlDbDbm` in `filters/TtlDb.py`):
`db` as the program sees it, `disk` as what is certainly in the file, the lock
and `LastPurged`. Setting a token stores `int(time)`, so ticks are cut to
seconds (`Stored`). `unlock` flushes and then releases the lock; when the flush
raises the lock is released all the same (`finally`) and the exception goes on.
`Reopen` is a restart: of what was not flushed, any part may have been written.

`Greylist` runs `doFilter` for each message: purge both dbs, then for each
recipient take the Passed lock, the NotPassed lock, look the triplet up, change
the dbs, release in the order of the code. Steps between two lock operations
are one step, because nobody else can see them; every lock operation is a step.
A message may list a triplet twice. `firstTry` is history.

### SqlTtlDb and Dialback

`table[d][t]` is the row of token `t` in the table of db `d`, one for all hosts;
the lock and `LastPurged` are those of one daemon (`TtlDbSQL` in
`filters/TtlDb.py`). Every statement is a transaction of its own (`_dbWrite`
commits), so one statement is one step. Where the lock is held for a single
statement, taking it, the statement and releasing it are one step: the
statement is the only point at which other hosts and the other threads of this
one can see a difference. `db[token] = time` is two statements: the INSERT, and
the UPDATE when the row was there (`Insert`; `InsertFails`, `Update`). Between
them the lock is held, but other hosts go on, and the UPDATE may find no row.
A statement that raises may or may not have taken effect: the connection may
break before the server has it or before the answer arrives (`_dbExec` tries a
lost connection once more, then raises).

| code of `filters/dialback.py` | actions |
|---|---|
| lines 75-82, sender | `Start`, `ReturnEarly` |
| 85-86, purges | `Purge`, twice |
| 90-105, the two lookups | `LookMissing`, `LookFound` |
| 118-131, DNS | `Resolve`, `ResolveFails` |
| 144-176, connect, HELO, MAIL | `Converse`, `ServerFails` |
| 178-207, RCPT | `RcptAnswered`, `ServerFails` |
| 182-184, 191-193, record the answer | `Mark`, then `Insert` or `InsertFails` and `Update` |
| any statement raising | `StatementRaises`: ends the filter, or, in lines 178-205, counts as the server's failure |
| outside | `Tick` |

`verdict` tells apart what the properties do: the sender is known to be good, is
refused for good (517), or anything else (`"unverified"`: no sender, a 4xx, an
exception). `heard`, `said` and `lastUse` are history.

### ControlFiles

A file is a sequence of records and a sequence of marks. `GetRecipientsData`,
`AddRecipientData`, `DelRecipientData`, `DelRecipient` are the functions of
`courier/control.py`. `noduplicates`, `nosuccessdsn` and the loop at the end of
`quarantine()` are run one after the other on one message, each from the list
of recipients it read at its start, one access per step; `Raise` ends a filter
at any access, as `processMessage` does when a filter raises. Two more actions
are any other use of `addRecipient` and `delRecipient`. `atStart` is history.

### Quarantine

Each quarantined message has a thread, `-purge` and `-release` a process each.
The lock file is `lock`; `view[p]` is the db as process `p` has opened it, which
matters between `Unlock` and `CloseDb`: `_closeDb` unlocks first. With
`WritesOnClose` a changed view reaches the disk only at the close. That is
`dbhash`, the first choice of Python 2's `anydbm`, whose cached pages are written
by `sync` or `close`, and this code calls only `close`; without `WritesOnClose`
each write is on disk at once. Files are created and removed outside the
lock or inside it as the code does. The id of a message is an inode number;
with `"reuse"` in `Faults` a removed file's number may be given out again.
`raced` is history: the messages that met another process on their way in. There are two
ways to meet. One process opens the db while another has unlocked it and not yet
written it (`Meets`); or a body file gets a number which the db, a process that is
changing it, or a message that is not yet recorded still has (`StillUsed`). In
either case `_closeDb`, or the purge, can undo the other's record or remove the other's files.
`HeldUntilExpiry` is the promise of the notice, which then fails; `HeldUnlessRaced`
says that these two are all there is to it.
A request that finds no record ends in `NotFound`. Whether its sender is one of the recipients
in the control files is left open (`NoRecipient`, `ReleaseRaises`).
`CopyBody` of a file that a purge has removed meanwhile creates it anew; the model
lets the new file have the number in its name, which by then names nothing but it.
The creation of the body file under a temporary name and its renaming are one
step: nothing else uses the temporary name.

### SenderMemory

Each message has a thread and goes through the three filters in the order of
`pythonfilter.conf`. All that `auto_whitelist` or `comeagain` does between
`lock()` and `unlock()` is one step, and so is a purge: the thread holds the one
lock of that store and touches nothing else, so no other thread can tell. An
`unlock()` whose flush raises ends the filter (`Sync`, `Happens`).

| code | actions |
|---|---|
| `auto_whitelist.py` 95, purge | `WhitelistPurge`, which also brings the message |
| 48-65, an authenticated sender | `WhitelistRecipients` |
| 68-82 and 100-105, anybody else | `CheckWhitelist` |
| `comeagain.py` 61-68, 70, 72-96 | `NullSender`, `SendersPurge`, `ComeAgain` |
| `ratelimit.py` 57-113 | `RateLimit` |
| outside | `Tick`, `Crash` |

`sent`, `tried`, `came` and `past` are history, written from what the messages
say and not from what the filters stored; `standing` is what they said of a
message at the moment it was looked up. Left out: two pairs whose digests are
the same, and the id under which connections without an address would be counted
(`ratelimit` raises for them when `limitNetwork` is set).

### Config, AuthDaemon and Policy

`Config` gives the lookups as operators over `files`, the content of
`sysconfdir`. A domain is the sequence of its labels and an address of a host the
sequence of its parts, so that "the entry of the smallest network" and "what
follows one of its dots" are statements about prefixes and suffixes.

`AuthDaemon` is one call of `getUserInfo`. `WriteAuth` sends some of the request and
`ReadAuth` receives some of the answer, as `send` and `recv` may; `TimesOut` and
`Lost` are the exceptions of the three functions. An answer is a sequence of what
its lines hold and of newlines, so that a piece may end between the two.

`Exempt` says of networks and items what the lookups of the two whitelists come to.
An entry may name BLOCK twice, with different values:
`getSmtpaccessVal` (`config.py` 327-334) takes the first, so a later BLOCK
exempts nobody. `Exempt` says so because `ExemptIs` could not be proved without.

`Policy` runs one message through the six filters, which keep no state: messages
cannot disturb each other. `Edit` changes the configuration between any two
files that a filter opens. `isLocal` and `isHosteddomain` open theirs one after the other,
in two steps: `look` is the one to be opened next (`AskHosted`), and
`privateaddr` opens its file again for each recipient. `filter` and `rcpt` are where
the message is; `inForce` (the configurations since the message came, in turn) and
`raised` are history. `VerdictIsRight` asks for a reason in what was opened: `locals` as in
one configuration and `hosteddomains` as in that or a later one (`Deserved`). With an
edit between the two that adds a domain to both, a local account is asked for under its
hosted name and may be refused with 517, although neither configuration alone would have it refused; the
property says so and does not forbid it.

| code | actions |
|---|---|
| `whitelist_relayclients.py` 30-48, `whitelist_block.py` 30-49, `deliveredto.py` 30-53, `privateaddr.py` 55-77 | `WhitelistRelayclients`, `WhitelistBlock`, `DeliveredTo`, `PrivateAddr` |
| `localsenders.py` 35-58 | `LocalSenders`, for one file and then the other, and, once answered, `SenderInfo` |
| `quota.py` 76-89, 41-68 | `Quota` for each recipient and file, then `CheckQuota` |
| their 451 replies and exceptions | `Unreadable`, `AuthUnreadable` (the sender's login, after the answer), `AuthLost` and the `Raise` of each |

### XFilter, DropMsg and Spool

A data file (`XFilter`) is its Received headers, the list of the rewrites it went
through, and whether its end is there. A Received header names the user it says
was authenticated, and says whether the line is one that Python's
`email.generator` breaks: `_auth_regex` wants a blank where the generator puts a
newline, and no longer matches (`Generated`, `CheckHeader`).

`Spool` takes a message from its submission to the queue. `sentfolder` hands a copy
to `sendmail` and waits (`SentFolder`, `CopyDone`); the copy is a message of its own,
filtered by the same filters, under a new Received header of this host that names
nobody. A rewriting filter loads the message and changes it (`Holds`); then the
file is emptied (`Truncate`) and written (`Flatten`, or `FlattenFails`, which leaves a
piece). `Raise` is an exception of a filter before it changes anything, `Kill`
the end of `pythonfilter`: Courier queues none of the messages it had not answered.

| code | actions |
|---|---|
| `sentfolder.py` 37-79, `sendmail.py` 23-41 | `SentFolder`, `CopyDone` |
| `whitelist_auth.py` 29-46 | `WhitelistAuth` |
| `spamassassin.py` 48-97 | `SpamAssassin` |
| `add_signature.py` 34-84, `noreceivedheaders.py` 30-40 | `AddSignature`, `NoReceivedHeaders` |
| each of them, sender not known | `PassStranger` |
| `xfilter.py` 100-112 | `Truncate`, `Flatten`, `FlattenFails` |
| `dropmsg` 47-55 | `StartWalk`, `ListDir`, `NextFile`, `EndWalk` |
| 57-72, one step for each criterion | `SearchAuth`, `SearchIP`, `SearchSender`, `SearchRcpt` |
| 40-44, one step for each rename | `DropControl`, `DropData` |
| outside | `Submit`, `Delivered`, `KillWalk` |

Bounds that are not constants: a queued message has one control file; besides the
copy of a message no other is filtered at the same time as it (each has files of
its own); Courier delivers only during a walk, and none is submitted after it.
`blamed`, `due`, `raised` and `failed` are history.

## What the runs check

State counts are what TLC explores. Every bound is a constant of the module.

| run | bounds | shows |
|---|---|---|
| `Pythonfilter_safety` | 3 connections, 1 restart; clients hang up, keep silent or send nonsense, loads and socket set-ups fail, the process is killed; 1 952 000 states | `CountExact`, `StoppedLeavesNoSocket`, `ImplementsFilterService` |
| `Pythonfilter_liveness` | 2 connections, 1 restart; clients as above, `accept()` and thread starts fail, the process is killed; 73 000 states | `WaitingIsOwned`, `ShutdownCompletes`, `EveryMessageResolved` |
| `FilterLoop_verdict` | configurations of up to 3 lines over 2 names, any number of messages; 134 000 states | `SkippedForAReason`, `VerdictSent` |
| `Greylist_time` | 1 triplet, 3 messages, 6 instants of half a second, 1 crash, failing flushes; 962 000 states | `GreylistHonoured`, `OneDbAtMost`, `TtlsHonoured` |
| `Greylist_threads` | 2 triplets, 2 messages of up to 2 recipients, 1 crash; 389 000 states | `GreylistHonoured`, `EveryMessageEnds` |
| `ControlFiles_filters` | every message of up to 3 recipients in up to 2 files, 2 addresses, any 2 filters in a row, any access failing; 767 000 states | `NobodyLost`, `FiltersKeepPromises`, `EditedAsList` |
| `Dialback_hosts` | 2 messages of 1 sender on 1 or 2 hosts, up to 2 mail servers each, 3 instants of one second, raising statements; 374 000 states | `VerdictFounded`, `TokensKept`, `OthersGoOn` |
| `SenderMemory_verdicts` | 3 messages of 5 kinds, 2 at a time, 3 instants, 1 failing flush, 1 crash; 2 300 000 states | `ExemptByCorrespondence`, `HeldUpOnce`, `RateKept` |
| `Policy_verdicts` | 1 message of 5 kinds, 3 configurations, 1 edit between any two reads, 4 kinds of account, a request in 2 pieces; 857 000 states | `AnswerIsWhole`, `VerdictIsRight`, `FilteringEnds` |
| `Spool_queue` | 3 messages of 3 kinds and their copies, 3 orders of filters, 2 sets of criteria, 2 directories, 1 fault, kills; 3 700 000 states | `AuthTrusted`, `BodyIsRight`, `WalkComplete` |
| `Quarantine_processes` | 3 messages under 2 inode numbers that are used again, a db written when it is closed, any number of purges and requests, 3 instants, 1 killed process; 2 893 000 states | `HeldUnlessRaced`, `FilesAreRecorded`, `NotRefused` |
| `Quarantine_held` | 2 messages, a db written when it is closed, numbers used once, no crash | counterexample to `HeldUntilExpiry` |

Why the bounds are enough. Daemon: the count is disturbed by two threads that
update it at once, which needs two threads, or the main thread and one; a third
connection lets one wait in the kernel's queue meanwhile. One restart is what it
takes to start over what a kill left behind; the proofs lift both bounds.
Filter list: a name must be able to occur twice and to bypass what comes before
it and after it: three lines over two names. Greylist: with a tick of half a
second, `GreylistTime` of one second and TTLs of a second and a half, a triplet
can be seen first, again too early, again after its time, and be purged; three
messages are that sequence, and any two of them overlap. Two triplets and two
recipients are what one triplet's answer needs to influence another's. Dialback: two messages of the same
sender on one host share a lock, on two hosts only the table; a second server is
what a failed recording goes on to; with a TTL and an interval of one second
the third instant is the first at which a purge removes what was written at the
first. Both tables start with or without the sender, since a clustered table
outlives each daemon. Control
files: two equal addresses and a third, over two files, so that the first match
may be in another file than the copy read; two filters, so that the second
meets what the first left. Quarantine: a message that expires while another
arrives under its number, and a third beside them with a number of its own;
the third instant is the first at which a message has expired. Take away either
part of `Meets`, or any disjunct of `StillUsed`, and TLC finds a message lost. Sender memory: a note
to oneself, a reply, a reply to two, a bounce; one message that records, one
that is looked up, and a third that is counted with them; the third instant is
the first at which a record is past its TTL and at which a minute has left the window
of two. Policy: a configuration with nested networks and a domain that `locals`
gives back, one with no files, one with a line that raises; one edit is what it takes
for two lookups of one message to disagree. Spool: a message, its copy, and
another; a claimed Received header of either user behind the true one; an order in
which the filter that asks for the sender comes after one that hides him; two
criteria that one message meets, and two directories, one listed after the other
has changed.

`CHECK_DEADLOCK FALSE` is set everywhere, because each of these systems may
stop: the daemon after its last restart, the others when all messages are dealt
with and the clock is at its bound.

Symmetry (connections, names, messages, addresses, inodes) is used where only
invariants and action properties are checked, never with liveness.
Hosts are interchangeable too: `MCDialback` fixes the host of one message instead.

### Fairness

`Pythonfilter!Fairness`: weak fairness of the main thread, of each message
thread, and of the deadline. Threads are scheduled by the operating system and
none waits for a condition that comes and goes, except for the lock. Weak
fairness gives a thread no promise of a lock that is free again and again, and
none is needed: each thread takes it once and the main thread once for each
connection, so with finitely many connections it is eventually free for good.
What an endless stream of connections does to one waiting thread is the
scheduler's business and not covered. That the filters return is not fairness of the
daemon. It is the premise `FiltersReturn` of `EveryMessageResolved`, and
`ShutdownCompletes` goes without it: the deadline ends the wait. There is no fairness on
clients, `courierfilter`, faults or restarts. `SendRequest` is a step of the client, so a
connected client may keep silent for ever; its thread then waits in `readline()`, and
the count stands above 0 until the deadline of a shutdown. Hence the premise of
`EveryMessageResolved`: whoever has sent a whole request is answered, or finds its
socket closed, however many others keep silent. A client whose malformed request ended its
thread (`IndexError`) finds its socket closed once the main thread binds
`activeSocket` anew, which is at the next connection.
`Greylist!FairSpec`: weak fairness of each message's thread. Neither messages
nor the clock are assumed to go on. `Dialback!FairSpec`: weak fairness of the
steps a thread takes by itself and of statements (`LocalStep`; the database
server is assumed to answer, or to raise). Nothing is assumed of DNS, of mail
servers or of new messages: a thread may wait in `"rcpt"` for ever. `Policy!Fairness`: weak fairness of the filters' own steps and
of the time limits of the three `select()` calls, which the kernel keeps. Nothing
is assumed of authdaemond: not that it accepts, reads, answers or closes. One that
sends a byte at a time keeps the filter for as long as its answer is long, since
the limit is for each `recv()`; the answer is finite here. The other modules check
safety only.

## What is proved

`Pythonfilter_proofs`, for every finite set of connections, every number of
restarts and every choice of faults except as stated.

| theorem | assumes | says |
|---|---|---|
| `TypeCorrect` | - | `Spec => []TypeOK` |
| `WayInvariant` | - | `Spec => []WayInv`: types, hand-over, socket files, no client of a daemon that is gone |
| `DaemonInvariant` | `accept()` does not fail | `Spec => []DaemonInv` |
| `CountIsExact` | the same | `CountExact` always holds |
| `WaitingClientsAreOwned` | - | `WaitingIsOwned` always holds |
| `NoSocketLeft` | - | `StoppedLeavesNoSocket` always holds |
| `ExitCutsNobodyOff` | `accept()` does not fail | no step violates `NoMessageCutOff`: the wait ends before its deadline only when no client waits (no run checks it by itself: `ImplementsFilterService` implies it) |
| `DaemonImplementsService` | the same, and that threads can be started | `Spec => FS!Spec`, the abstract service |

The constants' assumptions are `ConnsAssumption` (finitely many connections,
none of them `NoConn`), `RestartsAssumption` and `FaultsAssumption`.

The inductive invariant `DaemonInv` is a conjunction of named parts, each with a
lemma that says a step keeps it; `WayInv`, some of them, needs no assumption on the faults. `LockInv`: the lock is held exactly when one thread is at a
point where it holds it. Hence `ReadInv`: what a thread has read of the count is
still its value when it writes. `HandOverInv`: a connection is in the kernel's
queue, with the main thread, or with its own thread, never in two of these, so
that `StartThread` starts a thread for a connection that has none. `SocketInv`:
which file names exist and whether the socket listens, at each point of the main
thread. `QuietInv`: no client waits for a daemon that is not there. From these,
`CountExact` is inductive: each step moves at most one connection in or out of
`Accounted`, the set the count stands for, and it is the step that writes the
count, or one of those that need no write. `CountExact` alone is not inductive:
without `LockInv` and `ReadInv` two threads could write back the same old count,
and without `HandOverInv` a connection could enter `Accounted` twice.

`accept()` must not fail because the except clause then releases a lock the main
thread does not hold, and `LockInv`, and with it the count, is lost. If threads cannot be started, the client whose
thread is missing waits until the main thread binds `activeSocket` anew, and is
then dropped while the service is up, which the abstract service does not do.

For `DaemonImplementsService` each action is shown to be a step of the service
or to leave `service`, `conn` and `overdue` alone.

The other modules have one module of theorems each. In all of them the sets of
messages, addresses, hosts, files and so on, the times, intervals, limits and
the bounds on faults and crashes are arbitrary, apart from each module's named
assumptions, which only type the constants and keep the extra values such as
`NoMessage` out of the sets.

| module | theorem | says |
|---|---|---|
| `Filtering_proofs` | `LoopTypeCorrect` | `LoopSpec => []LoopTypeOK` |
| | `LoopInvariant` | `LoopSpec => []LoopInv`, the invariant of the loop |
| | `FiltersSkippedForAReason` | `SkippedForAReason` always holds |
| | `TheVerdictIsSent` | `VerdictSent` always holds |
| | `EndOfAnswer` | a part of an answer of authdaemond ends like an answer only if it is all of it |
| | `ExemptIs` | the lookups of the two whitelists exempt a client just if `Exempt` does |
| | `PolicyInvariant` | `Spec => []PolicyInv`, the invariant of the six filters |
| | `PolicyTypeCorrect` | `TypeOK` always holds |
| | `AnswersAreWhole` | `AnswerIsWhole` always holds |
| | `VerdictsAreRight` | `VerdictIsRight` always holds |
| `Greylist_proofs` | `TypeCorrect` | `Spec => []TypeOK` |
| | `DbsAreExclusive` | no two threads are between `lock()` and `unlock()` of the same db |
| | `InOneDbAtMost` | `OneDbAtMost` always holds |
| | `GreylistInvariant` | `Spec => []GreylistInv` |
| | `NobodyPassesEarly` | `GreylistHonoured` always holds |
| | `TtlsAreHonoured` | if `TtlsLast`: no step violates `TtlsHonoured` |
| | `SomebodyGoesOn` | if flushes do not raise: among the messages in the filter one does not wait for a lock that is held |
| `ControlFiles_proofs` | `TypeCorrect` | `Spec => []TypeOK`: above all that marks fit records |
| | `TheListIsEdited` | no step violates `EditedAsList` |
| | `NobodyIsLost` | `NobodyLost` always holds |
| | `FiltersKeepTheirPromises` | `FiltersKeepPromises` always holds |
| `Quarantine_proofs` | `TypeCorrect` | `Spec => []TypeOK` |
| | `QuarantineInvariant` | `Spec => []HeldInv` |
| | `NothingIsLost` | `HeldUnlessRaced` always holds |
| | `NoFileIsForgotten` | `FilesAreRecorded` always holds |
| | `NobodyIsRefused` | no step violates `NotRefused` |
| `Dialback_proofs` | `TypeCorrect` | `Spec => []TypeOK` |
| | `NoLockIsKept` | a lock is held just by the thread that sets a token |
| | `UsesAreKept` | `TokensKept` always holds |
| | `VerdictsAreFounded` | `VerdictFounded` always holds |
| `SenderMemory_proofs` | `TypeCorrect` | `Spec => []TypeOK` |
| | `TheExemptAreCorrespondents` | `ExemptByCorrespondence` always holds |
| | `OnlyTheNewAreHeldUp` | `HeldUpOnce` always holds |
| | `TheRateIsKept` | `RateKept` always holds |
| `Spool_proofs` | `TypeCorrect` | `TypeOK`, with what it needs (`OrderInv`, `DataInv`) |
| | `TheWalkIsComplete` | `WalkComplete` always holds |
| | `TheSenderIsTheUser` | if `SentFolderOnce`: `AuthTrusted` always holds |
| | `TheBodyIsRight` | `BodyIsRight` always holds |

What some of them assume, and why:

- `TtlsLast`: no TTL is shorter than a second. A TTL is a whole number of seconds, so
  it leaves out 0. The code cuts a time to seconds when it stores it, and a TTL of 0
  would purge a triplet in the second it was written.
- `SentFolderOnce`: `pythonfilter.conf` names `sentfolder` once at most. A filter that is
  named twice does its work twice, and each sender gets two copies.
- `SpoolAssumption`: the first Received header of a message is Courier's own; it names
  the user Courier authenticated, or nobody, on a line that `_auth_regex` of
  `courier/control.py` matches as long as nothing rewrites it. What clients put in the
  headers behind it is arbitrary.
- `"sync" \notin Faults` in `SomebodyGoesOn`: where the flush of one db raises, `finally`
  ends there (`greylist.py` 157-158) and the other lock is kept for good; see the
  next section.
- `PolicyAssumption`: networks, recipients and entries of smtpaccess are finite
  sequences, an item is `<<key>>` or `<<key, value>>`, what stands for `None` is none
  of the values, and an account has finitely many fields, none of them called
  FAIL or ".", as authdaemond's protocol has it.
- `-1 \notin Inodes` in `QuarantineAssumption`: -1 is `None` of the module, and no
  inode number.

The arguments. An invariant that a run checks is seldom inductive; what each
was strengthened by is where the reason lies.

- `FilterLoop`. `LoopInv`: `bypass` is the union of what the filters before `pos` that
  ran have asked for (`BypassAsked`); each filter before `pos` ran, or was exempted by
  an earlier one (`SkipsJustified`); behind `pos` none has run (`Prefix`); and `replyCode`
  is empty or positive unless the loop has just stopped (`Stopped`, `ReplyInv`).
  The last rests on `replyCode` being carried round the loop: a positive reply survives a later
  filter that says nothing.
- `Policy`. `AInv`: while a call lasts, the answer is that of the account asked about, and
  an unfinished one has not been received in full; it is inductive by
  `EndOfAnswer`, for any fields and pieces. `AskedRight`: that account is
  one which the configurations in force since the message came have for the sender, or for
  the recipient at hand, `locals` read from one and `hosteddomains` from the same or a
  later one; `LookRight` is that `hosteddomains` is opened for a domain that was not local
  when `locals` was; without it a verdict could rest on somebody else's account.
  `NotExempted` and `NothingFound` say, for every position, what the filters behind it
  have looked for and not found. They are relied on only while there has been no edit;
  after one `VerdictIsRight` asks only that a verdict is deserved by what the filter may
  have read. `ExemptIs` connects the
  lookups in smtpaccess, which go from the longest prefix down and item by item, with
  `Exempt`, which does not mention an order of lookups.
- `Greylist`. `LocksOwned` says which positions hold which lock. That no two threads hold
  the same one is what lets the module take all that `Lookup` does to the dbs as one step; given
  that, `OneDbAtMost` is inductive by itself. `GreylistInv`
  carries the ages: what is in either db or its file was put there by a look-up
  whose time is known (`AgesInv`, within the second that `int()` takes off), and
  what a message has gone past on its list is of age (`TodoInv`, `MessageInv`).
  `FreshInv` relates each token to the last purge, for the TTLs. `SomebodyGoesOn` rests
  on `LocksHeld`, the converse of `LocksOwned`: a held lock has its owner at a position
  that will release it. Passed is always taken before NotPassed, so
  the owner of NotPassed waits for nothing, and if nobody has it, nor does
  the owner of Passed.
- `ControlFiles`. `Now`, the list of the recipients that are to be delivered over all
  files, is a fold. `Flattening` proves, with the help of an induction over the set of
  numbers for which a statement holds (`NatSets`), what the fold makes of pieces
  that are each empty or one element; one mark more then takes one element out
  (`TakenOut`). So each access appends to `Now` or takes the first match out
  (`TheListIsEdited`). The invariant of the filters counts records instead of
  placing them (`Hits`): in `noduplicates`, what is delivered is what it kept of the
  records it has gone past and all it has not come to (`DupInv`); in
  `nosuccessdsn`, no address has fewer records than at the start, and one more between the
  addition and the deletion (`DsnInv`); in `quarantine()`, it is what is to come (`QuarInv`).
- `Quarantine`. Nothing is assumed of the db type or of inode numbers; what they break is
  in `raced`, and the invariant is about the other messages. Until its record is on
  disk no other process that will write the db has the number of such a message, neither in
  the db it sees nor as its id, and between its change and its close nobody else
  has the db open to write it (`AloneInv`). Its files are there before its record
  (`CopiedInv`). From then on each process that will write the db has its record in what it
  sees, unless the record has expired and the files are gone (`RecordedInv`). A purge
  holds the lock from its look at the clock until the record of what it removed is gone
  (`PurgeInv`), and nobody opens the db while another has it locked (`LockInv`). A
  message becomes `raced` at the step of the meeting, not when something is
  lost, so the invariant need not say who of the two will lose.
- `Dialback`. `UsesInv`: the row of a recorded sender is at least as new as the use that
  counts, on whatever host, and a purge on any host removes rows older than the TTL only.
  `FoundedInv`: what a thread is about to record (`AboutTo`) was said by a server to
  this message's own RCPT, or stands in the table already.
- `SenderMemory`. `Store` is stated over values, so that its lemmas (`StorePurge`, ...)
  are proved once and used for both dbs: a token is no later than its pair's last write, and a
  write that was flushed is kept, in the file too, until its TTL has gone by.
  `Purgeable` is what the purge at the start of `doFilter` leaves for the look-up
  of the same message, other threads' purges between them included. `RateInv` relates
  the table of slots to the histories: all who were let past in the minutes that are counted
  have their place in the table. The sums over minutes are proved about by induction over finite sets
  (`TotalBound`, `TotalType`).
- `Spool`. `DataInv`: a data file names nobody but the message's own user, whoever rewrote it,
  and is whole unless it is being written. `CopiesInv`: there is a copy of a message only
  if the message has come to `sentfolder`. `WalkInv`: a match in the queue is ahead of
  the walk, or listed, or under examination with one of the criteria left that it
  meets (`Pending`). `TextInv` compares the text with the prefix `OwedBy` of the rewrites
  owed by the filters up to the one at hand: one that leaves the message alone owes it nothing
  (`SkipText`), one that rewrites it adds what it owes and may hide the sender
  from those behind it (`RewriteText`), and after `whitelist_auth` nothing more is owed
  (`EndText`).

### What is only model-checked

- Liveness (`ShutdownCompletes`, `EveryMessageResolved`, `EveryMessageEnds`, `OthersGoOn`,
  `FilteringEnds`): fairness and `ENABLED` are beyond the prover. Of `OthersGoOn`, that
  a slow server delays no other thread, `NoLockIsKept` proves the safety half, and of
  `EveryMessageEnds`, `SomebodyGoesOn` does.
- What `IsMinVersion` computes, and that an alias is found under any local name of its
  domain: assumptions of `MCPolicy`, evaluated over bounded inputs. The folds in `GetModuleConfig` and
  `OverQuota` are not expanded in the proofs, which hold whatever these give.
- That each property can fail: the definitions ending in `_M`, and `Quarantine_held`.
- What a recursive definition or a fold computes for every input, in general: the
  library's induction theorems have an operator as parameter, which no installed
  backend instantiates. `NatSets` does without one, by taking the set of the numbers
  for which a statement holds, and `Flattening` is what could be had from it.

## Where code and documents differ

With a run that shows it:

- `courier/quarantine.py:59`: the db is unlocked before it is closed
  (`Quarantine_held`).

Met while modelling, without a run of their own:

- `pythonfilter:283`: when `accept()` fails the lock is not held, and the `release()`
  of the except clause ends the daemon, although line 280 says the clause is there
  to "Take care of any potential problems" (`RecoverRaises`).
- `pythonfilter:240`: a thread that dies before this line, as when its client went
  away, leaves the count one too high for good, so each later shutdown lasts the
  full ten seconds, although lines 287-288 say the program will "exit when filters
  are complete" (`Dies`, `Exit`).
- `filters/greylist.py:157`: a flush that raises in the `finally` clause leaves the
  second lock held, which `README.hacking:89-90` asks the clause to prevent
  (`SyncNotPassedRaises`, `SyncPassedRaises`).
- `filters/noreceivedheaders.py:38` removes every Received header, not "the first"
  (`pythonfilter.conf:109`): no filter after it, and no `dropmsg -a`, knows who sent the
  message. The same comes of a rewrite that breaks a long line (`Generated`).
- `courier/xfilter.py:54` promises "no changes" if a new message is not submitted, but
  a write that raises after the file was emptied leaves a piece of it, and
  `processMessage` accepts the message all the same (`FlattenFails`).
- `dropmsg:57-72` moves a message once for each criterion it meets: the second move
  raises and ends the walk, although lines 31-33 promise that messages "matching any
  given criteria" are moved. So does a message delivered meanwhile, and a bounce without
  recipients. Killed between two renames it leaves a data file without its control file
  (`DropControl`, `SearchRcpt`, `KillWalk`).
- `courier/config.py:225`: a line of white space in the file `locals` is not empty
  before `strip()` and is after it; `isLocal` raises `IndexError` (`Says`).
- `courier/config.py:119` compares version numbers as strings: "0.9" is newer than
  "0.10" (`IsMinVersion`; `MCPolicy` states both sides). No filter calls it.
- A timeout of authdaemond while `quota` checks one recipient ends the filter: the
  recipients after it are not checked (`AuthLost`).
- `auto_whitelist` exempts a message that has no recipients left, since none is missing
  from its db; the messages of the run have recipients.
- `filters/nosuccessdsn.py:44` replaces all DSN requests of a recipient when one
  of them is for success; `README:134-135` says it will "only remove the
  instruction to notify the sender on delivery" (`AddWithoutDsn`).
- `filters/TtlDb.py:178`: a token past its TTL that is renewed on one host can be
  lost when another host purges between the INSERT, which fails, and the UPDATE,
  which then finds no row and says nothing. `TokensKept` leaves this case out.
- `filters/dialback.py:353` waits `smtpTimeout` for each byte, so no reply, and
  no dialogue, has a limit in time; the comment at lines 145-146 says "If the
  dialback thread takes too long, we'll close its socket".
- `filters/dialback.py:205` catches what goes wrong while a 2xx is recorded: the
  next server is asked and may have the sender refused, although lines 133-135
  say that the mail is accepted on a success code.
- `pythonfilter:130` leaves a module without `doFilter` out and goes on, although
  the comment at lines 140-141 says the socket is set up "if filters loaded
  completely" (`OmitLine`).
- `courier/quarantine.py:204` calls `read()` on a path: a request that is
  granted ends in an exception (`ReleaseRaises`).
- `courier/quarantine.py:85` reads a misspelt key, `alsoNotifiy`: with
  `alsoNotify` set, every notice raises, and quarantining a message ends after
  the first recipient is removed (an instance of `Raise` in `ControlFiles`).
- With inode numbers that are used again, a purge that has removed a body file goes on to
  remove the control files and the record of whatever message has since got the
  number (`StillUsed`), and `HeldUntilExpiry` fails as it does in `Quarantine_held`.
- `pythonfilter:181` and `187` wait for a client without a time limit: one that connects
  and keeps silent keeps a thread, and makes the next shutdown last ten seconds. An empty
  line in the wrong place raises at 183 or 191 and ends the thread before it is counted
  out (`ReadRaises`).
- `filters/localsenders.py:45` and `47` open two files: if an edit in between adds a domain
  to both, a sender who has a local account is asked for under the full address and
  refused with 517, although the old files make him a stranger and the new ones a
  local user (`Deserved`).

## What is not modelled

- SQL: reads that do not see what others have committed. The code never ends
  the transaction of a SELECT, so a server that gives a transaction one
  snapshot (MySQL's default, REPEATABLE READ) may answer from an old one until
  the daemon's next write; `Contains` reads what is committed, as PostgreSQL's
  default does. The deletion of a single token, which only greylist uses, and
  daemons killed in the middle of a set are not modelled either.
- `clamav`, `attachments`, `spfcheck`, `whitelist_dnswl`, `whitelist_spf`, `log_aliases`
  and `debug`: stateless decisions taken from the text of a message or from the
  answer of an outside service in one call, or log lines. `FilterLoop` takes their
  outcomes as arbitrary; what becomes of a message that `clamav` quarantines is in
  `Quarantine` and `ControlFiles`.
- `esmtphelo`, `defaultdomain`, `dsnfrom` and `_setup` of `courier/config.py`: names given
  to outgoing mail, and paths.
- authdaemond answering with a value that ends in "FAIL" at the end of a piece, which
  would be taken for the end of the answer, or with an answer of no fields, which would
  be waited for until the time limit.
- `_timeoutSock = 0` of `courier/authdaemon.py`, which makes it connect without a time limit.
- An exception in the middle of a write of `courier/control.py`, which can leave a cut N or
  S line: a `Raise` of `ControlFiles` falls between two writes.
- What else `spamc` may print in place of the message: `Scanned` assumes that it keeps the
  Received headers, so no `report_safe` wrapper, and no complaint on stderr, which
  `spamassassin.py` would take for a part of the message.
- A message of which Courier has delivered to some recipients, which changes what
  `dropmsg -r` compares with: `Delivered` takes the whole message, in one step.
- What was let past before a crash: `RateKept` counts from the last start of the
  daemon, as `ratelimit`, which keeps its table in memory, does.
- Message text, headers, log lines and the wording of replies.
- Packaging and sample files.

## Plan

Done: the daemon with its abstract service and proofs, the filter list, the dbm
TtlDb with the greylist and the filters that remember senders, the SQL TtlDbs with
dialback, control files with the filters that edit them, the quarantine, the
configuration and authdaemond with the filters that ask them, the data file with the
filters that rewrite it, and `dropmsg`.

Proved: type correctness, every invariant and every action property that a passing run
checks, and the refinement of the abstract service by the daemon. What is left to TLC is
listed under "What is only model-checked".

What could follow: an abstract specification of a TtlDb shared by threads, which both
`TtlDb` and `SqlTtlDb` would implement, and the isolation levels of the SQL servers.
