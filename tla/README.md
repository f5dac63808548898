# Verification of nginx-http-shield-module

TLA+ modules, TLC runs and TLAPS proofs about the module in `src/` (C, an nginx
HTTP module) and its reporter (Python). Paths below are relative to the
repository; `ban.c`, `ban.h`, `module.c` and `scan.c` stand for
`src/ngx_http_shield_ban.c`, `src/ngx_http_shield_ban.h`,
`src/ngx_http_shield_module.c` and `src/ngx_http_shield_scan.c`.

## 1. The system

Every request of a location with `shield block` or `shield detect` is inspected
by a scanner (path, arguments, headers, then the body). A hit is answered with
an error status (block) or only logged (detect). With `shield_ban`, each hit is
also recorded in a shared-memory zone keyed by client address: after `count`
hits in `window` seconds the client is banned for `bantime` seconds and refused
before any inspection. A status endpoint reports the zone, and a log of hits
feeds a separate daemon that reports the clients to AbuseIPDB.

| Component | State | Operations | Talks to |
|---|---|---|---|
| Ban engine (`ban.c`, `ban.h`) | zone in shared memory: rbtree, LRU queue, slab nodes, eviction cursor, counters, one mutex | lookup, record, expire, count | called by the request path and the status endpoint, of any worker |
| Ban integration (`module.c`) | none of its own; reads the worker's cached clock, then locks | `ban_is_banned`, `ban_record`, `ban_count`, `init_zone` | ban engine |
| Inspection and verdict (`module.c`) | request context with the verdict of the body | handler, body callback, act, fail | scanner, ban integration, hit log |
| Scanner (`scan.c`, `patterns.h`) | two automatons, built once | normalise, build, scan | inspection |
| Ban key (`module.c`, `ban.c`) | none | address of the peer, or of an X-Forwarded-For element | ban integration |
| Configuration (`module.c`) | location configuration | directives, merge, validation | everything above |
| Status endpoint (`module.c`) | none | two locked passes over the zone | ban engine |
| Hit log (`module.c`) | time of the last full disk and of the last alert, per location | `write_log` | reporter, through the file |
| Reporter (`reporter/`) | offset file, suppression file, cooldown | follow, process_line, report | hit log, the remote API |

Not part of the running program, read for what they state of it: tests
(`ci/t`, `reporter/test_*.py`), fuzzers, linters, workflows, the probe hooks of
the test build, the service unit.

### Behaviours that are hard to test

- Requests of several workers use one zone. Each reads its clock *before* it
  takes the mutex, so sections run in an order that is not that of their times.
- Check, record and count are three locked sections: other requests come between.
- The eviction cursor points into a list that lookups reorder and walks free from.
- A walk that holds the mutex must end, and must find what can be freed.
- The wall clock may be stepped backward; a deadline may exceed `time_t`.
- A reload changes the policy under which a node was filled in.
- The status document is assembled from two locked passes.
- Inspection takes a dozen steps, each of which may fail; none may pass for clean.
- Signatures overlap and nest, under masks that differ from place to place.
- A client writes its own X-Forwarded-For lines before a proxy adds to them.
- A setting is kept or inherited by sentinels, over three levels and over reloads.
- A hit is counted as blocked before the phases see its verdict.
- The log shares a file, a back-off and an alert limit between requests, and
  compares times of a wall clock with both.
- A reload hands the bans on while workers of the old cycle still record some.
- The reporter may crash between any two writes, and its file may be rotated.

Each is listed with its line and its properties in `PROJECT.json` under
`hazards`; the two without a property say why.

### What makes each component correct

- *Ban engine*: tree, queue and slab agree; the cursor never dangles; one node per
  address; a client is banned exactly at its threshold and until its end; a live
  node is never reclaimed; what is reclaimable is found in a few walks; a full zone
  drops a hit only after a walk that met live nodes alone; the mutex is released.
- *Inspection and verdict*: an attack is not served where it is blocked; a hit is
  counted once; a buffer that could not be read is not treated as clean.
- *Scanner*: finds exactly the signatures of the enabled categories that occur.
- *Ban key*: a client cannot choose its key past the trusted hops.
- *Configuration*: a merged location inherits each setting or all of a group; old
  and new workers share the bans of a zone that a reload leaves alone.
- *Status endpoint*: totals differ by no more than the requests in flight; the
  list fits its buffer and holds only bans still running.
- *Hit log*: a record whose write is skipped, fails or is short is announced,
  unless an alert was recently or, after the clock was set back, lies ahead (records
  dropped for want of memory are not announced); alerts keep their distance; a
  back-off ends with its second.
- *Reporter*: no line is passed unsettled; no report twice within the window; the
  daily cap holds across restarts; a failing record does not stop the others.

## 2. Modules

| Module | Models | Lines of code |
|---|---|---|
| `BanNode` | one node and what a hit does to it: `time_add_clamp`, the two liveness clocks, retirement, window roll, arming | `ban.c` 60-70, 313-345, 416-485 |
| `LruQueue` | `ngx_queue_t` as a sequence, head first (external) | `ban.c` 144-146 for the touch |
| `ShieldBan` | the zone and the requests on it, one action per locked section or loop turn | `ban.c` 112-488, `module.c` 301-451, 1767-1929 |
| `BanPolicy` | what the zone promises, per address | |
| `ShieldBanRefines` | `ShieldBan` implements `BanPolicy` | |
| `ShieldReclaim` | `ShieldBan` with history variables: which nodes a walk examined, and how many walks missed one | `ban.c` 195-374 |
| `ShieldBanClaims` | a statement of the README that the zone does not keep | |
| `BanTree` | the order of the tree with equal hashes; insertion and lookup over every shape | `ban.c` 73-153 |
| `ShieldStatus` | the two locked passes of the status document over `ShieldBan` | `module.c` 2396-2564 |
| `ShieldRequest` | a request through the phase handler and nginx around it, over `BanPolicy` | `module.c` 301-451, 615-637, 877-1207, 1275-1372 |
| `ShieldInspect` | what is inspected of one request, under which mask, and how its body is collected | `module.c` 641-1372, `patterns.h` 46-139, 1102-1480 |
| `ShieldScan` | the two automatons, built and run | `scan.c` 65-460 |
| `ShieldKey` | which client a request is counted for, over `BanTree` | `ban.c` 23-57, `module.c` 1620-1755 |
| `ShieldConf` | directives, merging, zones and reloads, and who records in them | `module.c` 182-265, 1379-1605, 1868-1996, 2131-2393, 2625-2669 |
| `ShieldLog` | the writer of the hit log | `module.c` 465-612 |
| `Reporter` | the daemon, the log it follows and the files it keeps | `reporter/abuseipdb-reporter.py` 230-597 |
| `ReporterClaims` | a statement of the reporter's docstring that it does not keep | |
| `ShieldBanProof` | what a hit does to a node, the queue, the zone's invariant, the eviction walk, hits over time, the refinement, the status document, how the walk gets round | |
| `ShieldRequestProof` | what a request carries, what it is counted as and how it ends | |
| `ShieldScanProof` | how the automatons are built and run, against the search for each word | |
| `ShieldInspectProof` | what is passed is clean, what is hit is there, what is collected is the start of the body | |
| `ShieldConfProof`, `ShieldKeyProof`, `ShieldLogProof`, `ReporterProof` | the properties of those modules | |
| `MC…` | an instance for TLC of the module of that name | |

They fit together at two interfaces. `BanPolicy`, one entry per address, is what
`ShieldBan` implements (proved) and what `ShieldRequest` is written over: its
actions on the zone are those of `BanPolicy`; the tree
`ShieldBan` sees as a set is `BanTree`, which finds each address at its own node.
`scan_input`, the result for one buffer and mask, is computed by `ShieldScan` as
the code does and checked against a word-by-word search; `ShieldInspect` takes it
by that meaning, and its outcome - clean, hit, not scanned - is what
`ShieldRequest` chooses from. `ShieldLog` writes what `Reporter` reads: lines, and
now and then one that is none.

### State of `ShieldBan`

| Variable | Code |
|---|---|
| `node` | the contents of every slab slot, in use or free: the slab does not zero, so a free slot keeps what it held |
| `free` | what `ngx_slab_alloc_locked` can still hand out, for nodes of one size |
| `tree` | the nodes linked in `sh->rbtree`, as a set: lookups are by address, and the order of the tree is `BanTree`'s |
| `queue`, `cursor` | `sh->queue`, head first, and `sh->cursor` |
| `bans`, `blocked`, `cat_hits` | the counters, which wrap at `CounterMod` |
| `lock`, `clock` | the holder of `shpool->mutex`; the wall clock in seconds |
| `pc`, `req` | what a request does next; its key, its location's policy and the last time it read |
| `walk` | the locals of `ban_expire`; one copy suffices, since the mutex protects them |

### Actions of `ShieldBan`

`Start` reads the clock, `Refuse` and `Admit` are the locked section of
`ban_is_banned`. `InspectClean` and `InspectHit` end an inspection, whose result
is a choice; `InspectHit` reads the clock again, *before* the mutex, and the
worker's cached second may be older than the clock. `RecordKnown` is the locked
section of `record_locked` for an address that has a node. For one that has none
the section is `RecordUnknown`, then the turns of the loop (`ExpireWrap`,
`ExpireSkip`, `ExpireEvict`), `ExpireDone`, and `Insert` or `ZoneFull`; the
mutex is held from the first to the last, and no other request enters a section
meanwhile, though it may read its clock, or start or end an inspection.
`CountHit` is the section of `ban_count`. `Tick` and `StepBack` move the clock;
`ForwardSpec` is `Spec` without the latter.

The key is any address (which key a request gets is the ban key's concern), the
policy any of `Policies`: with more than one, locations share the zone or a
reload has changed the policy. `blocked` moves only under a policy of a location
in block mode (`block`).

### `ShieldRequest`

`entry` and `clock` are those of `BanPolicy`: the request path sees the zone as one
entry per address, which the refinement of section 4 justifies. `st` is what a
request carries: its location, whether target or headers hold an attack, what its
body holds, the context of the module (`ctx`, the verdict of the body), the time it
read, its redirects, its status; `hits`, `denials`, `blocking` and `bodied` (a
location it went through blocks, or asks for its body) are history. `pc` names the
handler's next step.

The handler is `Off`, `Resume` (the context holds a verdict), `Check`, `Refuse`
or `Admit`; then `PreHit`, `PreFails` or `PreClean`, `ContextFails` or
`ReadBody`, and, when the body is there, the callback `BodyHit`, `BodyFails` or
`BodyClean`, which keeps its verdict and resumes the phases. A hit goes through
`Record` (or `RecordDropped`, when the zone is full), `CountHit` and
`ActOnHit`, with other requests between. The rest is nginx: `Redirect` and
`ErrorPage` run the phases again with an empty context at any location, for the
same target, headers and body; `ReadAborted`, `ReadRefused`, `ContentFails`,
`Serve` and `Reply` end a request. Which redirects happen is configuration, so
they are choices, at most `MaxChanges` of them (nginx allows ten).

What an inspection finds is a property of the request, the same at each location
that inspects. The checks that read the redirected path instead of the original
target are therefore not told apart; `ShieldInspect` has them. A context that cannot
be allocated closes the connection in every mode (`ContextFails`); a body that nginx
refuses to read is `ReadRefused`.

### `ShieldStatus`

`doc` is the document a scrape works on: `Scrape` reads the clock, `TakeTotals`
and `TakeList` are the two sections, `Allocate` the buffer between them, `Send`
the answer, all of them between steps of the requests of `ShieldBan`. The buffer
is counted in entries: room for every node counted, and `SLACK` for what the fixed
part reserves too much. `before`, `after` and `latest` are history.

### `ShieldScan` and `ShieldInspect`

A state of an automaton is named by the bytes that lead to it, the root by `<<>>`,
which also stands for an absent transition while the trie is built, as 0 does in
the code. `BuildTrie` fills the trie of one flavour, `Flatten` takes one state from
the breadth-first queue, `Built` goes on to the other automaton, and `Scan` runs
both over an input.

In `ShieldInspect` data is a sequence of pieces: a category's name stands for one
of its signatures, a term of a rule for itself, `?`, `/`, `.`, `;` and blanks for
themselves, anything else for innocent text. `stage` names the next check, in the
order of the code; a check, a scan or a read that fails ends the inspection. The
tables are those of `patterns.h`: categories, the copy each is matched in, their
exemptions, and rules. The reference `Attack` is stated per position and
never mentions passes, masks, buffers or order.

### `ShieldKey` and `BanTree`

`Arrive` is a request from a client that makes up its own lines, to nginx or
through a proxy, which joins, extends, adds to or drops them; `Key` is
`ngx_http_shield_ban_addr`, `Record` and `Evict` what the zone does under that key.
A rotation of a red-black tree keeps the order of the nodes, so the tree is that
order with any shape over it: every insertion and deletion picks new ranks, which
covers what rebalancing makes and more. `Hash` is a constant: the CRC32 of an
address is only compared.

### `ShieldConf`

A configuration is three nested levels of directives. They are read one by one
(`Mode` … `BanStatus`, `NextLevel`), then `Merge` combines each level with the one
around it, `InitZones` sets up the zones and the cycle serves until `Reload`. A
directive that is refused leaves the cycle before it in place. Sentinels are
as in the code: `UNSET` is not `NULL`, and the key source has none.

Shared memory is two maps: `pools`, what the pool of each segment points to as its
data, and `held`, the bans recorded there. nginx gives a zone of the same size its old
segment (`Segment`); `init_zone` fills the context of the new cycle from the old
one or lays one out, and `Opened` is its path for a segment that exists already.
`workers` are the cycles that have some: they keep the context they started with, and
`Record` is a ban by a worker of any cycle, the serving or an older one, with either
context it may have. Which client is banned does not matter here, so a ban is its
cycle and zone.

### `ShieldLog`

What a worker knows of a location's failures is two times, `disk_full` and
`alerted`; `fate` is history: what became of each hit, when, and whether an alert
was logged with it. `time` is the worker's cached second, which may differ from
`clock` until its event loop updates it; `Tick` and `StepBack` move the clock. What the
file then holds is not modelled: the line end after a short write is missing, so the next
record is spoiled with it.

### `Reporter`

The file has an inode, and at most one file has the path. `Write`, `WriteRest`,
`Rename`, `Create`, `Reopen` and `Truncate` are nginx and logrotate; a line takes
two units of its file, so a read may see its first half. `follow` is `Open`, then
for each read one of `Skip`, `SkipTorn`, `Take` and `AtEof`; a line taken is
posted (`Accept`, `Drop`, `Retry`), recorded and saved (`Record`) and passed
(`Advance`); at the end of the file the path is looked at (`StatSame`,
`StatTruncated`, `StatRotated`). Others may act between any two of these. `Stop`
is a signal, `Crash` anything else that ends the process, at any point; `Start`
reads the two state files, which are replaced atomically (`os.replace`), so a
crash leaves the old or the new one. `verdict`, `renamed`, `truncated` and
`recorded` are history, `used` counts faults against their bounds.

## 3. Runs

| Run | Instance | Checks |
|---|---|---|
| `zone` | 2 slots, 3 addresses, 2 requests, count 2, window 2, bantime 2, clock up to 3, `TimeMax` 4, scan 2, evict 1 | `TypeOK`, `ZoneConsistent`, `StillAbsent`, `BelowThreshold`, `LiveBanKept`, `ArmedBanIsLive`, `ImplementsPolicy` |
| `walk` | fairness, 1 request, 3 slots, 4 addresses, scan 2, evict 2 | `CursorSafe`, `ExaminedWhileStill`, `DropOnlyAfterLiveWalk`, `MutexReleased` |
| `request` | fairness, 1 request slot, reused; off, detect and two kinds of block; 2 redirects | `TypeOK`, `AttackNotServed`, `EndedForCause`, `BlockedIsDenied`, `OneHitPerPass`, `Answered` |
| `status` | 2 slots, 2 addresses, a policy that blocks and one that detects, of different windows, up to 3 requests, clock stepped back at will | `TotalsLagByFlight`, `BansCoverList`, `CutOnlyIfOutgrown`, `ListedBansRun`, `HitInItsWindow` |
| `log` | 2 workers, 3 hits, a location of each kind, alert limit 1 s, clock from 2 to 4 s, set back at will | `LossAnnounced`, `SkipHasCause`, `AlertsApart` |
| `scan` | some 900 tables; texts of up to 4 or 5 bytes, every skip mask | `WithinAllocation`, `AutomatonExact`, `VerdictIsReference` |
| `inspect` | some 8,000 requests, three skip masks, three caps | `CleanIsClean`, `HitIsThere`, `CollectedIsStart` |
| `client` | 5 addresses, 4 of one hash, up to 4 nodes; 5 clients, 1 proxy, some 30 headers made up | `LookupExact`, `KeyIsSeenClient` |
| `conf` | some 6,900 files over three levels, up to three reloads | `EffectiveIsNearest`, `PolicyIsWhole`, `ReloadKeepsBans` |
| `reporter` | 2 addresses, 2 files, 2 lines; a torn line, a truncation, a failed post, a failed save and a restart at most; 3 s | `PassedIsSettled`, `SuppressionKept`, `LeavesDrained`, `RepostHasCause` |

What each shows is in `PROJECT.json`, and every property is stated in words above
its definition.

Why the bounds are enough. *`zone`*: one address more than slots makes eviction,
reuse of a slot and a full zone happen; two requests give every pair of sections an
interleaving: the mutex admits one at a time, and the properties relate at most two
requests. Three seconds let a window or ban of two seconds open, lapse and open
again; deadlines pass `TimeMax`. `CounterMod` 2 makes an arming visible as a change
of `bans`. The scan budget equals the slots, so that a walk can finish. *`walk`*:
three slots make a middle node, so that removal, touch and the neighbour are tested
at both ends and between, and a budget below the number of slots stops a walk early,
as it does in every zone nginx accepts (eight pages at least, and a budget of 32):
hits are dropped here with a stale node out of reach. The invariants of both are
proved for any number. `ExaminedWhileStill` allows one walk that misses a node here.
It promises nothing if a walk may free one node only: the insert that follows can
put another in the cursor's way, so the cursor gains nothing on the nodes behind it.
The code's budgets are 32 and 4 (`ban.h` 170-171), so it gains three nodes a walk.
*`request`*: requests meet only in the entry of their client, and the slot is
reused, so a request finds what earlier ones left; requests in flight together meet
in the proof, and in `zone`. Two redirects reach three locations in a row, so a
verdict can be carried from any kind to any other; three seconds let the ban of one
second begin and end.

*`status`*: with `SLACK` 0 the buffer is as tight as it may get; two slots
grow, shrink and turn into bans between the sections. Three requests are enough
for two in flight and one that arms beside them. *`log`*: three hits by two
workers put a hit before, at and after a failure of one's own and of another's; with a
limit of one second and three seconds to choose from, alerts become due again, and a
step back leaves the last one ahead.
*`scan`*: the words nest, overlap and share ends in every way two or
three bytes allow; each table has two categories numbered against their order and
rules with terms that are signatures, parts of signatures or neither; the
automaton's work is per byte, and five bytes are longer than any word and
its continuation. Tables over the limits are among them. *`inspect`*: each
category and each rule in each place, alone and beside another; media types,
dot segments and buffers of every arrangement up to the pieces they are
made of. *`client`*: four nodes give the tree a root, both sides and depth,
and equal hashes that differ in length, in the first and in the last byte.
*`conf`*: three levels are all there are; up to two directives of a kind in
each say, repeat or leave out a setting; four files in a row let a zone stay, go, grow
and come back, with a refused file between. *`reporter`*: two files are one rotation,
before, between and after any step of the daemon; two lines are the one in
hand and the one after it; window, day and checkpoint have different lengths, all
of which end within the three seconds.

`CHECK_DEADLOCK` is left on: `log`, `inspect`, `scan` and `conf` have a step that
stays where the bounds, the verdict or the refusal end a behaviour; elsewhere no
reachable state stops.

*Fairness.* `walk` assumes weak fairness of the steps a request takes while
it holds the mutex, and of nothing else. The section has no wait in it (no I/O,
no allocation outside the slab, `ban.c` 388-488), so a worker that is scheduled
finishes it. No request is assumed to arrive, to be inspected or to get the
mutex, and the clock is not assumed to move. `request` assumes weak
fairness of the next step of a request in progress: the section of the zone ends
(`MutexReleased`), handlers do not wait, and nginx bounds the wait for a body
(`client_body_timeout`), after which the read is aborted. All other
properties are safety: nothing in the status endpoint, the log or the reporter is
assumed to be scheduled.

### Statements the code does not keep

| Run | Statement | What happens |
|---|---|---|
| `window` | an entry with a live window is never evicted (README 201-202) | for a walk with an older second the new window lies in the future, which counts as stale (`ban.c` 342) |
| `replay` | a restart never re-reports lines it already processed (reporter 15-16) | the offset is saved at most every two seconds; after a crash the lines since are read again, and posted again if their window has passed |

Three more statements do not hold as written. No run is made to fail on them: the
property named says what does hold, and how far.

| Statement | What the code does | Property |
|---|---|---|
| a hit is dropped when nothing is reclaimable (`ban.c` 412, `ban.h` 219, README 203-204) | when the 32 nodes before the cursor are live; further ones may be stale, and every zone nginx accepts holds more | `DropOnlyAfterLiveWalk` |
| detect mode must not change the response (`module.c` 615-620, README 160 and 499) | it does not for a hit or a failed inspection; if the context for the body cannot be allocated the connection is closed (`module.c` 360-363), and a body that nginx refuses or fails to read ends the request | `EndedForCause` |
| a full disk or broken sink surfaces an alert instead of records vanishing unnoticed (`module.c` 548-550) | after the clock was set back, none does until it passes the last alert (`module.c` 572, 579); records dropped for want of memory (505-508) never do, nor does the record that a short write spoils besides its own | `LossAnnounced` |

In `window` and `replay` the clock only moves forward. `window` needs two requests
within one second boundary and costs a hit count; `LiveBanKept` and `HitInItsWindow`
say what holds all the same. `replay` needs a crash and a window or a day that ends
between checkpoint and restart; `SuppressionKept` says what holds all the same.

## 4. Proofs

`tlapm` proves, for every value of the constants (any slots, addresses, requests,
policies and budgets, any signatures, rules and inputs, any requests, skip sets and
caps, any configuration files, workers, log lines and bounds):

| Theorem | Statement | Module |
|---|---|---|
| `InductiveInvariant` | `Spec => []IInv` | `ShieldBanProof` |
| `TypeCorrect` | `Spec => []TypeOK` | |
| `ZoneAlwaysConsistent` | `Spec => []ZoneConsistent` | |
| `CursorAlwaysSafe` | `Spec => []CursorSafe` | |
| `AbsentUntilInsert` | `Spec => []StillAbsent` | |
| `DropsFollowLiveWalk` | `Spec => DropOnlyAfterLiveWalk` | |
| `BelowThresholdAlways` | `Spec => []BelowThreshold` | |
| `HitAlwaysInItsWindow` | `Spec => HitInItsWindow` | |
| `ArmedBanAlwaysLive` | `Spec => ArmedBanIsLive` | |
| `LiveBanAlwaysKept` | `ForwardSpec => LiveBanKept` | |
| `ZoneImplementsPolicy` | `ForwardSpec => ImplementsPolicy` | |
| `RequestInvariant` | `Spec => []IInv` | `ShieldRequestProof` |
| `RequestTypeCorrect` | `Spec => []TypeOK` | |
| `AttackNeverServed` | `Spec => []AttackNotServed` | |
| `AlwaysEndedForCause` | `Spec => []EndedForCause` | |
| `CountedAreDenied` | `Spec => []BlockedIsDenied` | |
| `OneHitInEveryPass` | `Spec => []OneHitPerPass` | |
| `ListNeverAheadOfBans` | `StatusSpec => []BansCoverList` | `ShieldBanProof` |
| `CutMeansOutgrown` | `StatusSpec => []CutOnlyIfOutgrown` | |
| `ListedBansAlwaysRun` | `StatusSpec => []ListedBansRun` | |
| `TotalsAlwaysAgree` | `StatusSpec => []TotalsLagByFlight` | |
| `ExaminedInTime` | `ReclaimSpec => []ExaminedWhileStill` | |
| `AutomatonAlwaysExact` | `Spec => []AutomatonExact` | `ShieldScanProof` |
| `AlwaysWithinAllocation` | `Spec => []WithinAllocation` | |
| `VerdictAlwaysReference` | `Spec => []VerdictIsReference` | |
| `InspectionInvariant` | `Spec => []IInv` | `ShieldInspectProof` |
| `CleanAlwaysClean` | `Spec => []CleanIsClean` | |
| `HitAlwaysThere` | `Spec => []HitIsThere` | |
| `CollectedAlwaysStart` | `Spec => []CollectedIsStart` | |
| `NoClientChoosesItsKey` | `Spec => []KeyIsSeenClient` | `ShieldKeyProof` |
| `LookupAlwaysExact` | `Spec => []LookupExact` | |
| `NearestIsInForce` | `Spec => []EffectiveIsNearest` | `ShieldConfProof` |
| `PoliciesStayWhole` | `Spec => []PolicyIsWhole` | |
| `BansOutliveReloads` | `Spec => []ReloadKeepsBans` | |
| `LossesAnnounced` | `Spec => []LossAnnounced` | `ShieldLogProof` |
| `SkipsHaveCause` | `Spec => []SkipHasCause` | |
| `AlertsAreApart` | `Spec => []AlertsApart` | |
| `PassedAreSettled` | `Spec => []PassedIsSettled` | `ReporterProof` |
| `SuppressionHolds` | `Spec => []SuppressionKept` | |
| `LeftFilesAreDrained` | `Spec => LeavesDrained` | |
| `RepostsHaveCause` | `Spec => RepostHasCause` | |

Where the specification of the zone is `Spec` or `StatusSpec`, and in `ShieldLog`,
the clock may step back; in `ForwardSpec`, in `ShieldRequest` and in `Reporter` it only
moves forward.

Assumptions: `count`, `window` and `bantime` are positive, which the directive
enforces (`module.c` 2164-2198), `TimeMax`, the budgets and `CounterMod` are positive, the
sentinels are not members of the sets they extend, `Absent` is no node, no more
requests arrive than the counters can count, `NoFile` is no file, the
slab and the categories are finite. An address is its bytes, which and its hash are
numbers. A line of `X-Forwarded-For` is made of strings, the
separators among them, and no address is a separator. There are finitely many
bytes, and decoding or lowering one makes a byte; a row of the signature table has
its category to itself, and its words are finitely many, none of them empty. The target,
the path, the header values and the body of a request are made of pieces, a buffer is in
memory, in a file or neither, and a cap is a natural number. A configuration
file is what nginx hands to the setters: each directive has an argument, and no
argument is a sentinel. TLC evaluates all of them.

*The argument.* The four properties are not inductive one by one. `ZoneConsistent`
is broken by an insert of an address that has a node; that none has is
`StillAbsent`; that this survives the steps of other requests needs that they
cannot store while the mutex is held, `MutexHeld`, which says that the holder is
exactly the request inside the section. `CursorSafe` is broken by a walk that
frees the node under the cursor and is repaired when that walk ends, so it is
stated for states without a walk, and for the walk's own position within one.
`RequestKnown` gives the types of what a request carries. `IInv` is the
conjunction, and `StepIInv` its preservation, one lemma per action.

The first lemmas of `ShieldBanProof` show that counting a hit keeps a node well typed
and that the clamped sum never leaves `Time`, and what removal, insertion, touch and the
neighbour do to the members of a queue without repetitions.

*The walk.* That a walk which frees nothing has met live nodes only relates its
position to where it started: what it has covered is the part of the queue between
the start and its position, before it has wrapped, and everything but the part
between its position and the start after that; all of that is live and counted
against the budget. So when it stops the budget is spent, or it is round. Nobody
reorders the queue meanwhile, since the mutex is held; the cursor it leaves is where
it stopped, so what it covered are the nodes before the cursor
(`DropOnlyAfterLiveWalk`), `SCAN` of them or all.

How soon the next walks come to a node is a matter of what stands before it, from the
cursor to the head and on from the tail (`Ahead`). A walk that misses the node has
spent a budget, so it leaves at least `Gain + 1` fewer there; the insert after it adds
one at most; so `Gain` times the walks that missed it and the nodes before it never are
more than the slots (`LapInv`). Within a walk what it has looked at counts as well, and
once it has wrapped, a node it has not looked at stands before it, so that a walk that
ends at the head has missed none.

*Hits over time.* Every step of the zone that changes a node stores a hit, links
a fresh node or frees one (`StepKinds`), and a stored hit is `Count` of what was
there (`StoredAt`), so the properties of hits follow from lemmas about `Count`
alone. That no walk frees a live ban needs one more invariant, `TimeShown`: the
time a request carries is one the clock has shown. If the clock is stepped back
this fails, and a walk with the newer time frees a ban that is live again.

*The refinement.* The entry of an address is the node a lookup finds. A stored hit
is `Hit` of its address and leaves every other address alone, since no address has
two nodes (`ZoneConsistent`); an eviction is `Forget`, of a node that is stale at a
time the clock has shown (`TimeShown`) under the policy of the walking request; an
insert is `Hit` of an absent address, since the lookup's miss still holds
(`StillAbsent`).

*Requests.* What a request may be served or denied depends on what an earlier run of
the handler left in its context, so `Sound` relates a request to its next step: a
kept "declined" is harmless at the location that kept it, a kept error is justified,
and a redirect leaves no verdict to carry to another location. A hit is counted only
where none has been counted in the pass, which holds because a request without a
verdict has no hit. Detect mode alone never denies: a location that blocks has been
gone through whenever one is current (`blocking`). The invariant needs one fact that
no property states: a body that justified a denial is buffered, so a read that nginx
refuses later cannot replace it. A body is asked for only after a location with
nothing found before it, which is all that a closed connection or a refused read can
follow (`Asked`). A request that was counted as blocked has a status already, or
stands before the step that gives it one with the verdict kept (`Tallied`): it is
not served, and one denied was counted on the way.

*The status document.* The list is a choice of places in order, so its clients are
distinct because no address has two nodes. That it is covered by the counter needs
an invariant of the zone: every node that was armed stands for an arming of its
own, so armed nodes are no more than `bans`; freeing one only helps. The
counter does not wrap, since no request arms twice and no more than `MaxRequests`
arrive. That a listed ban ends within a bantime of the latest second needs that
no node's deadline was computed from a time no clock has shown.

For the totals, every request in flight is at one place: it has been counted by the
zone and not yet by its category, or by both, or by neither. No counter wraps:
what has been counted and what is still to be is no more than the requests that
have arrived. The sum over the categories is a fold over a finite set in an order
nobody fixes, so that it exists, and that one more hit makes it one more, is shown by
looking at the smallest set for which either fails (`SmallestSet`, `SumsExist`,
`TotalGrows`).

*The key.* Whatever a client sends, what the proxy wrote is the last element of the
last line. The lemmas find the last comma and trim what follows it, for each of the
four ways of reporting (`ReadAfterBlank` to `ReadWithPort`); that joined lines are a
line again is shown at the least number of lines for which it fails. An address that a
proxy speaks for is never its own, so a peer that is trusted has reported.

*The tree.* That lookup and insertion agree is an invariant of the order alone: the
nodes are sorted by `GoesLeft`, which is a strict total order (`Ordered`), whatever
the hashes that collide. Of the shape only this is used: a descent that has the
nodes between two others left to search is at the one of least rank, so its
children are those of the two halves (`Covers`, `LeftCovers`, `RightCovers`). By
rank a descent ends (`DescentExists`), and it ends at the node of the address
(`LooksUp`), at none if there is none (`LooksAway`), and for an insertion where the
address belongs (`PlaceBelongs`), so the order is kept. Each is shown at the
deepest node for which it fails.

*The scanner.* A state stands for the bytes that lead to it, so that one state ends
another is a relation of texts. While the trie is flattened the queue holds its
states in order of length (`QueueOrder`), each either done or still to come
(`Waiting`, `Linked`); the fail link of a state is then the longest shorter end that
is a state, and its transitions, which are copied from there where the trie has
none, lead to the longest end of what is read. The states are the starts of the
words, no more than the bytes of all of them, which bounds both tables. Run over a
text, the automaton is in the longest end of what it has read (`GoTracks`), so a
word ends where it says one does; the first hit is found at the least number for
which a statement holds, and is the least row since a row has its category to
itself. What is left for the rules is a fold over the same text. The attempt showed
that the first version of the reference was wrong: it let a rule whose category is
in no row end the search, where `scan.c` 430-460 goes on to the next rule. The
instance now has such a rule.

*The inspection.* First each step of the code is shown to find what the reference says
is there. A scan of one buffer reports one of the categories held there that its mask
lets through, and nothing only if there is none (`ScanFinds`); which one comes first
never matters. The two passes over the target leave out what the query is exempt from and
then look for just that in the path (`TwoPasses`). The walk that looks for a dot segment
follows the path byte by byte and a segment is what lies between two slashes: that they
agree (`DotfileExact`) is shown at the least position for which they would not, and so
are that a media type has one end (`EndUnique`) and that the buffers joined begin with the
buffers joined so far (`JoinedBegin`).

The invariant has two parts. `Passed` says, of each place the inspection has gone by while
nothing was found, that it holds nothing; one step extends it by what that step looked
for, and an error ends the inspection without extending it. `Collected` places the copy:
between two buffers it is as long as those before, or the cap was reached there
(`Between`); within a file it is longer by what was read of it (`Within`), so the next
read goes on where the last one stopped.

*The configuration.* The invariant follows the reading: a level's settings are what
the directives read so far say of them (`ConfRead`), each said once or not at all
where the code refuses a repetition, and the zones are the definitions read so far
(`ZonesRead`). A level that is read to its end passes on what it says (`Passes`),
and merging a level with what it is handed settles it (`MergeSettles`), so the proof
covers any number of directives in any order. The parameters of a `shield_ban` are a
fold over its arguments; what it returns is shown by looking at the least number of
arguments for which the statement fails (`LeastBad`, `ParametersUnroll`). What the
reloads leave of a zone is an invariant of its own. Each segment was laid out once,
by the cycle that is named in it, and every context leads to the data of its
segment, so that both paths of `init_zone` come to the same (`MemoryKnown`); the
newest cycle with workers is the one that serves (`WorkersKnown`). A zone that every
cycle since a worker's had in one size is then still the same in memory
(`StillTheirs`): the new cycle's is the serving one's (`SetUpIs`), and a zone that
was left out or resized in between is no longer claimed. What is recorded through
one of them is found through the other.

*The log.* The two times a location keeps are those of its own hits in the
history, and that of the last alert is its latest (`AlertWasLogged`): an alert is logged
only when the clock is more than the limit past it, so that it never moves back although
the clock may. A record that is lost now is therefore no further behind an alert than the
limit, unless it makes one; and the time of the last full disk is no further ahead of
that alert either (`FullAnnounced`), so neither is a record that is skipped for it.

*The reporter.* What lies before the offset is settled because the offset only moves
after a line was recorded or refused for good, and the saved offset is an older one of
the same file. A day's reports are those the state counts, plus those of a state
file that is older; both stay in the cap and a window apart since a report is
recorded and saved before the next line is read.

*Only model-checked*: `MutexReleased` and `Answered`. Both hold under fairness only, so a
proof would have to say when an action is enabled, which is outside the prover. Every other
property a passing run checks is proved for every value of the constants. The library's
induction theorems cannot be used here: induction over texts, queues, finite sets,
descents, arguments, lines and buffers is made by hand, at the least number for which a
statement fails.

## 5. Plan

Every component that is part of the running program is modelled, and every safety
property of the passing runs is proved. What a change of the code would call for:
new categories and rules go into the tables of `ShieldInspect`, whose lemmas about
them (`QueryMask`, `BodyMask`, `RuleCats`) then say whether the masks still are what
the reference states. Left to TLC are the two liveness properties and the two
statements that runs show the code not to keep.

## 6. Not modelled

*Request path*: subrequests, which the handler declines; error pages with `=code`
and recursive error pages; the wording of records and of the status document.
*Ban engine*: slab failures with slots to spare (the slab has other sizes and
fragments; the test build injects them); a worker killed inside a section, which
README 222-227 gives up. *Hit log*: the escaping of a record, what a short write leaves
in the file. *Scanner and inspection*: the signatures as text (each
category is one, and small words stand for them in `ShieldScan`); the
comparison of names without regard to case. *Ban key*: parsing an address and
matching a mask, which are nginx's. *Configuration*: parsing numbers, times and
sizes; allocation failures other than the four directives that check for one.
*Reporter*: sanitising of the comment and the mapping of categories; the dry
run; the read-ahead of a Python file object, by which it may see older bytes than
the file holds after a truncation; an inode number that is used again for the new
file; a second failure in a row, so that the doubling of the pause is stated and
not exercised. Files that were truncated in place are left out of
`PassedIsSettled`, `LeavesDrained` and `RepostHasCause`: a file that has grown past
the offset again is not recognised, and lines written before it are skipped.

Not planned: the probe hooks, tests, fuzzers, linters, build files and the service
unit.
