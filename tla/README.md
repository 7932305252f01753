# A TLA+ verification project for RXCore

RXCore (`src/target_core`) is a VLESS/Reality proxy server with per-user quotas,
an administration API and a WARP egress, built on a patched copy of rustls
(`src/target_core/rustls-reality`). This directory holds TLA+ models of its parts,
the TLC runs that check them on small instances, and TLAPS proofs of the most
important properties for every instance.

## The system

The server is one process on a tokio *current-thread* runtime (`main.rs`): tasks
interleave only where they await, and a stretch of code without an await is atomic.
Blocking work (Argon2, file writes) runs on up to four other threads and is always
awaited. A future may be dropped at any await by a timeout, by `select!`, or because
the HTTP client left. These facts decide the granularity of the server's models: **an
action is the code between two awaits.** The client (`bin/client.rs`) uses several
threads, and rustls may be used from several: there (`Dial`, `Socks5Udp`,
`TicketSwitcher`) steps interleave at every lock as well.

| Component | State | Operations | What is hard | What makes it correct |
|---|---|---|---|---|
| Handshake admission (`inbound/mod.rs`, `transport/reality.rs`) | semaphore of 4, handshakes per host (at most 1000 hosts) | `accept_reality_bounded`, `HandshakeGuard::drop` | refusals and drops at any await, one host under two address forms | permits and counts exact, limits kept, a full door opens again |
| ClientHello parsers (`transport/reality.rs`, `dispatcher/sniffer.rs`, rustls) | bytes read so far | collect records, parse, authenticate, fall back, sniff | three parsers of the same bytes, nested lengths, split records | parsers agree, only sealed hellos pass, no byte is lost |
| TCP relay and quota (`transport/mod.rs`, `api/mod.rs`) | `remaining_bytes`, per-connection and per-user counters, `dirty` | three copy loops, `reserve_quota`, `add_quota` | check, await, reserve; many loops on one balance; dropped loops | balance exact, no overdraft, bounded loss in counting, `-1` never reached |
| Fragment and VLESS client outbounds (`outbound/fragment.rs`, `outbound/vless_client.rs`) | two directions, counters | dial, cut the first payload, relay | tasks that outlive their handler, a failure of one direction | bytes in order, counters right, relays end |
| Persistence (`state.rs`, `main.rs`) | configuration, counters, request channel, generations, two files | `persist_config_to_disk`, worker, flusher, restart | full channel, failing write, crash, coalescing | file always whole, never older, what was counted not forgotten |
| Administrator authentication (`auth.rs`, `api/mod.rs`) | credential file, server's copy, limiter, one permit, cookies | login, change password, middleware, CLI | state read before an Argon2 job and used after it; a second process | limits exact, no session outlives its password |
| Dispatcher and registry (`dispatcher`, `inbound/vless.rs`, `outbound`) | accounts, active connections, WARP health | authenticate, register, disconnect, reload | account changes between authentication and registration | deletion reaches every connection, WARP fails closed |
| Router (`router/mod.rs`) | domain sets, rules, compiled tables | change sets, match, `resolve_route` | label boundaries, tables that lag the configuration | the answer is that of the present sets |
| DNS resolver and dialling (`transport/dns_cache.rs`, `transport/mod.rs`) | two caches, two tables of flights | get, insert, coalesced lookup, `dial_tcp` | the leader of a coalesced lookup is dropped; two routes | every call ends, no name on the wrong route, one lookup per name |
| UDP outbound (`outbound/udp.rs`) | session table, sockets, readers, channel, writer | frame in, datagram out and back, clean-up, shutdown | tasks that outlive the handler, bounded channel | sessions listened to, exact counts, stream released |
| WARP health (`main.rs`) | health, failures | probe, pause | two thresholds, circuit opening | cut exactly while down, used again |
| SOCKS5 UDP (`inbound/socks5.rs`) | two maps behind two locks, queue, numbers | datagram, reply, clean-up | lock order, wrapping numbers | replies reach their sender, datagrams are handled |
| Accounts, profiles, listeners (`state.rs`, `api/mod.rs`, `main.rs`) | configuration, indexes, runtimes, listeners, one permit | create, delete, tokens, reload, restart | check, await, insert | ports and emails unique, nothing granted is undone |
| Dashboard (`main.rs`, `api/cache.rs`) | snapshots with ages | lag monitor, build, serve | skipped builds | snapshots recent once the loop keeps up |
| Subscription limiter (`api/mod.rs`) | requests per address | check, prune | pruning | limit holds in every window |
| Multiplexing (`transport/mux.rs`) | pool, connections, streams, queues | lease, write, read, drop | dropped ends, full queues | counts exact, streams separate. No other module of the engine uses it yet |
| rustls: handshakes (`client`, `server`) | connection states, keys, session stores | one action per handshake message | retry, early data, resumption, rewriting network | agreement, authentication, compatible ends connect |
| rustls: records (`conn.rs`, `common_state.rs`, `deframer.rs`, `vecbuf.rs`) | buffers, sequence numbers, closing | write, fragment, deframe, join, read | pieces of any size, key change, cut | whole, ordered, and a clean end means all |
| rustls: tickets and caches (`ticketer.rs`, `limited_cache.rs`, `persist.rs`) | three keys; map and queue | roll, encrypt, decrypt; put, take | failing key generation between two locks; clock skew | tickets live long enough, are spent once |

The components meet in `EngineState`: the handshake hands its stream to the
dispatcher; the dispatcher asks the router, registers the connection and spawns the
relay; the relay dials through the resolver; its commits set `dirty`, which the
flusher turns into requests for the persistence worker; the API changes accounts,
profiles, sets and balances under all of them.

## Modules

| Module | Models | Correspondence |
|---|---|---|
| `Handshake` | admission control | `permits`/`active` are the semaphore and the map; `phase` is where `accept` awaits; `HostOf` is the canonicalisation of IPv4-mapped addresses |
| `Hello` | the ClientHello, byte by byte | a type, a length and a byte of contents are a cell each, so every length can disagree with what follows; `wire` is the message in one or several records, whole or `damaged` (a cell changed, something put behind it); three recursive-descent parsers as recursive operators |
| `Quota` | one user's balance and relays | a loop is `pc` = read, write, shutdown; `held` is what was reserved for the write in progress, `acc` the accumulator; `Open` chooses the loop once, as the code does |
| `QuotaLedger` | abstract account: grants and covered withdrawals | refined by `Quota` with `balance <- remaining` |
| `Relays` | the two outbounds without `Quota`'s loops | bytes are numbered; `hand` is the buffer between read and write, `first` whether the payload is cut |
| `Persistence` | from snapshot to `config.json` | a client's four counters are two numbers, what only commits and grants raise (`usage`) and what reservations take (`taken`); the rest of the configuration is another (0 = older release); `base` are the counters inside the in-memory configuration, never updated after load; `tmp`/`disk` are the two files. `Reserve` is what `reserve_quota` does to the balance, and leaves `dirty` alone; `Commit` counts and sets it. `owed` is what was reserved and neither committed nor in a snapshot since: a loop that is dropped or fails leaves it so |
| `AdminAuth` | credentials, limiter, sessions | `seen` is `auth_cached`, `phase` the Argon2 job a request awaits, `fails` both limiter tables at once (`forgiven` = removed from the address's table by a success), `ver` names the version of the credentials (history) |
| `RoutePolicy` | `resolve_route` | shared by `Dispatch` and `Router` |
| `Dispatch` | request to relay | `owner`/`mode` are what was authenticated, `account` what was registered, `carrier` where the chosen handler sends the traffic. `outbounds` is the configuration's list, by tag, each a protocol and whether it names a proxy; `found` is what the tag had at the dispatch (history) |
| `Router` | sets, tables, matching | names are short sequences of characters; `tables` is what was compiled, `asked` the request being routed and `outbound` its answer |
| `Dial` | resolver and `dial_tcp` | a call is a record with its `pc`; `inflight` maps a name to its channel in `chans`; `asked` records what the system resolver was asked |
| `UdpOutbound` | three UDP framings | `sessions` is the table, `reader` the tasks (which outlive it), `channel`/`writer` the downlink; `silenced`, `used`, `given` are history |
| `WarpHealth` | the probe task | `health` is the code's number 0 to 4 |
| `Socks5Udp` | UDP ASSOCIATE in the client | `sessLock`/`assocLock` are the locks, `issued` the counter modulo `IdSpace` |
| `Provision` | the control plane | `config` and what is derived from it (`users`, `stats`, `sub_tokens`, `runtimes`, `listeners`, `tables`); `req` are handlers at their awaits |
| `Dashboard`, `SubLimiter` | two small tasks of the API | ages instead of clocks |
| `Mux` | the pool | queues and places per connection, streams with their sequence of frames |
| `Tls13`, `Tls12` | the handshakes | `ep[e].st` is the name of the State object; a hash is the sequence it is computed over, a key the secrets it is derived from |
| `Records` | record layer of one direction | cells instead of bytes; `buf` is the deframer's buffer, `joining` its metadata |
| `TicketSwitcher`, `SessionCache` | resumption stores | keys and sessions are numbers. In `SessionCache` server and client have a clock each, of any offset and rate, neither set back; `sent` are the tickets and `hellos` the ClientHellos on their way. A ticket is stamped by the server's clock when it is sent and by the client's when it comes |
| `Doors`, `Outbound`, `Tables` | one side each: `Handshake`, `UdpOutbound` or `TicketSwitcher` with the modules that run beside it | `Next` interleaves the steps of the parts, each of which leaves the variables of the others alone; the promises of the side are stated here |
| `MC*` | instances for TLC | constants, symmetry, and the properties of a run as named conjunctions |
| `QuotaProofs`, `PersistenceProofs`, `AdminAuthProofs`, `DispatchProofs`, `DoorsProofs`, `OutboundProofs`, `MuxProofs`, `TablesProofs` | theorems about the module each is named after and, for a side, about its parts | see *Proofs* |

Operators whose comment calls them a mutant or a plausible bug are used by no
specification. They are single-definition variants of the code; each property of a
run is known to be violated when its variant replaces the definition, so no property
holds vacuously.

## Runs

A run is one side of the system. Three sides have components that share no variable
(`Doors`, `Outbound`, `Tables`); their modules interleave all of them, and the theorems
of *Proofs* are about that interleaving. `MCConnection` puts `Dispatch` and the layers
of TLS below it side by side in the same way. The product is too large for TLC, and its
states add nothing to what the parts do: the MC module of such a side has a variable
`focus` that names the component that runs while the others stay in their initial
state, so that the run is the union of a run of each. `Hello`, `Router` and `Provision`
are instances of `MCDoors` and `MCTables` only. A property of a run is a conjunction of
named invariants of the modules that belong to one promise.

| Run | Instance | Properties |
|---|---|---|
| `doors` | `Handshake`: 4 connections, 4 addresses on 3 hosts, 3 permits, 2 per host, 2 hosts. `Hello`: 7 hellos, each cut into records, or with any one cell changed, or with something behind it. `Socks5Udp`: 2 addresses, 2 handlers, 3 numbers, a queue of 1. `SubLimiter`, `Dashboard`. `Router`: 3 sets, 4 rule lists, 97 requests. `Relays`: 4 bytes up and 1 down in pieces of 0 to 2 | `CountsExact`, `DoorReopens`; `SealedOnly`, `ParsersAgree`, `BytesConserved`; `AssociationsSound`; `LimitHolds`; `SnapshotsRecent`; `RouteFollowsPolicy`; `RelayedAndCounted`; `HandlersGoOn` (datagrams handled, relays end) |
| `quota` | one connection (2 loops) with balances -1, 1, 3, a grant, reloads and flushes, and two connections (4 loops) that share 2 bytes; reads of 1-2 bytes, commit at 2 | `TotalsSound`, `CountingLossBounded`, `ImplementsLedger` (refinement), `DrainEnds` |
| `persistence` | 2 users, channel of 2, a budget of 3 disturbances among reservations, commits, changes, a failure, a refusal and a crash; the second user has one of them at most | `FileSound`, `DiskNeverGoesBack`, `CountersEventuallySaved` |
| `admin_auth` | 2 requests, 2 addresses, 2 passwords, 3 versions of the credentials, limits 1 and 2, CLI, restart | `LimiterExact`, `CredentialsCurrent` |
| `outbound` | `Dial`: 2 calls among 7 requests (interchangeable, so `InOrder` keeps one of two orders), a cache of 1, times to live 0 and 2, three instants. `UdpOutbound`: three framings, 2 ids, 2 destinations, 2 sockets, a channel of 1, 2 datagrams. `WarpHealth` with the code's thresholds | `NamesLeftToProxy`, `LookupsShared`, `CallsEnd`; `SessionsSound`, `SessionsEndInTime`; `WarpFollowsProbes` |
| `connection` | `Dispatch` twice: 2 connections and 2 accounts, and one connection with any of 4 `warp` outbounds (none, freedom with and without a proxy, VLESS), which reloads exchange, while WARP comes and goes; 5 kinds of destination, 2 changes. `Tls13`: 15 configurations, 2 or 3 connections of one client and server, up to 1 fault. `Tls12`: 17 configurations, up to 2 faults. `Records`: 3 handshake messages, 2 cells of data, every split, a transport of 2 cells, 4 operations of the writer or 3 and a fault (`MaxEvents`) | `KickedExactly`, `WarpTcpFailsClosed`, `KickEnds`; `Agreement`, `Authenticated`, `CompatibleEndsConnect`, `HandshakesEnd`; `DataInOrder`, `DataArrives` |
| `tables` | `Provision`: 2 requests, 3 operations, one tag on two ports, one email for two ids. `Mux`: 2 connections, 2 streams, queues of 1 and 2, 4 leases and frames together (`MaxEvents`). `TicketSwitcher`: 2 threads, 6 keys, 3 lifetimes. `SessionCache`: 2 servers, caches of 2, 2 sessions, two clocks of 0 to 4, ages modulo 8 half seconds, a skew of one second | `ProfilesSeparate`, `GrantsKept`; `StreamsSound`; `TicketKeysSound`; `SessionsSpentOnce` |

The bounds are the smallest that let every limit be reached and exceeded by one
competitor: one more connection than permits, a balance smaller than two reads, one
request more than the channel holds, one login more than the limit, one datagram more
than the queue, one number more than there are, one entry more than the cache. History
variables (`grants`, `edits`, `fails`, `refused`, `crashes`, `secrets`, `orphans`,
`restarts`, `ops`, `issued`, `faults`, `twins`, `strayed`, `abandoned`) only bound the
exploration or name an exception that is stated in a property. Deadlock is checked
in `quota` and `admin_auth`; in the others the system may come to rest: with the
bounds used up and nothing pending it is idle, and a closed connection stays closed.

Runs that end in a violation state what a comment or the requirements
(`tasks_list.txt`) say and show that the code does otherwise:

| Run | Property | The code |
|---|---|---|
| `quota_unlimited` | `UnlimitedNeverCut` | a speed-limited user without quota (-1) is stopped by `<= 0` |
| `persistence_config` | `ConfigSaved` | a change that touches no counter is never written |
| `admin_reset` | `ResetEndsSessions` | `reset-password` does not reach the running server |
| `dispatch_udp` | `WarpNeverDirect` | UDP ignores the proxy of the WARP outbound |
| `dispatch_latency` | `LowLatencyNeverWarp` | a custom rule for `warp` is asked before the default of Low Latency |

### What the models show besides

These are stated as exceptions inside properties that hold, or follow from an action
as it is written.

- A request that is authenticated when its account is deleted is registered without an
  account, so it is neither counted, limited nor ended (`raced` in `DeletedAreKicked`);
  `reload_config` ends no connection (`dropped`).
- UDP ignores a blackhole outbound for the reason `dispatch_udp` shows. A configured
  `warp` outbound that names no proxy sends TCP for WARP directly (`Bare`); nothing in
  `config.rs` refuses one, and only a missing one is replaced by the local proxy.
- A reservation lowers the balance at once, and only the commit after it sets `dirty`
  (`owed`): a loop that is dropped or fails in between leaves `config.json` with the
  balance as it was before, until something else is saved; a restart gives it back.
- Freshness of a resumption is a matter of both clocks: `FreshIfRecent` says it holds if
  the time ticket and ClientHello were on the way, and what the server's clock gained on
  the client's while the client held the ticket, come to no more than the skew. A slow
  ticket and a clock that runs slow can hide each other.
- Two concurrent password changes store the same `session_epoch` (the fresh secret
  still ends the older sessions). `change_password_handler` verifies without the permit
  (`api/mod.rs:2452`), so two hash jobs can run at once; `tasks_list.txt:1268` asks for one.
- Two profiles with the same tag on different ports can both be published (`twins`),
  and two accounts made at once with custom profiles can share an email.
- `get_or_create_association` and the clean-up take the two locks of `socks5.rs` in
  opposite orders (lines 186 and 210): on several threads they can wait for each other
  for ever. Association numbers wrap onto live ones after 65536.
- A datagram of length 0 ends the reader of a UDP session, which then stays in the
  table and is silent. The multiplexed framing resolves names itself in front of a
  proxy. A kicked UDP or fragment connection leaves its tasks running until its peers close.
- In the fragment outbound a piece of length 0 (a range that begins at 0) drops the rest
  of the first payload. The VLESS client counts nothing after an error or a kick, and
  takes the results of the two directions the other way round for rx and tx.
- A regular expression is put in lower case before it is compiled.
- `Mux`: a place is lost when a lease fails after it was taken; a frame for a full
  stream is dropped and leaves a gap; no other module uses the pool.
- rustls: a `close_notify` that is sent while an answer to a key update waits is
  encrypted with the old key behind it and cannot be read; `process_new_packets` may
  return another error the second time; ticket keys are accepted longer than twice
  their lifetime when nobody uses the ticketer; the age of a ticket of lifetime 0
  overflows 32 bits of milliseconds after 49 days.

## Fairness

Only timers and tasks that are ready to run are fair; peers, administrators, crashes
and failures never are. Where several components share a run, the fairness of each is
the premise of its own liveness property.

| Module | Fair | Because |
|---|---|---|
| `Handshake` | the 3 s timeout | tokio timer |
| `Quota` | the 15 s drain timeout | tokio timer |
| `Persistence` | the 60 s flusher, the worker's steps | timer and ready task |
| `Dispatch` | a task that was sent its shutdown signal | `select!` on the channel |
| `Dial` | a task's own steps, the callers' and the WARP lookup's timeouts | ready tasks and timers; no resolver, proxy or DNS server is made to answer |
| `UdpOutbound` | the writer that finds its channel closed | ready task |
| `Relays` | the steps of the two tasks and the end of the handler | a peer that has closed is noticed by the read |
| `WarpHealth` | probe and pause | probe timeout and timers |
| `Socks5Udp` | strongly: taking a lock and putting a frame on the queue; weakly: the clean-up's removal | `parking_lot` hands a lock over to a waiter eventually |
| `Tls13`, `Tls12`, `Records` | the running component does not stop for good while `CanProgress` | implied by weak fairness of the steps of a connection whose owner calls `complete_io`; `MCConnection` puts the fairness of `Dispatch` in the same weaker form |

## Proofs

`DoorsProofs` proves of `Handshake`, for any finite set of connections and any limits,
`AdmissionCorrect` (types, conserved permits, exact counts, host limit) and
`TrackingMapBounded`. The inductive invariant `IInv` adds `SrcKnown` (a connection in
a guarded phase has a source address): without it the count that `Release` lowers
cannot be tied to a connection. The argument is that admitting or releasing a
connection changes the set of guarded connections, and the set of those from one
host, by exactly one element (`EnterSets`, `LeaveSets`, `SameSets`), and that every
entry of the map has at least one of them, of which there are at most as many as
permits. The map's bound follows from the check at insertion.

`QuotaProofs` proves for any number of connections and any sizes `QuotaSafe`
(`TypeOK`, `BalanceExact`, `CleanMeansSaved`), `LossBounded`, `StaysLimited`, and the
refinement `RelaysImplementLedger`. `IInv` adds `LoopBooks`: while a loop runs, what
it delivered is what it counted plus what it accumulated, and only a write in
progress holds a reservation. `BalanceExact` alone is inductive for the balance; the
loss bound needs the books of a loop before it is dropped.

`PersistenceProofs` proves `CountersSaved` (`FileSound`: the file is whole, and a
settled process has saved everything) and the action property `FileMovesForward`
(`DiskNeverGoesBack`). What a settled process may lack on disk is what was reserved and
neither committed nor in a snapshot since (`owed`), and no more. Neither is inductive: what the file will hold is decided in the
queue. `IInv` adds `Ordered` (generations and calls increase along file, job and
queue), `PendingSound` (all that is on disk or may get there are counters the clients
have had since the process started), `TmpIsJob` (the temporary file is the job's and
whole before the rename) and `NewestCurrent` (unless a request is owed, the newest of
queue, job and file holds the live counters, less what is owed). A full channel sets `dirty` again and a
skipped job is of an older generation than the file, so neither breaks the last.

`AdminAuthProofs` proves `LimiterHolds` (`LimiterExact`), `SessionsCurrent`
(`CredentialsCurrent`) and `VersionsTellCredentials`. The limiter's bound needs
`LoginHasRoom`: the failure a login in flight may still record has a place, because it
holds the only permit. That an old session is rejected needs `SecretsTellVersions` and
`VersionsUnique` over everything in a file, in memory or read before an await: a cookie
has the secret of the version it was checked against, and no version has two.

`DispatchProofs` proves `DeletionEndsConnections` (`KickedExactly`) and
`WarpTcpClosed` (`WarpTcpFailsClosed`). `Books` says of each connection whose it is: between authentication
and its end it has an owner, who is there, deleted or left out by a reload; a deletion
that came while the request was parsed is remembered, and registration takes the
authenticated account or, after such a race, none. Of the outbounds nothing is assumed
but that a tag has one or none: TCP routed to WARP takes the proxy if none is
configured, and leaves directly only by a configured one that does so.

`DoorsProofs` proves of the other parts of `Doors`, and of all of them together
(`DoorsInvariant`), one theorem each:

- `DoorsAssociationsSound` (`Socks5Udp`). The counter gives every number once in its
  first round: `Rank` is the place of a number in the round, and `IssuedBefore` and
  `PacketsOwned` say that whatever bears a number (entry, session, packet on the queue
  or with the server) has a rank that was issued. A new association therefore takes a
  number nobody bears, and a late reply finds the association it answers or none.
  `CollectedStands` says that what the cleanup task collected under one lock is still so
  when it has both; removal then takes an entry from both maps or from neither.
  `BoundKept` counts the handlers that may still have a number issued and is there for
  the bound in `TypeOK` only.
- `DoorsLimitHolds` (`SubLimiter`). `IInv` says that the map remembers every request of
  the window, in the order in which they came, of each address (`Remembered`,
  `RecentAges`), so that what is pruned or expired was outside the window. That recent
  requests are the end of a list follows from its order, with the least recent index as
  the point of division.
- `DoorsSnapshotsRecent` (`Dashboard`). `QuietSince` ties a quiet period to the ages of
  the last lag and of the monitor. `TickTaken` says that once no lag counts, a tick that
  is over and done with was taken to build, so that what is served ages by the build
  under way at most.
- `DoorsRelayedAndCounted` (`Relays`). `InOrder` numbers the bytes: what was written,
  then what is in hand, are the beginning of what was read, and all of it until a write
  failed. `CountsSettled` says that no direction counts before the handler relays nor, in
  the VLESS client, after it has ended.

`OutboundProofs` proves of `UdpOutbound` `UdpSessionsSound` (`SessionsSound`),
`UdpNamesLeftToProxy` and the action property `ActiveSessionsKept`. `IInv` adds
`FrameFits` (while a socket is opened for a frame nobody else makes its session),
`TableSound` (sessions have sockets of their own, with readers, and none outlives the
handler), `WriterSound` and `ActiveExact` (`last_active` is the time of the last
datagram wherever the cleanup reads it, though three tasks write it).

Of `Dial` it proves `OutboundLookupsShared` (`LookupsShared`) and, with the datagrams,
`OutboundNamesLeftToProxy` (`NamesLeftToProxy`). The route is decided once, when a call
starts, and everything after has to keep it: `CallsSound` says of each task by its `pc`
what it leads and that the answer in its hands came by its own route and was fresh when
it was taken; `CachesSound` says the same of what is cached; `ChansNamed` says that
whoever uses a channel of a flight uses it for one name on one route, so that an answer
that is sent to waiters is of their route too; and a channel has at most one leader,
until which the table of flights names it. A leader may be dropped at any await: its
channel is closed with it, and the invariant never says that a flight will be answered.

`TablesProofs` proves of `TicketSwitcher` `TicketKeysHold` (`TicketKeysSound`).
`ThreadsOnTime` bounds the delay of a thread and says that, of a thread that has switched
the keys, they are no older than the time it had read; `SwitchOnTime` ties the time of
the next switch to the last within that delay; `MadeFresh` says that keys made outside
the mutex are nobody else's; `TicketTraced` follows a ticket's key from current to
previous to lost, which takes two switches and so a lifetime less the delay.

Of `SessionCache` it proves `TablesSessionsSpentOnce` (`SessionsSpentOnce`). `Queued`
says that the queue of a cache has each key of the map once, which insertion at the end,
removal from the middle and the loss of the head keep. `TicketsNew` says that no session
has two tickets, in hand or on the way, and that what has one was never offered;
`TicketsAgree` that a ticket has the `age_add` the server has, if the server still has the session,
and came after the server had made it, and that a ClientHello tells how long, by the
client's clock, the ticket was held; `ResumedGone` that the server then has the session
no more. Freshness is modular arithmetic: an age that is sent wraps, but a ticket is
offered within a week of the client's clock, which in milliseconds and with the skew is
less than the modulus, so the age the server recovers is the one the client had; the
server's own age saturates instead of wrapping, and a saturated one is never fresh. The
difference of the two is the transit and the gain of `FreshIfRecent`, whatever the
offset of the clocks. That a week and a minute are below 2^32 ms, and the lifetime above
0, is what `CacheAssumption` makes of the constants, and the reason for the exception
about lifetime 0 above.

`MuxProofs` proves the inductive invariant of `Mux`, and `TablesProofs`, which has an
instance of it, that the pool keeps it beside the other tables: `TablesStreamsSound`
(`StreamsSound`). That `stream_count` is exact needs `PlacesOK`: the streams of a
connection have different numbers, its table has one number for each place, and the
rest of the count was lost by leases whose open frame could not be queued. That no
stream is handed a frame of an earlier one needs `FramesOK`: a frame on a queue or with
the server has a number that was given out, so a new stream, whose number is fresh,
never shares it, and a number that a stream still has belongs to the lease that sent
the frame; no number is opened twice. That what a stream reads has a gap only if its
queue was full needs `DataOK`: the chunks that wait are those after the last one read,
in order, up to the last one the server sent. `Good` is the part of the invariant over
the records. A handler of the code makes several changes in one step (a stream goes, its
close frame joins a queue, its record is reclaimed), and each change has a lemma that
`Good` survives it, of which the steps are composed.

The proofs assume the named assumptions on the constants: finite sets, sizes and bounds
that are numbers, positive where the code's are (`QuotaAssumption`,
`HandshakeAssumption`, `PersistenceAssumption`, `AdminAuthAssumption`,
`DispatchAssumption`), and a mark for an empty place that is no user, address or
socket. Those of the sides' parts (`UdpAssumption`, `DialAssumption`, `SocksAssumption`,
`LimiterAssumption`, `DashboardAssumption`, `RelayAssumption`, `TicketAssumption`,
`CacheAssumption`, `MuxAssumption`) are hypotheses of the theorems instead, and the `MC` modules assert
them of their instances. Every `IInv` was checked by TLC on a
small instance of its module before it was proved.

Only model-checked: all liveness, because TLAPS as used here has no fairness
reasoning; `TotalsSound`, whose sums over sets (`NoOverdraft`, `UserTotalsAgree`) need
induction over finite sets; `Hello` (`SealedOnly`, `ParsersAgree`, `BytesConserved`),
whose parsers are recursive operators; what the router's tables answer
(`RouteFollowsPolicy`), which compares sequences of characters of any length; and
everything in `Provision`, `Records`, `Tls12`, `Tls13` and `WarpHealth`. Where a
proof would go by induction over a list it takes the least index with a property
instead, which is a fact of arithmetic; that does not reach what a recursive definition
computes.

## Not modelled, and why

- Wire formats other than the ClientHello (VLESS and SOCKS5 requests, DNS and UDP
  packets, the codec of the other TLS messages): formatting, abstracted to what the
  reader makes of it. Cryptography is symbolic.
- The text of subscriptions and of the dashboard; validation of single configuration
  fields (`config.rs`).
- The SOCKS5 CONNECT command: a plain relay that the server does not select.
- Of rustls: QUIC, the builders, the `Acceptor`, the crypto providers, certificate
  verification, the examples and tests.
- `transport/tls.rs` builds a configuration and keeps no state; the desktop client
  and the user interface are outside the engine.
- `add_quota` is modelled for positive amounts. A power failure that loses synced
  data is outside the file model. IPv6 is refused before routing.

## What could come next

1. An inductive invariant for `Provision` (what each handler holds at its awaits), in the
   manner of `Dial`.
2. Of `Tls13`, that an authenticated end has the peer's transcript, for any number of
   connections.
3. A composition of `Dispatch` with `WarpHealth`, and an abstract single flight (each
   waiter gets one answer) that `Dial` implements.
