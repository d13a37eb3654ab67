# TLA+ models of tg-ws-proxy

tg-ws-proxy is a local MTProto proxy for Telegram, written in Rust on tokio. A
client connects, proves that it knows the proxy's secret, names a data centre
(DC), and from then on its byte stream is re-encrypted and carried to Telegram
over whichever path works: a WebSocket to Telegram's own hosts, a Cloudflare
Worker, a Cloudflare-proxied zone, another MTProto proxy, or plain TCP.

Source files are named relative to `src/rust/src/`, documents relative to
`src/rust/`.

## 1. Inventory

### 1.1 Components, their state and their operations

| Component | State it keeps | Operations | Module |
|---|---|---|---|
| Direct pool, `pool.rs` 105-228, 290-372, 455-504 | `idle` buckets per (dc, is_media), `refilling` set | `get`, `refill` (spawned), `warmup` (spawned at start-up), `connect_batch` | `WsPool` |
| Routing ladder, `proxy.rs` 600-745, 983-1260; `runtime.rs` fronting window | `WS_FAIL`, `IP_FAIL`, `UPSTREAM_FAIL`, `FRONTING_FAIL` (deadlines), `fronting_until` | `select_upstream`, `fallback_chain`, `upstream_proxies`, `direct_ws`, `reactive_fronting`, `on_fronting_success`, `cool_down_ws`, `cool_down_ip` | `Route` |
| Cloudflare tiers, `proxy.rs` 180-212, 748-980; `pool.rs` 230-290, 374-453 | `cf_idle`, `cf_refilling`, two rotation counters, `CF_WORKER_FAIL` | `cf_worker`, `cf_proxy`, `cf_target`, `balanced`, `cf_get`, `cf_prefetch`, `cf_refill` | `CfPool` |
| Hostname walks and the dial, `ws_client.rs` 62-320, 370-440, 450-660; `outbound/connector.rs` | `CfAttempts` (queue, tried, timed_out), the flags of `WsAttempt` | `connect_ws_for_dc`, `connect_cf_ws_for_dc`, choice of the outbound proxy | `WsConnect` |
| Bridges, `proxy.rs` 1262-1400, 1535-1800 | two tasks, `BridgeCounters`, four cipher positions | `bridge_ws`, `bridge_relay`, `bridge_tcp`, `join_bridge` | `Bridge` |
| Packet splitter, `splitter.rs` | two buffers, a shadow cipher, `disabled` | `split`, `flush`, length parsers | `Splitter` |
| Inbound handshake, `proxy.rs` 215-560 | what was read so far, the ciphers, the bytes left over | FakeTLS or plain handshake, silent drain of bad ones, handshake timeout | `Hop` |
| Upstream handshake, `proxy.rs` 1422-1514 | the ciphers towards the upstream | `connect_mtproto_upstream`, `drain_faketls_server_hello` | `Hop`; its place in the ladder in `Route` |
| FakeTLS records, `faketls.rs` | none | framing and its limits, the two hellos | `FakeTls` |
| Obfuscation, `crypto.rs` | cipher positions | handshake layout, key derivation, parse under several secrets, relay init, DC index | `Obfuscation` |
| Start-up, `main.rs` 85-140, 275-318 | phase, `cf_domains` | fetch, check or serve | `Main` |
| Accept loop and limits, `main.rs` 276-318, `limits.rs` | semaphore of permits, descriptors in use | acquire, accept, back-off, release; computation of the cap | `Accept` |
| Default domain list, `default_domains.rs`, `default_domains/http.rs` | buffer, position, decoded bytes of one exchange | header, length, chunk, trailer and end-of-file readers; parse, deobfuscate, fallback | `Fetch` |
| Connectivity check, `check.rs` | endpoints to go, `all_ok` | three kinds of probe, exit code | `Check` |
| Command line, outbound configuration, OpenWrt integration | none | | not modelled, see 7 |

### 1.2 How they interact

The process (**`Main`**) fetches the default domains if asked to, appends them
to the configured ones, and then either checks every endpoint and exits, or
serves. Serving, the **accept loop** takes a permit before it accepts and moves
it into the client's task. The task runs the **inbound handshake** and asks the
**ladder** for an upstream. The ladder asks the **direct pool** (`get`), dials
through the **hostname walks**, asks the **Cloudflare tiers**, which ask their
own half of the pool, and dials upstream MTProto proxies with the **upstream
handshake**. The result, a connected stream and the way its bytes are to be
framed, goes to a **bridge**, which runs two more tasks per session. Refills,
prefetches and the warmup run as background tasks beside all of this. All
clients share the process-wide cooldown maps, the rotation counters, the pool,
the permits and the descriptor table.

### 1.3 What is hard

* Many clients act on one bucket or one cooldown entry at once; values read
  before an await (the clock in `get`, the room measured by `refill`, the first
  reading of `WS_FAIL` in `direct_ws`) are stale when they are used.
* Background tasks and failing accepts must give back what they registered or
  acquired on every path.
* Cooldowns of four kinds, with different keys and scopes, decide which tier
  the next client is sent through; nothing tests their combinations.
* A peer that stays connected and silent is not an error: only timeouts end
  the wait, and two waits have none (the upstream's ServerHello and the drain of
  a bad handshake).
* A session is ended by cancelling one of its two tasks at an arbitrary await.
* Bytes pass two record layers, an init that may share its record with data, and
  four cipher positions; reads end anywhere. A keystream used twice would be
  agreed on by both ends and shown by no exchange of data.
* The descriptor budget is computed once for tasks that are written in four
  files, one kind of which (the Cloudflare spares) it does not mention.

The complete list, line by line, is under `hazards` in `PROJECT.json`.

## 2. Modules

All modules follow one rule: an action is what the code does between two
awaits. Definitions named after the code keep the code's names. Operators
introduced by a comment `Fault:` are not part of a model: each is a plausible
defect, used to show that a property can fail. `MC*` modules only name
constants for TLC; the eight `*Proofs` modules hold the theorems of section 5.

* **`WsPool`** - clients inside `get`, slots for spawned refills, the warmup
  task, a clock. A pooled connection is the moment it was pushed and whether
  the server still holds it. `Get` reads the clock before the lock is awaited,
  as the code does; `GetHit`/`GetMiss` drain the bucket under the lock and spawn
  the refill; `Register, Check, DialOk/DialFail, Add, Release` are `refill` and
  its `RefillGuard`; `WarmPick, WarmDialOk/WarmDialFail, WarmAdd` are `warmup`.
* **`Ladder`** - what the ladder promises to one connection, without cooldown
  maps, phases or the chain's three callers: tiers are passed one by one in the
  order of their rank, only an upstream may be passed without being dialled, the
  direct tier may be put off to the end once, and the connection goes the way of
  the tier it dialled last, or over raw TCP when no tier is left.
* **`Route`** - connections walking `select_upstream`. The one place where a
  connection is split finer than at awaits is `Direct`/`ConnectWs`: `direct_ws`
  and `connect_ws` each lock and read `WS_FAIL`, and another worker thread can
  write it in between. Direct dials report any flags a hostname walk can report
  (`FailedAttempts`); pool and Cloudflare tiers hit or miss. `Abstract` maps it
  to `Ladder`: what is left is what the log of dials and the skipped upstreams
  leave over.
* **`CfPool`** - connections walking `cf_worker` and `cf_proxy`, and the
  spares. Ages and cooldowns are abstracted: they end at any moment. A rotation
  counter is kept modulo the number of its domains, which is all `balanced`
  looks at (the wrap of the 64-bit counter, where 2^64 is not a multiple of the
  number of domains, is left out).
* **`WsConnect`** - the two loops over hostnames. A hostname is its zone and
  whether it is the `-1` record; `base_cf_record` also cuts a `-1.` in the
  zone's own name, which yields a name outside the configured zones. A dial has
  the two phases of `connect_ws_with_path`, connect and upgrade; the connect
  goes through the outbound connector, directly or by way of a proxy, which
  decides how its errors read, and with that whether `is_dns_not_found`
  recognises a missing record.
* **`Splitter`** - `MsgSplitter` as operators on a record. AES-CTR is replaced
  by a keystream that shifts each byte by an amount depending on its position,
  so a cipher out of step produces different bytes, as the real one would.
* **`Bridge`** - one session with its three tasks, over `Splitter`. The upload
  carries bytes, the download only counts. `write_all` is one step per byte
  because it can be cancelled or fail between any two. An aborted task goes on
  until its next await before it is dropped, since `abort` does not interrupt
  a poll in progress on another thread.
* **`Obfuscation`** - `crypto.rs` symbolically: a byte is a value and the set of
  keystream bytes it was XORed with, a keystream byte is its key, IV and offset,
  SHA-256 is a free constructor. The 64-byte init keeps its layout (prefix,
  prekey, IV, tag, DC, padding) with lengths as constants; the DC index keeps
  its 16 and 32 bits through every conversion.
* **`FakeTls`** - `faketls.rs` as operators on records: how data is cut into
  records, what a reader takes each record for (`data`, `skip`, or the `Ok(0)`
  every loop takes for the end of the stream), and the two hellos.
* **`Hop`** - one link into the proxy, plain or FakeTLS, over `FakeTls` and
  `Obfuscation`. The server side is the inbound handshake and the session's
  re-encryption, down to Telegram, which opens the relay init. The connecting
  side is this program's own upstream code, or any client, which frames its
  bytes as it likes, inserts records and breaks the framing, or a scanner, which
  sends the records or bytes it has (`Probes`) in any order and reads nothing: a
  hello it has recorded, hellos of its own, inits, records of any other kind. A
  session ends by the client, by a cut, or by Telegram's side (`TelegramEnds`:
  no tier connects, or Telegram closes). The scheduling of the two directions is
  `Bridge`'s subject; here a read is followed by its write.
* **`Pipe`** - what one direction of a link promises: bytes come out in order,
  none lost, changed, doubled or made up, and the end is reported only after
  the last byte of a closed stream, unless the pipe was broken. `Hop` maps both
  its directions to it.
* **`Fetch`** - one HTTP exchange and the list it yields. A response is a
  sequence of tokens of one unit of length; reads return any number of them, and
  the server may cut the connection or leave it open and silent. Whatever token
  stands where a chunk begins is parsed as its size line, and fails if it is none.
  A body in chunks is described by where each chunk ends in it and which size it
  declares; since a chunk adds two tokens to the content, the place of every
  token follows from its chunk's number (`SizePlace`, `EndPlace`).
* **`Check`** - the probes of `--check` in their order, each meeting a free
  choice of endpoint behaviour.
* **`Accept`** - the accept loop, its semaphore, the kernel's backlog and
  descriptor table, the client tasks as far as they hold a permit and sockets,
  and the two pools within the bounds that `WsPool!FdBudget` and
  `CfPool!CfBudget` establish.
* **`Main`** - composes `Fetch`, `Check` and `Accept`: what the fetch returns is
  what the check and the server get; while one part runs the others stand still.

## 3. Runs

| Run | Instance | What it shows |
|---|---|---|
| `pool` | 1 bucket, a client that comes back, 2 refills, warmup, pool size 2, `max_age` 1, clock to 2, dials may fail, fair tasks | `HandsOutFreshest`, `FdBudget`, `GuardExact`, `RefillKeepsSize`, `RefillReleases` |
| `route_ladder` | 2 connections, a DC with and one without `--dc-ip`, Worker, zone, a FakeTLS upstream, fair walks | `ImplementsLadder`: each connection is the ladder of `Ladder`; `HeldOnlyByHello`: only one wait can hold it |
| `route_priority` | 2 connections, `--cf-priority`, a Worker, an upstream, a fronting domain | `ImplementsLadder` under the other order, with the fronting window opening and closing |
| `cf_budget` | 2 clients, 2 Workers, 1 zone | `CfBudget`, `SparesKnown` without balancing |
| `bridge` | 4 kinds of session, 3 client streams, reads of 1 to 7 bytes, peers that close or stop reading, fair tasks | `RemoteSeesStream`, `OnePacketPerMessage`, `TotalsHonest`, `ClosedSideEndsSession` |
| `ws_connect` | both walks, 2 zones, one of them with `-1.` in its name, with and without a proxy that one zone bypasses | `AttemptsPerRecord`, `ZoneByZone`, `FlagsTellHow`, `TimedOutNotForced` |
| `main` | 29 responses of the list's server, then `--check` over the fetched zones, a Worker and two upstreams, or 3 clients on 8 descriptors | `WholeListOrBuiltin`, `AcceptableUsed`, `BufferBounded`, `VerdictHonest`, `StartupEnds`, `PermitsKept`, `BudgetSuffices`, `WaitsOnlyForCapacity` |
| `hop` | 32 links: plain and FakeTLS, own and any client, known secrets, an unknown one, a wrong host; scanners that open with each of 9 records and send 2 more | `ImplementsUpPipe`, `ImplementsDownPipe`, `KeystreamOnce`, `DcKept`, `StrangersGetNothing`, `OwnStreamArrives` |

Four further runs end in a counterexample, see section 6. A run that passes also
checks its module's `TypeOK`, except `route_ladder`, whose states
`route_priority` types under the larger set of options.

### Bounds and why they are enough

* `pool`: buckets of the direct pool only meet in the warmup task, which visits
  them one after the other, so one bucket shows every interleaving of `get`,
  refill and warmup. `get` is one step under the lock and the client comes back
  without end, so a second client adds no step the first cannot take, except to
  be inside `get` at the same time; the theorems of section 5 hold for any
  number. Two refill slots are needed for one refill to meet another's
  registration. Pool size 2 is the smallest for which a batch can fail half-way.
* `Route`: two connections are the smallest number for which one acts on a
  cooldown another one set; the clock runs to 1 and cooldowns are 1 or 2, so
  that an entry set at the start expires in some behaviours and the longer ones
  outlast the run. In `route_priority` the address cooldown and the fronting
  window are 1: both expire while a connection is on its way.
* `bridge`: the streams contain short and long abridged headers, with and
  without the acknowledgement bit, an intermediate header, and a length of zero;
  reads of up to 7 bytes cut each of them at every place and also return parts
  of two packets at once.
* `ws_connect`: nothing is bounded but the number of zones; the walks end by
  themselves.
* `main`: headers of up to 3 tokens and bodies of up to 5, with responses at
  each limit and one past it, in all three framings, complete, cut, left open,
  conflicting, mis-sized and with trailers; reads return 1 to 3 tokens. The
  computed cap is 2 for 8 descriptors; the other value of `--max-connections`,
  3, is beyond the budget, so that `EMFILE` happens. Three clients are one more
  than the cap. One dial per walk: a walk only repeats it.
* `hop`: an init of 7 bytes and records of up to 7, so that the init fills a
  record, shares one or is spread over several (frames of 3 and 5); own writes of
  8 and Telegram's of 9 need two records; frames of 8 and 9 are at and over the
  reader's buffer. The DC indices are 0, -2, 32767 and -32768. A scanner's three
  records are enough for a recorded hello, a part of an init and the rest of it
  (`MaxProbes` is 2, not counting the first); among the nine are a hello made
  with a known secret for the host, one for another host, one made with an
  unknown secret, a whole init, two in one record, a part of one, an empty
  record, a ChangeCipherSpec and a record of an unknown type.
* Spawning needs a free task slot: a model with fewer slots than the code has
  tasks only delays clients.

### Fairness

* `WsPool`: weak fairness on each refill task and on warmup. They are spawned
  on the runtime and every dial in them is under `ws_connect_timeout`. Clients
  and the clock owe nothing.
* `Route`: weak fairness on the steps a connection takes by itself. Every dial
  is under a timeout, except the wait of `drain_faketls_server_hello`
  (`UpstreamHello`), which therefore gets none.
* `Bridge`: weak fairness on each of the three tasks, which the runtime polls
  whenever they can go on. Peers need neither send nor read nor close.
* `Main`: weak fairness on the fetch, on the check and on the step between
  them, where every wait is under a timeout and the silent server is one of its
  outcomes; on the accept loop; and on each client task's own steps
  (`Proceed`), handshake included, which is under the handshake timeout. What a
  peer has to bring about (`Peer`: the end of a session, of a drain, of a dial)
  gets none, and `WaitsOnlyForCapacity` names exactly these.
* `Hop`: weak fairness on the server's reading and on an own client's
  handshake, code that goes on whenever its input is there. Peers, scanners,
  cuts, Telegram's side and the handshake timeout owe nothing.

`CHECK_DEADLOCK FALSE` is used where the modelled activity ends: a session
(`Bridge`) and a walk (`WsConnect`).

## 4. Properties, by component

* Pool: what is handed out is usable and freshest; descriptors stay within the
  reservation of `limits.rs`; the `refilling` set neither leaks a key (the bucket
  would never be refilled again) nor loses one (clients would dial in parallel).
* Ladder: `ImplementsLadder` says that whatever the other connections do to the
  cooldowns, one connection passes the tiers in the documented order, none
  twice, none jumped, raw TCP only after all, and an address stepped over is
  asked again before raw TCP. `HeldOnlyByHello` says the walk ends, and names the
  single exception.
* Cloudflare tiers: at most one spare per bucket, opened only through hosts that
  have answered.
* Hostname walks: how often each record is tried; that a zone's records,
  retries included, come before those of zones listed after it; that a timed-out
  record is dialled again only when its own turn comes after the forced one; and
  what the ladder is told.
* Bridge: what the remote accepted is a prefix of what the client sent, under
  every cut, failure and cancellation; messages are packets; the logged totals
  are final; a closed side ends the session unless a write is blocked.
* Link: both directions are pipes through all layers (`ImplementsUpPipe`,
  `ImplementsDownPipe`), no keystream byte covers two bytes on the link or on the
  way up to Telegram (`KeystreamOnce`; the way down is encrypted by Telegram),
  Telegram is asked for the DC and protocol the client named (`DcKept`), who does
  not know a secret or names another host gets nothing to or from Telegram and is
  sent nothing, and between two instances of the program everything sent arrives
  (`OwnStreamArrives`). `StrangersGetNothing` has one exception, which the code
  has: `parse_faketls_client_hello` compares 28 bytes of the HMAC and does not
  look at the timestamp in the other four, so a hello that was recorded is
  accepted again and answered with a ServerHello. The property says that this is
  all its sender is sent.
* Default domains: the whole published list or the built-in one, never a part
  (`WholeListOrBuiltin`); nothing that fits the limits is refused
  (`AcceptableUsed`); the buffers stay within them (`BufferBounded`).
* Check: exit code 0 exactly when every endpoint the server would use passed
  (`VerdictHonest`). Start-up ends whatever the peers do (`StartupEnds`).
* Accept loop: no permit is lost or made (`PermitsKept`); a cap within the budget
  means no `EMFILE` (`BudgetSuffices`); a client stays in the backlog for ever only
  if every permit is pinned by a session, a drain or a dial, or, beyond the
  budget, descriptors run out again and again (`WaitsOnlyForCapacity`).

## 5. Proofs

Every theorem below holds for all values of the constants that satisfy the
named `ASSUME`s; every step is checked by TLAPS. Each paragraph names the
property, the inductive invariant and why the property alone is not inductive.

### `WsPoolProofs`: the direct pool

For every set of DCs, clients and tasks and every pool size, age and clock
bound: `TypeCorrect` (`[]TypeOK`), `GuardIsExact` (`[]GuardExact`),
`FdBudgetHolds` (`[]FdBudget`), `RefillsKeepSize` (the action property
`RefillKeepsSize`) and `FreshestFirst` (`HandsOutFreshest`).

`FdBudget` is not inductive: a refill that measured its room before warmup
pushed is about to push as well. The invariant `IInv` therefore adds

* `KeyOK`: tasks that run have a bucket's key;
* `GuardExact`: at most one refill of a bucket is past its registration;
* `Counts`: a bucket holds at most `PoolSize` connections while it is still in
  `warm.todo`, and at most `2 * PoolSize` afterwards; a refill never has dialled
  more than it measured room for, and what it measured plus what the bucket had
  is within the bucket's cap. Warmup's single push into a bucket is paid for by
  the bucket leaving `warm.todo`.

`HandsOutFreshest` needs `Sorted`: a bucket is in the order its connections were
pushed and none is younger than the clock, so whatever lies above is fresher.

### `RouteProofs`: the ladder

For every set of connections and DCs, every configuration of the tiers, any
number of upstreams and every duration of the cooldowns: `RouteTypeCorrect`
(`[]TypeOK`) and the refinement `RouteImplementsLadder`
(`Spec => ImplementsLadder`). The invariant says of one connection, whatever the
others do: `PhaseOK`, who called the fallback chain; `TryingOK`, which dial it is
waiting for; and `PassedExactly`, that the tiers it has passed are those told by
its place in the code. With these every step of `select_upstream` is a step of
`Ladder` or leaves it alone, and steps of other connections only write
cooldowns, which `Ladder` does not have.

### `CfPoolProofs`: the Cloudflare tiers

For every set of clients, refill tasks and DCs, every list of Workers and zones,
with and without balancing: `CfTypeCorrect` (`[]TypeOK`), `CfBudgetHolds`
(`[]CfBudget`) and, without balancing as the property says, `SparesAreKnown`
(`[]SparesKnown`). The run `cf_budget` fixes `--pool-size 2`; the theorem holds
for every size, zero included, where it says that nothing is opened in the
background at all. The inductive invariant adds

* `WellFormed`: types, a DC for every connection inside the tiers, and a domain
  to dial for every connection that is about to dial one;
* `OneRefill`: of the refills of a bucket one at a time is past its
  registration;
* `RoomKept`: from the check until the push, the bucket has room for the spare
  being opened. Clients only take from buckets (`Quiet`), so nobody but the one
  registered refill can use that room up;
* `Known`, for `SparesKnown`: the target of every refill that runs, and of every
  spare kept, has answered.

### `WsConnectProofs`: the hostname walks

For every list of zones, listed twice or with `-1.` in their names, any set of
them bypassing the proxy, and every outcome of every dial: `WalkTypeCorrect`
(`[]TypeOK`), `AttemptsAreCounted` (`[]AttemptsPerRecord`),
`ZonesAreDialledInOrder` (`[]ZoneByZone`), `FlagsAreHonest` (`[]FlagsTellHow`)
and `TimedOutIsNotForced` (`[]TimedOutNotForced`). The properties speak of the log
of dials only; the invariant relates it to the state of `CfAttempts`:

* `ListOK`: the queue is at most one forced retry followed by what is left of
  the list, and `tried` is the part of the list before it;
* `TurnOK`: what is being dialled, or forced to be next, is the retry of the
  lookup that just failed and has not timed out, or has its own turn now;
* `TurnsTaken`, `TimesKept`, `ZonesOpened`: every dial was a turn or a forced
  retry, `timed_out` is what ran out the clock, and a zone that was dialled has
  had a turn.

On top of it, `ZonesInOrder` for the order, `FlagsOK` for the flags and
`DialsOK` for the counts: one turn per listed record, a missing record followed
by its retry, and nothing left untried when the walk gives up.

### `BridgeProofs`: sessions and the splitter

For every set of framed streams, every read size, list of messages and kind of
session: `BridgeTypeCorrect` (`[]TypeOK`), `StreamReachesRemote`
(`[]RemoteSeesStream`), `TotalsAreHonest` (`[]TotalsHonest`) and
`PacketPerMessage` (`[]OnePacketPerMessage`). The invariant is `Adjacent` (what
is on the wire, what `split` has cut and what it keeps are adjacent pieces of
the encrypted stream), `UpCounted` and `DownCounted` (what each counter lacks or
has too much, in each state of its task) and `Joined` (totals are logged when
neither task will count any more).

What `split` returns is proved from its definition without induction over data:
a packet boundary is the end of a packet of the stream, the loop's next cut is
the least end after the last one, and a claim about all cuts is proved at the
least place where it could fail. The length parsers are shown to agree with the
packet formats for every header length and every size up to the formats' limits.
`BridgeAssumption` says that a stream is `Framed`: it begins with whole packets of
its format, and anything may follow the last of them.

### `HopProofs`: the link through both layers

For every layout of the init, every record size, set of secrets, host, link,
write size and set of probes: `HopTypeCorrect` (`[]TypeOK`), `StrangersAreSilenced`
(`[]StrangersGetNothing`), `KeystreamIsUsedOnce` (`[]KeystreamOnce`), `DcIsKept`
(`[]DcKept`) and the two refinements `UpIsAPipe` (`Spec => ImplementsUpPipe`) and
`DownIsAPipe` (`Spec => ImplementsDownPipe`). All rest on `HopInvariance`
(`Spec => []Holding`): `Inv` for a client's link, `ScanInv` for a scanner's.

The encrypted stream of either direction is a function from places to bytes,
fixed by the link alone (`UpStream`, `DownStream`). `Inv` says where everybody is
in it:

* `UpOK`: there are two places `a <= b` such that the server has taken the stream
  up to `a` (forwarded, pending, or filled into its init), the wire carries the
  piece from `a` to `b` (`LaidOut`: cut into records in any way, with skipped
  records between them), and what the client has yet to frame begins at `b`.
  `DownOK` is the same for the other direction;
* `CliOK`, `SrvOK`: the ciphers of both ends stand at the same place of one
  keystream, so decryption gives back the plain bytes; `DataOK`: what arrived is
  a beginning of what was sent;
* `ReadOK`: no record on the wire is taken for the end of the stream unless the
  client broke the framing. For own records it follows from the sizes
  `write_tls_appdata` cuts (`WriteFacts`);
* `PhaseOK`, `EofOK`: how far the two sides can be apart in the handshake, and
  what the end of a stream means;
* `PadsOK`: every keystream byte used is of one of three keystreams, below the
  place where its cipher stands. The three differ because a prekey and its
  reverse do, and a hashed key is no raw one. A cipher that only moves forward
  then never uses a byte again;
* `StrangerOK`: a stranger's session never begins. For the plain handshake it
  rests on the parse of an init under another secret, which finds no tag.

A scanner has no stream. `ScanInv` says that the wire carries records or bytes of
its own, in front of them the first while the server waits for a hello; that what
is filled into the init is its own too, so that no secret opens it
(`ProbesRejected`) and the server ends in the drain; and that the way down carries
nothing, or the ServerHello when the first record was a recorded hello
(`OnlyReplayed`). No number of records is assumed, `MaxProbes` is any.

The refinements follow: a step that moves `a` is a `Receive` of the pipe, the
end of a session is an `End` because `a = b` is then the end of the client's
stream, and everything else is the `Sender`'s or invisible.

### `AcceptProofs`, `MainProofs`: the process

`AcceptProofs`, for every set of clients, finite or not, every descriptor limit,
pool size and `--max-connections`: `AcceptTypeCorrect`, `PermitsConserved`
(`AcceptSpec => []PermitsKept`) and `BudgetIsEnough`
(`AcceptSpec => []BudgetSuffices`). `PermitsKept` needs two companions to be
inductive:

* `QueueOK`: the backlog holds each waiting client once and nobody else, so that
  an accept adds a holder and an aborted connection does not remove one;
* `Counted`: finitely many clients hold a permit, so that they can be counted.

`BudgetSuffices` then follows by arithmetic: a holder has at most two sockets
(`SocketFacts`), within the budget two descriptors per permit fit beside the
reserved ones (`BudgetFacts`), and whoever is about to open a descriptor has not
yet used one of these: the loop holds a permit no client has, a routing client
has no outbound socket yet, and a pool that may dial is below its share.

`MainProofs` carries this over to the composed process: `MainImplementsAccept`
(`MainSpec => AcceptSpec`), from which `MainKeepsPermits` and
`MainStaysInBudget` state both properties for `MainSpec`, the specification of
the run `main`. For the parts before serving it adds `MainTypeCorrect`
(`[]TypeOK`), `FetchStaysBounded` (`[]BufferBounded`) and `CheckTellsTheTruth`
(`[]VerdictHonest`), for every set of responses, conforming or not, and every
list of endpoints.
`StartInv` is `FetchOK` (the readers hold tokens within their limits) and
`CheckOK`: while `--check` runs, what was probed and what is left make up the
endpoints of the zones the fetch settled on, and `allOk` sums up the former.

What the fetch ends with is the subject of `FetchedListIsWhole`
(`[]WholeListOrBuiltin`), `FittingListIsUsed` (`[]AcceptableUsed`) and, for what
the check and the server then work with, `DomainsAreWhole` (`[]DomainsSettled`,
which is stated there, as it follows from the first at the one step that takes
the result over).
They hold for every alphabet, every limit, reads of any size, and any number of
headers, names, chunks and trailers. The invariant is `FetchReads`:

* `Holds`: the buffer and what has not been read are together the stream the
  server sends, from its first byte (`Sent`) or from the first byte behind the
  headers (`Behind`), up to where it cuts it off;
* `AtChunk`: the chunk reader stands on the size line of some chunk k, and what
  it has decoded is the content of the chunks before k. A chunk is one step of
  the reader, so the induction over the chunks is the one over the steps: a size
  that is right leads to the line end of chunk k and from there to chunk k + 1;
* `Decoded`: in the trailers all of the body is decoded, or nothing.

It rests on lemmas about the places of the tokens (`SentPlaces`, `PlainPlaces`,
`ChunkPlaces`, `ChunkedPlaces`; `OneChunk` says that a place belongs to one
chunk) and on `ParsedBody`: `deobfuscate` undoes the maintainer's shift
(`Deobfuscated`), as the shifted name has as many letters as the name and a
remainder is unique (`ShiftedBack`). For `AcceptableUsed` every failing branch of
a reader is shown to be closed to an acceptable response: the token it waits for
lies within the limit and has not been cut off.

### Assumptions

* `WsPool`, `CfPool`, `Route`: sizes, times and durations are naturals, lists are
  sequences, keys and tiers are of the kinds the code has.
* `ZonesAssumption`: there is a zone, as the walk is only entered with one, and
  the zones with `-1.` in their names are among them. The model also takes the
  names outside the zones to be no zones themselves: no configured zone is
  another with its `-1.` cut out.
* `BridgeAssumption`: streams are framed, messages are not empty.
* `LayoutAssumption`, `RecordAssumption`: prekey and IV have a length, a record
  can carry an init. `HopAssumption`: DC indices are of 16 bits, writes are not
  empty. `ProbeAssumption`: a scanner's bytes are under no keystream of a known
  secret, which only who has the secret can make. A recorded hello is none such
  byte and is allowed; a recorded init is one, and who sends it is to the server
  the client who made it, a link with that secret.
* `FetchAssumption`, `ResponseAssumption`, `CheckAssumption`, `MainAssumption`:
  limits are naturals, responses are made of tokens, lists are sequences.
* `ListAssumption`, used only by the three theorems on what the fetch ends with:
  `list` names what the body publishes (`Published`), and the framing tells where
  the body ends or is wrong in a way that shows (`Framed`). This leaves out
  responses no reader of HTTP can tell from one with a shorter or another list: a
  `Content-Length` short of the body or reaching into what follows it, a body
  ended by the close of the connection and closed early, an empty chunk in the
  middle of the list, and a wrong chunk size that happens to be followed by a
  line end. A connection that breaks, a length that is never reached, a size that
  is no number, too small or too large, and conflicting headers are all covered.
* `LimitAssumption`, and `MarginAssumption`: the runtime's own descriptors and
  the Cloudflare spares (one per tier, DC and media flag) fit into
  `RUNTIME_RESERVED_FDS`, which is 32. It is an assumption because `limits.rs`
  does not mention the spares.

### Only model-checked

Liveness (`RefillReleases`, `HeldOnlyByHello`, `ClosedSideEndsSession`,
`StartupEnds`, `WaitsOnlyForCapacity`, `OwnStreamArrives`), because the proof
system does not treat fairness. Every safety property and every refinement that
a passing run checks are proved as well.

## 6. Where code and text disagree

Each of these runs finds its counterexample; the lines are quoted under
`findings` in `PROJECT.json`.

* `route_silent_upstream`: a FakeTLS upstream that accepts the connection and
  never answers the ClientHello holds the client in the ladder for ever.
* `route_short_probe`: `WS_FAIL` is read twice. A connection that reads it before
  and after another one sets it dials with the short probe timeout but cools the
  address down as after a full one.
* `cf_bare_zone`: with `--cf-balance`, the proxy tier's refill dials the bare zone
  instead of a `kws{N}` record.
* `cf_turns`: with `--cf-balance` and two domains, the spare takes every second
  turn of the shared counter, and consecutive connections that dial start with
  the same domain.

Observations without a run of their own, met while modelling:

* Warmup pushes without measuring (`pool.rs:309`), so a bucket can hold up to
  `2 * pool_size` connections, while `pool.rs:8` speaks of `pool_size`. The
  descriptors still suffice (`FdBudget`).
* A hit that lands while a refill of its bucket is past its measurement loses
  its own refill (`pool.rs:330`); the next `get` makes up for it.
* The sticky fronting window (`proxy.rs:1039`) is process-wide and does not ask
  the DC's own `FRONTING_FAIL` entry (compare `docs/Fallbacks.md:210-211`).
* A fronted attempt begun before another connection's success and failing after
  it closes the window that success opened (`proxy.rs:1057`); likewise a connect
  timeout that arrives after another connection to the address succeeded puts
  the address into cooldown although it works (`proxy.rs:1091`). No document
  promises anything for these orders.
* A fronted success leaves `IP_FAIL` as it was (`proxy.rs:1165`; compare
  `docs/Fallbacks.md:16` and `:56`).
* An upstream whose cooldown ends during the re-probe is not tried before raw
  TCP, although the comment at `proxy.rs:713-715` says that nothing can have
  revived it.
* `tcp_last_resort` prefers the built-in address because the `--dc-ip` address
  "failed by timing out" (`proxy.rs:1229`); it is also reached after redirects and
  refused connections.
* With `--cf-balance` a spare can go to a Worker that has not answered yet
  (`proxy.rs:787`; compare `pool.rs:285`), which is why `SparesKnown` is checked
  without it.
* `closed_by` says "client" when the upload ended because a send to the remote
  failed (`proxy.rs:1340`; compare the comment at `proxy.rs:1786`).
* A client that closes is not noticed while the upload waits in a write to a
  remote that does not read; the comment of `join_bridge` speaks of the other
  direction only. This is the exception in `ClosedSideEndsSession`.
* `base_cf_record` (`ws_client.rs:473`) looks for `-1.` anywhere in a name. For a
  zone with `-1.` in its own name the base record has a base too; when neither
  the `-1` nor the base record has a DNS entry, the walk cuts the zone's name and
  dials a host of no configured zone, although `ws_client.rs:469` says that the
  base is that of a `kws{N}-1` record "if `domain` is one", `ws_client/tests.rs:33`
  that such a domain "keeps its own labels intact" and `ws_client/tests.rs:394`
  that the queued base record "has no `-1.` label, so it cannot queue another
  retry". In the model it is dialled right after the base record and never
  through a proxy (lemma `OutsideAfterBase` of `WsConnectProofs`).
* A FakeTLS hello has no age and may be sent again (`faketls.rs:249-255`); no
  document promises otherwise. This is the exception in `StrangersGetNothing`.
* For a media DC the base record's forced attempt is its first; when it times
  out, the record's own turn dials it once more (`ws_client.rs:556` guards only
  the forced one). This is the exception in `TimedOutNotForced`.
* Behind an outbound proxy a missing record is reported in the proxy's words,
  which `is_dns_not_found` (`ws_client.rs:340`) does not recognise: the base
  record is then not retried out of turn.
* A Worker whose tunnel is closed later than `WORKER_TUNNEL_SETTLE` passes
  `--check` (`check.rs:153`); `VerdictHonest` counts it as healthy, as the code
  does.
* The drain of a bad handshake (`proxy.rs:450`) has no timeout and keeps its
  permit. It is one of the three exceptions in `WaitsOnlyForCapacity`.
* `--max-connections 0` is accepted and serves nobody: the loop waits for a
  permit that does not exist. The floor of `MIN_MAX_CONNECTIONS` applies to the
  computed cap only, and under a very tight limit exceeds what the descriptors
  allow.
* The Cloudflare spares are not part of the descriptor budget; they fit into the
  margin for the runtime (`MarginAssumption`).

## 7. What is not modelled

* Inside the modelled parts: the bytes of TLS, HTTP and WebSocket frames; the
  byte layout of the FakeTLS hellos (their HMAC and host name are fields of a
  record); the values AES and SHA-256 compute, and the prefixes the random init
  avoids; the HTTP CONNECT and SOCKS5 exchanges of the outbound connector, which
  are library calls; the spare capacity of the splitter's buffers; log messages,
  the banner and the report of `--check`; the `Media` dimension of buckets beyond
  one value in the runs (nothing but the key depends on it).
* `config.rs`, `outbound/config.rs`: parsing and validation of options, URLs and
  environment variables. They keep no state; their results are the models'
  CONSTANTS, and there is nothing in them for a model checker to interleave.
* `openwrt/`: service scripts and a settings page.

## 8. Plan

Modelled and checked: every component that keeps state. Proved: every safety
property and every refinement of the passing runs. What is left:

1. Shorter proofs where lemmas of `HopProofs`, `BridgeProofs` and `MainProofs` on
   pieces of sequences say the same.
