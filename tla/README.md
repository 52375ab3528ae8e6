# TLA+ models of mc-proxy

mc-proxy ("Basileia proxy") is a Minecraft 1.20.4 reverse proxy. For each
accepted TCP connection it checks bans, reads the handshake, serves status
requests or admits a login, opens a connection to the backend server and then
relays frames in both directions. While relaying it decodes each frame for its
side effects (protocol state, compression, who logged in). It also diverts
command requests that the backend sends on the plugin channel
`basileia:proxy`, answers them from the ban/whitelist repositories and
injects the responses toward the backend.

This directory holds the TLA+ modules that model the system, the TLC
configurations that check them, and `PROJECT.json`, which lists the
components, runs, mutants, the source lines each definition models, the
findings and the hazards.

## Inventory of the system

| Part | Source | State | Operations | Interactions |
|---|---|---|---|---|
| A VarInt codec | `minecraft-protocol/src/decoder.rs` (`read_signed_var_int!`, `var_int::decode`), `minecraft-protocol/src/tokio.rs` (async reader); the encoder `encoder.rs` is not in the tree | none | read_var_i32, read_var_i32_async, var_int::encode | used by `read_packet` for frame lengths and by every decoder |
| B Field codec | `minecraft-protocol/src/decoder.rs` | none | read_string, read_byte_array, UUID, rest | used by every catalog decoder |
| C Framing codec | `minecraft-protocol/src/codec/codec.rs` | `received_buf`, `compression`, `crypt_key`, `compression_target` | accept, next_packet, encode | owned by the session codec |
| D Packet catalog | `minecraft-protocol/src/packet/*.rs` | none | EnumDecoder / EnumEncoder per state and direction | decides which ids decode and which fail |
| E Session codec | `codec/client.rs`, `codec/server.rs`, `src/state.rs` | protocol state plus one framing codec per direction | decode, set_state, set_compression | shared by the two relay tasks under RwLocks |
| F Connection pipeline | `src/server.rs`, `src/handler/*.rs`, `src/utils/mod.rs` | per connection: sockets, login_info | handle_conn, handshake, status, login start, handle_proxy, handle_server, handle_client | reads and writes the global online table and the repositories |
| G Command tap | `src/commands/*.rs` | two mpsc channels of capacity 3 | proxy_command_events, handle_command_data, handle_command | fed by handle_server; its responses are written by handle_client |
| H Shared state | `src/state.rs` | online-player map (name to uuid), server description | add/remove/exists online player | shared by all connections |
| I Repositories | `src/repository/*.rs` | SQL tables: bans with expiry, whitelist, key-value | is_banned (lazy expiry delete), add_ban, remove_ban, get_bans, whitelist add/remove, kv set/get | called concurrently by every connection and every command |

Hard behaviours the code is exposed to:
- Three tasks per connection run in one `select!` and share the codecs. The
  client task itself `select!`s between a channel receive and a socket read
  that is not cancel-safe.
- A frame whose body fails to decode is never removed from the codec buffer.
- Compression switches mid-stream and applies to both directions.
- The global online table is keyed by name. Login checks it long before
  LoginSuccess inserts into it, and teardown removes by name.
- The ban repositories expire bans lazily, with a read and a delete that are
  separate statements.

Properties that make each part correct:
- The relay forwards every byte it does not divert, in order (spec sections
  4.F and 5).
- The codecs agree with the peers on state and compression.
- Every command gets an answer.
- At most one session per username, and the online table matches the live
  sessions.
- A ban, once added and unexpired, is seen by later checks.
- The VarInt and framing codecs round-trip (spec section 8).

## Modules

### ProxyRelay (`ProxyRelay.tla`, checked through `MCProxyRelay.tla`)

This module models one proxied connection from the moment `handle_proxy`
starts. It covers components C, E and F (the proxy part), plus the
receive/respond loop of G.

State:
- Four TCP streams, `c2p`, `p2s`, `s2p` and `p2c`. Each is a sequence of
  frames `[pkt, fmt]`, where `fmt` is the framing (`plain` or `zlib`) the
  frame was written with.
- The two codecs: `cState`, `sState`, `cZip`, `sZip`, and the receive buffers
  `cBuf` and `sBuf`.
- `loginInfo`.
- The tasks:
  - `crFut`: handle_client's pending `read_packet` has read the length.
  - `srHeld`: a request handle_server is blocked sending.
  - `cmdHeld`: a request proxy_command_events is handling.
  - `reqQ` and `respQ`: the two channels.
  - `alive`: the `select!` of handle_proxy has not returned.

Actions and the code they model:

| Action | Code |
|---|---|
| `ServerRelay` | one iteration of `handle_server`: decode, the match, and `write_all` of the raw frame unless it `continue`s or `break`s |
| `ServerSendRequest` | `request_sender.send(...).await`, which blocks while the channel is full |
| `ClientReadLength`, `ClientRelay` | `read_packet` reading a frame length and then its body, followed by decode and the state switches |
| `ClientRecvResponse` | the other branch of handle_client's `select!`. It writes the response with uncompressed framing. A length already read by the cancelled `read_packet` is lost, so the rest of that frame reaches the backend as `Garbage`. |
| `CommandRecv`, `CommandRespond` | `proxy_command_events` |
| `ServerEof`, `ClientEof`, `Closed` | a task returning and the `select!` tearing the connection down |

`Decode` models `next_packet` together with the per-state catalog dispatch:
- A frame framed differently from the codec's compression setting decodes to
  an error or to a harmless packet.
- A frame sent in another state decodes to whatever the catalog makes of its
  id (`Misread`). For example, AcknowledgeFinishConfiguration is read from any
  bytes with the right id, because it has no body.
- `Advance` keeps the frame in the buffer when decode fails, as the `?` before
  `split_off` does.

The client and the backend are the environment. They follow the 1.20.4 login,
configuration and play sequence:
- The backend optionally sends a LoginPluginRequest and waits for the answer,
  optionally enables compression, and sends LoginSuccess. It sends
  RegistryData and keep-alives, then FinishConfiguration, and then game
  packets and at most `MaxCmds` command requests.
- Each endpoint parses frames with its own compression flag, and closes when
  it cannot parse one.

Fairness: every proxy action is weakly fair, and so are the endpoints'
receive actions. tokio polls every ready task, and `select!` picks among the
ready branches at random, so a continuously enabled branch is eventually
taken. The endpoints keep reading their sockets. Sending is not fair: a client
may stay in Play forever.

### ConnectionPipeline (`ConnectionPipeline.tla`, checked through `MCConnectionPipeline.tla`)

This module models `Server::handle_conn` for several concurrent connections
and the process-wide online-player table they share (components F and H). Each
connection has a `pc`. Every step ends at an await, so other connections run
between any two steps:

| Action | Code |
|---|---|
| `IpCheck` | `ip_bans.is_banned(address.ip())`: a ban or a repository error ends the connection |
| `Handshake` | `handle_handshake` and the match on `next_state`: status, login, or close (bad handshake, protocol version other than 765) |
| `StatusRequest`, `StatusEnd` | `handle_status`: the response reports `online_players.len()`; ping, EOF or an error ends the loop |
| `LoginStart` | `handle_login_start`: read and decode, refuse a name already in the online table |
| `BanCheck` | `user_bans.is_banned(name)`: banned or error ends the connection |
| `Connect` | `handle_proxy`: connect to the backend, forward Handshake and LoginStart |
| `LoginSuccess` | `handle_server`: write `login_info`, drop its lock |
| `AddOnlinePlayer` | the following `add_online_player(...).await` |
| `LoginAcknowledged` | `handle_client` switching the codecs to Configuration |
| `DecodePanic` | a panic in the client codec while it is still in Login (see below) |
| `Teardown` | the `select!` returning, and `remove_online_player(login_username)` |

The online table holds names only. The code stores the uuid too, but no
property depends on it. The backend is assumed to answer a LoginStart with a
LoginSuccess for the same name. The ban repositories' contents are fixed here:
their concurrency is the subject of BanRepository.

`DecodePanic` comes from the field codec. `read_byte_array` casts the i32
length to usize, so a negative length panics in `vec![0; length]` (capacity
overflow). In the Login state the client codec decodes EncryptionResponse,
which has two byte arrays. The panic unwinds the spawned connection task
(tokio's default `panic = "unwind"` is assumed; no Cargo.toml is in the
repository), so the teardown after the `select!` never runs.

### FrameCodec (`FrameCodec.tla`, checked through `MCFrameCodec.tla`)

This module models both byte paths of one proxied connection, from Login
through Configuration to Play (components A, B, C, D and E, and the relay
loops of F). A backend and a client write framed packets. `handle_server`
and `handle_client` each read a frame with `read_packet`, decode it with
their codec's `next_packet` and the catalog of the codec's direction and
state, and forward it. Two things couple the directions:
- the packets that change the connection switch both codecs (state.rs):
  SetCompression and FinishConfiguration from the backend,
  LoginAcknowledged and AcknowledgeFinishConfiguration from the client;
- each end reacts to what the proxy forwarded to it.
`handle_server` diverts proxy commands to the request channel.

The two loops run as two tasks of one `select!`. When either returns, the
other is dropped, so one `closed` flag ends both. The command-response branch
of `handle_client` and the request channel's consumer are in ProxyRelay, not
here.

State:
- The backend: `sentBytes`, `sent` and `frames` (its byte stream, the
  packets it framed, each packet's frame); `peerComp`, its compression
  threshold; and `peerSt`, its state, with `awaitPlugin`, `ackLogin` and
  `ackConfig` for its waits after a LoginPluginRequest, LoginSuccess and
  FinishConfiguration.
- The client: `cSentBytes`, `cSent` and `cFrames`; `cComp`; `cSt`; and
  `recv` with `cIn`, the packets forwarded to it and how many it has
  handled.
- handle_server and the server codec:
  - `rd` and `nrd`: the bytes and frames read;
  - `buf`, `zt`, `comp` and `cst`: `received_buf`, `compression_target`,
    `compression` and `state`;
  - `got`: the packets returned;
  - `fwd`: the bytes written to the client;
  - `reqs`: the command payloads.
- handle_client and the client codec: `crd`, `ncrd`, `cbuf`, `czt`,
  `ccomp`, `ccst`, `cgot`, and `srvIn`, the bytes written to the backend.
- `closed`: `handle_proxy`'s `select!` has ended.

Operators and the code they translate:

| Operator | Code |
|---|---|
| `VarIntLoop`, `Group` | `read_signed_var_int!`: seven bits per byte, `overflowing_shl` at width 32, so the fifth byte keeps its low four bits and bit 31 is the sign. `num_read > 5` is checked after the OR. |
| `ReadVarInt`, `ReadVarIntAsync` | `var_int::decode` and the async reader of `tokio.rs` (the same loop) |
| `Field`, `Width` | `read_string` (`length as usize > max`), `read_byte_array` (a negative length panics in `vec![0; length]`), `read_bool` (`NonBoolValue`), UUID, `u8`, `u32`, `u64`, VarInt and `rest` |
| `LoginClientBound`, `LoginServerBound`, `ConfigClientBound`, `ConfigServerBound`, `Catalog`, `Known`, `Kinds`, `PlayPluginId`, `ReadFields` | the `EnumDecoder`s of both directions: the Login and Configuration catalogs with each packet's fields and string maxima (an unknown id is an error), and the Play catalogs (0x18 client-bound and 0x10 server-bound plugin messages, every other id `Other`, its body unread) |
| `Decode` | `ServerPacketCodec::decode` and `ClientPacketCodec::decode`: the type id VarInt (`try_into` a `u8`), then the catalog of the codec's state |
| `ReadPacket` | `read_packet(reader, true)`: length, None for a length <= 0, `read_exact`, and the length re-encoded in front |
| `NextPacket` | `next_packet`: the length VarInt, `data_length` under compression, inflate appended to `compression_target`, decode, `split_off`, and the clear of `compression_target`; a decode error returns before the last two |
| `SetState`, `SetCompression` | `ConnectionSharedState::set_state` and `set_compression`, on both codecs |
| `HandleServer` | one iteration of `handle_server`: read, decode, a negative SetCompression `break`, `set_compression`, `set_state(Play)` on FinishConfiguration, a plugin message on `basileia:proxy` in Play sent to the request channel and skipped by `continue` (`Diverted`), otherwise `write_all` |
| `HandleClient` | one iteration of `handle_client`'s read branch: read, decode, `set_state(Configuration)` on LoginAcknowledged, `set_state(Play)` on AcknowledgeFinishConfiguration, `write_all` |

`set_state` and `set_compression` write the client codec and then the server
codec, each under its own lock. The model makes the two writes one step.
Nothing of the new state is on either wire before both writes are done: the
frame that makes the other end switch is forwarded only after them.

The encoder (`encoder.rs`) and zlib (`flate2`) are not in the tree. The
ends of the connection are modelled from spec sections 4.C and 4.F and
marked spec-modelled:
- the framing: `VarIntEnc` (an unsigned shift, so a negative value takes
  five bytes), `EncodeField`, `Body`, `Frame`, and a zlib stream (`Deflate`,
  `Inflate`) that keeps only what framing depends on (a two-byte header and
  the payload);
- the backend (`CanSend`, `Send`, `PeerAfter`): it sends packets of its own
  state, and waits for the answer to a LoginPluginRequest and for the
  client's acknowledgement after LoginSuccess and FinishConfiguration;
- the client (`Answer`, `ClientReceive`, `ClientSpeak`), a vanilla client:
  - it handles forwarded packets in order;
  - it answers LoginPluginRequest (not understood), KeepAlive and Ping;
  - it acknowledges LoginSuccess and FinishConfiguration;
  - it frames with the threshold of the SetCompression it has received;
  - it sends ClientInformation, a brand message, a plugin message and an
    `Other` of its own accord.

Values are 32-bit: TLC's integers are the same width, and `-2^31` is written
`-2147483647 - 1`.

### BanRepository and BanStore (`BanRepository.tla`, `BanStore.tla`, checked through `MCBanRepository.tla`)

`BanStore` is the abstract ban table of spec sections 3 and 4.I:
- a ban is present until it expires or is removed;
- every call takes effect at one instant between invocation and return, or
  fails without effect;
- an expired ban may be dropped at any time (lazy expiry);
- `is_banned` judges the ban it finds active or expired at an instant
  between its invocation and the read (`pnow[c]..now`). Both repositories
  need this. `user_bans` compares with the `now` it read before the SELECT
  (line 144). `ip_bans` reads `Utc::now()` after the SELECT (line 245).

`BanRepository` models `SqlxUserBansRepository` and `SqlxIpBansRepository`
statement by statement. They run the same statements, keyed by name and by
address (`IpKeys`). They differ only in the clock `is_banned` compares with
(`ExpiryNow`): `callNow[c]`, read when the call began, for names, and the
clock after the SELECT for addresses. The model has a
clock, and callers whose calls interleave at every await. `Writers` are the
callers that issue `add_ban` and `is_banned`, the two calls that read a row
and then write depending on it; the others issue `remove_ban` and `get_bans`. The calls are:
- `add_ban`: `is_banned`, then UPDATE or INSERT;
- `is_banned`: SELECT, then a DELETE of an expired row;
- `remove_ban`: DELETE RETURNING;
- `get_bans`: SELECT of all rows.

Any statement may fail. The error of the lazy DELETE is ignored, as in the code.

BanRepository is shown to implement BanStore by
`INSTANCE BanStore WITH ...`, and `BanStoreRefined` is checked as a temporal
property. The mapping:
- The table maps to the abstract bans.
- A caller's call maps to the pending abstract call.
- An `is_banned` that has found an expired row and is about to delete it maps
  to an abstract call that has answered None and not yet returned.

There are no migrations in the repository. The model assumes the tables are
keyed by name (or address): an INSERT of a present key fails, and an UPDATE of
a missing row fails in `fetch_one`.

### IpBinaryData (`IpBinaryData.tla`, checked in the `bans` run)

`ip_bans.ip` is a byte column. Every statement of `SqlxIpBansRepository`
binds the address as `IpBinaryData(ip)`:
- `encode_by_ref` (`Encode`) writes the family tag 4 or 6, then the octets;
- `decode` (`Decode`) accepts 5 bytes with tag 4, or 17 bytes with tag 6,
  and returns an error for anything else, including an empty vector.

Each RETURNING clause, and `get_bans`, decodes the rows. A row that fails to
decode fails the whole call. BanRepository identifies a row with its address,
which is sound only if the encoding is a bijection onto what `decode`
accepts. `IpKeysFaithful` checks that, in every state where `ip_bans`
holds a row for an address:
- `decode` of the row's key returns that address;
- no other address of `MCBanRepository.tla` has the same key;
- `decode` accepts only bytes that `encode` can write, over the malformed byte
  vectors of `KeyVectors`.

The pass run's address key (`MCIpKey`) is `::ffff:4.0.0.6`. It is an IPv6
key, the 17-byte branch of `decode`, and its IPv4 form is also among the
addresses.

The addresses are IPv4 addresses at the octet extremes and their
IPv4-mapped IPv6 forms, `::`, and an IPv6 address whose first octet is the
tag byte 4. The IPv4 and IPv4-mapped forms of one address are distinct keys.
That matters for the listener; see Further observations.

### WhitelistCommands and WhitelistStore (`WhitelistCommands.tla`, `WhitelistStore.tla`, checked through `MCWhitelistCommands.tla`)

`WhitelistStore` is the abstract whitelist, a set of names plus the enabled
flag. In it, each whitelist command of section 4.G takes effect atomically.
SET_WHITELIST_ENABLED answers `changed = (previous == requested)`, the
semantics spec section 9 records.

`WhitelistCommands` models the whitelist arms of `handle_command` over
`SqlxWhitelistRepository` and the key-value row `whitelist.enabled`. Handlers
of different connections run concurrently. The multi-statement commands are:
- SET_WHITELIST_ENABLED: `is_enabled`, then `set_enabled`. `set_enabled` is
  `set_ttl`: `get_ttl`, then UPDATE or INSERT.
- WHITELIST_ADD_PLAYER: `is_whitelisted`, then INSERT.

The other commands are single statements. `WhitelistStoreRefined` checks the
refinement.

`SetCallers` limits SET_WHITELIST_ENABLED to one handler. With two, a SET can
answer from a value that the other SET overwrote before its write (handler.rs
line 147), which the atomic SET refuses. So the pass run does not reach the
`set_ttl` race either, in which two first-time SETs both INSERT (kv.rs line
167). Both races are listed as hazards without a property.

## Runs

| Run | Config | Expect | What it shows |
|---|---|---|---|
| relay | `MCProxyRelay.cfg` | pass | With bodies that decode, three things hold. (1) `ServerStreamIntact`: the client receives exactly the backend's stream minus the command messages, in order. (2) `ServerCodecInSync`: the server codec's state and compression always match what the backend encoded the frames in flight with. (3) `CommandsAnswered`: every command request the backend sends is eventually answered while the connection lives. |
| relay_lag | `MCProxyRelay_lag.cfg` | violation | When the NBT reader of a RegistryData may fail, the server codec keeps that frame and lags. After the switch to Play, a command message is forwarded to the client (`ServerStreamIntact`). |
| relay_cancel | `MCProxyRelay_cancel.cfg` | violation | A command response that completes handle_client's `select!` after the length of a client frame was read tears that frame (`ClientStreamIntact`). |
| relay_framing | `MCProxyRelay_framing.cfg` | violation | After SetCompression, the injected response is framed uncompressed (`FramingAgreement`). |
| bans | `MCBanRepository.cfg` | pass | One caller issues add_ban and is_banned over permanent and expiring bans while the clock passes them, and a second issues remove_ban and get_bans concurrently: `TypeOK`, `IpKeysFaithful` (the address key encoding), and `BanStoreRefined`, including lazy expiry at the boundary `now > expiration` and an UPDATE failing after a concurrent remove. |
| bans_lost | `MCBanRepository_lostban.cfg` | violation | Two callers with expiring bans: the lazy-expiry DELETE of one `is_banned` deletes a ban another caller wrote after the SELECT (`BanStoreRefined`). |
| bans_expired | `MCBanRepository_expired.cfg` | violation | An expired ban still makes UNBAN answer `changed = true`, and is still listed by GET_*_BANS (`ExpiredBansAbsent`). |
| pipeline | `MCConnectionPipeline.cfg` | pass | Three connections: every name in the online table belongs to a live session or to a task that panicked (`EntriesOwned`). So every orderly exit removes its name, including a `select!` that ends between `login_info` and `add_online_player`. |
| pipeline_dup | `MCConnectionPipeline_dup.cfg` | violation | Two connections with one name both pass the duplicate check before either LoginSuccess, and both play (`NoDuplicateSessions`). |
| pipeline_panic | `MCConnectionPipeline_panic.cfg` | violation | A client still in Login sends a negative array length, which panics the task after LoginSuccess. Its name stays in the table forever (`NoGhostEntries`). |
| whitelist | `MCWhitelistCommands.cfg` | pass | Two concurrent handlers, one of which may set the flag: `TypeOK` and `WhitelistStoreRefined`. The add check-then-insert race ends in an error response without effect. Only one handler sets the flag, so two SETs, and the `set_ttl` check-then-insert race, never overlap here. |
| framecodec | `MCFrameCodec.cfg` | pass | Both directions, from Login through Configuration to Play. Login values sit at the VarInt boundaries (128, -2^31). A 130-byte payload needs a two-byte length. Thresholds are -1, 0 and 3. Plugin messages go on the proxy channel and on two near-miss channels, in Configuration and in Play. The client answers and acknowledges, and sends packets of its own. `FramesIntact`: `next_packet` returns exactly the backend's packets, in order, each decoded with the catalog of its state, and an empty buffer once everything is read. `ForwardedIntact`: the bytes forwarded to the client are the backend's bytes minus the command frames, although `read_packet` re-encodes each length. `CommandsDiverted`: exactly the Play plugin messages on `basileia:proxy` reach the request channel, in order, with their data. `ClientFramesIntact`: the client's bytes reach the backend unchanged. The client codec decodes each client packet in the state it was sent in, never lags, and reads a Configuration packet still in flight at FinishConfiguration as a Play `Other`. |

Every property of a passing run has a mutant in `PROJECT.json`. A mutant is a
plausible bug in a mapped definition, and TLC must find the property violated
under it. The findings of the violation runs are in `PROJECT.json`.

## Bounds

ProxyRelay, in `MCProxyRelay.tla`:
- `MaxPlay = 1` game packet per side.
- `MaxCmds = 2` command requests.
- `ChanCap = 3`, the capacity in the code.

Two commands are enough to put a response in flight while another request is
diverted, and to make a cancelled read possible. The login sequence is
explored in every order the backend may choose. The run reaches about 74,000
distinct states.

BanRepository:
- one name and one address (`::ffff:4.0.0.6`) in the pass run, one name in the violation runs;
  two reasons;
- durations `{Never, 1}` and a clock up to 3 (2 for the lost ban);
- two callers, one of them a writer, in the pass run; two writers for the
  lost ban; one caller for the expired-ban answers.

Calls on different keys touch different rows, so one key of each repository
suffices. A clock
of 3 with duration 1 lets a ban be active, at its boundary, and expired. The
pass run reaches 1,401,584 states in about 105 seconds. It cannot have two writers with expiring bans:
that is the lost-ban race, which TLC then finds at once, even with a single
add_ban racing one is_banned.

IpBinaryData: eight addresses, as listed in its section. The malformed
vectors are the two tags followed by 3, 4, 5, 15, 16 or 17 copies of 0 or
255, plus the empty vector. `decode` looks only at the length and the tag,
and copies the octets, so these cover each of its branches at and next to
the accepted lengths.

FrameCodec, in `MCFrameCodec.tla`:
- Login: one of each Login packet with short fields, a LoginPluginRequest
  for the message ids 128 and -2^31, one with a 130-byte payload, and
  SetCompression with thresholds -1, 0 and 3;
- Configuration: a plugin message on each of three channels, KeepAlive,
  Ping and FinishConfiguration;
- Play: a plugin message on each channel with empty and two-byte data, and
  `Other` packets with ids 0 and 200 (a two-byte VarInt);
- the channels: `basileia:proxy` as two bytes, its one-byte prefix, and a
  three-byte name it is a prefix of;
- the client's own packets: ClientInformation and a brand message in
  Configuration, a plugin message and an `Other` in Play;
- `MaxFrames = 8` backend frames;
- `MaxPerState`: two Login packets besides LoginSuccess, and one each in
  Configuration and Play besides FinishConfiguration;
- `MaxClientFrames = 2` unprompted client packets.

Two Login packets let a SetCompression be followed by a compressed
LoginPluginRequest, whose answer the client then compresses. One
Configuration packet and two unprompted client packets give the race in
which a KeepAlive answer or a ClientInformation is in flight when
FinishConfiguration switches the codecs. The payload of 130 bytes gives a
two-byte frame length. Two packets in every state give more than six million
states, out of reach. The run reaches 739,695 states in about 80
seconds.

ConnectionPipeline:
- three connections, one of them IP-banned;
- three names, one of them user-banned.

Two connections with one name are what the duplicate race needs. The third
covers the IP ban and keeps a status reader next to the sessions. The pass run
reaches 2,010 states.

WhitelistCommands:
- two handlers and one name.

The add/remove/insert races need only one row. The pass run reaches about
62,000 states.

## Fairness

In ProxyRelay, every proxy action is weakly fair, and so are the endpoints'
receive actions. tokio polls every ready task, and `select!` picks among the
ready branches at random, so a continuously enabled branch is eventually
taken. The endpoints keep reading their sockets. Sending is not fair: a client
may stay in Play forever.

The other modules check only safety and refinement of safety (`[][Next]_v`
specifications), so they assume no fairness.

## Further observations

- **Whitelist enforcement.** Spec section 1 lists the whitelist among the
  policies the proxy enforces. The login path (`handle_conn`,
  `handle_login_start`) never reads it; only the commands do. Section 4.F's
  login steps do not list a whitelist check either. The code has nothing to
  model, so no module or hazard covers it.
- **Concurrent SET_WHITELIST_ENABLED.** Each SET reads the previous value and
  writes the new one in separate awaits. With two concurrent SETs, one can
  answer from a value the other has already overwritten. WhitelistStore's
  atomic SET refuses that trace, so the `whitelist` run lets only one handler
  set the flag. The race is listed as a hazard; every run slot is taken, so it
  has no violation run.
- **Stale compression_target.** `next_packet` appends inflated bytes to
  `compression_target` and clears it only after a successful decode. After a
  decode error, the next compressed packet is decoded from the stale bytes.
  FrameCodec models this, but its backend sends only well-formed
  protocol-765 packets, which the modelled catalogs all decode; the
  decode error itself is the `relay_lag` finding.
- **Dead AcknowledgeFinishConfiguration arm.** The client sends
  AcknowledgeFinishConfiguration only after it has received
  FinishConfiguration. handle_server forwards that packet only after its own
  `set_state(Play)`. So the client codec always decodes the acknowledgement in
  Play, as an `Other` packet with id 2, and the arm of `handle_client` that
  would switch to Play never matches. A temporary invariant run on FrameCodec
  found no decoded acknowledgement in any reachable state. Nothing is lost:
  the codecs are already in Play.
- **encode_compressed.** It writes `data_length` before the packet length,
  and computes the packet length from a cursor nothing writes to. The proxy
  never calls it (`write_packet` frames with `encode_packet`), so it is not
  modelled.
- **IPv4 clients behind an IPv6 listener.** `handle_conn` checks
  `ip_bans.is_banned(address.ip())` (server.rs:48). With the default
  `listen_addr`, 0.0.0.0:25565, every peer is IPv4. With `[::]`, a
  dual-stack socket reports an IPv4 peer as `::ffff:a.b.c.d`. That form
  encodes to a 17-byte key, so a BAN_IP of `a.b.c.d`, a 5-byte key, does not
  match it. `IpKeysFaithful` confirms that the two are distinct keys. No run
  models the listener's address family, so this is listed as a hazard.
- **Async VarLong reader.** `read_var_i64_async` stops after 5 bytes
  (`num_read > 5` is hard-coded in `tokio.rs`), while spec section 4.A allows
  10. No code calls it.
- **Async string reader.** `read_string_async` compares `length as u16`
  with the maximum, so a length of 65,536 + n passes as n. No code calls it
  either.

## Plan

Done:
1. **ProxyRelay**: one connection's relay, codecs and command loop.
2. **ConnectionPipeline**: several connections and the online table.
3. **BanRepository** with **BanStore**: the ban tables, lazy expiry and their
   refinement.
4. **WhitelistCommands** with **WhitelistStore**: the whitelist commands over
   the whitelist and key-value repositories.
5. **FrameCodec**: VarInt, field readers, the catalogs of both
   directions, `read_packet` and `next_packet` at byte level, with
   compression, the state changes of both loops and the command diversion.
6. **IpBinaryData**: the ip_bans key encoding, checked in the `bans` run.

Next:
7. A malformed-packet backend for the stale `compression_target`.
8. The project is at the limit of twelve runs. A new question needs either a
   merge of existing pass runs or a property added to an existing run.

## Not modelled

- The encryption path: the proxy never calls `enable_encryption`.
- Field layouts and string contents outside FrameCodec. In the other modules
  a packet is its type, and a name is a model value.
- The VarLong readers, the fixed-width integers other than `u8`, `u32` and
  `u64`, and NBT: no modelled packet uses them. ConfigDisconnect (its chat
  `Message` decoder is not in this tree), RegistryData and the resource-pack
  packets are read as one opaque field, and FrameCodec's backend never sends
  them. The Status and Handshake layouts are modelled only as packet types,
  in ConnectionPipeline.
- The client's EncryptionResponse at byte level. The proxy never enables
  encryption, so FrameCodec's client plays offline mode. The panic on a
  negative array length is the `pipeline_panic` finding.
- Configuration, start-up and logging (`main.rs`, `config.rs`, `utils/env.rs`,
  `utils/service.rs`).
- The server description: it is set at start-up and only read by status.
- The key-value repository's TTL paths and `delete`: nothing calls them with a
  TTL.
