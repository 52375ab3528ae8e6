------------------------------ MODULE FrameCodec ------------------------------
(***************************************************************************)
(* Both byte paths of one proxied connection, from Login through         *)
(* Configuration to Play.  The backend and the client frame packets      *)
(* (spec 4.C, compressed once SetCompression has passed).  handle_server  *)
(* and handle_client (src/src/handler/proxy.rs) each read a frame with    *)
(* read_packet (src/src/utils/mod.rs) and feed it to their codec's accept *)
(* and next_packet (minecraft-protocol codec/codec.rs), which decode it   *)
(* with the VarInt and field readers (decoder.rs) and the catalog of the  *)
(* codec's direction and state (packet/login.rs, configuration.rs,        *)
(* game.rs); the packets that change the connection switch both codecs   *)
(* (src/src/state.rs); handle_server diverts proxy commands to the        *)
(* request channel, and both forward everything else.  Each loop is one  *)
(* task, so its iteration is one step; both ends write whole frames.      *)
(*                                                                         *)
(* Bytes are integers 0..255 and strings their UTF-8 bytes (ASCII here).  *)
(* zlib is modelled by what the codec relies on: inflate inverts deflate  *)
(* and fails on anything that is not a zlib stream.                        *)
(***************************************************************************)
EXTENDS Integers, Sequences, SequencesExt, TLC

CONSTANTS
  Packets,      \* the packets the backend may send: [dir, st, id, fields]
  ClientPackets, \* the packets the client may send unprompted
  MaxClientFrames, \* bound on the frames it sends unprompted
  MaxFrames,    \* bound on the frames the backend sends
  MaxPerState,  \* MaxPerState[st]: bound on the frames it sends in state st
                \* besides the one that ends the state
  ProxyChannel, \* the bytes of the channel name "basileia:proxy"
  None          \* compression off

VARIABLES
  sentBytes,   \* every byte the backend has written
  sent,        \* the packets it framed, in order
  frames,      \* frames[i]: the bytes of sent[i]'s frame
  peerComp,    \* the backend's compression threshold, or None
  peerSt,      \* the backend's state: "login", "awaitPlugin" (a
               \* LoginPluginRequest unanswered), "ackLogin" (LoginSuccess
               \* sent), "config", "ackConfig" (FinishConfiguration sent), "play"
  cSentBytes,  \* every byte the client has written
  cSent,       \* the packets it framed, in order
  cFrames,     \* cFrames[i]: the bytes of cSent[i]'s frame
  cComp,       \* the client's compression threshold, or None
  cSt,         \* the client's state
  cIn,         \* how many of the packets forwarded to it it has handled
  recv,        \* the backend's packets forwarded to the client, in order
  rd,          \* how many of sentBytes handle_server's read_packet consumed
  nrd,         \* how many frames it read
  buf,         \* the server codec's received_buf
  zt,          \* its compression_target
  comp,        \* its compression threshold, or None
  cst,         \* its ProtocolState
  got,         \* the packets its next_packet returned, in order
  fwd,         \* the bytes written to the client
  reqs,        \* the payloads sent to the command request channel
  crd,         \* how many of cSentBytes handle_client's read_packet consumed
  ncrd,        \* how many frames it read
  cbuf,        \* the client codec's received_buf
  czt,         \* its compression_target
  ccomp,       \* its compression threshold, or None
  ccst,        \* its ProtocolState
  cgot,        \* the packets its next_packet returned, in order
  srvIn,       \* the bytes written to the backend
  closed       \* handle_proxy's select! has ended

vars == <<sentBytes, sent, frames, peerComp, peerSt,
          cSentBytes, cSent, cFrames, cComp, cSt, cIn, recv,
          rd, nrd, buf, zt, comp, cst, got, fwd, reqs,
          crd, ncrd, cbuf, czt, ccomp, ccst, cgot, srvIn, closed>>

Byte == 0..255
I32 == (-2147483647 - 1)..2147483647
Drop(s, n) == SubSeq(s, n + 1, Len(s))

-----------------------------------------------------------------------------
(* VarInt.  Encode writes the value as unsigned 32-bit, seven bits at a    *)
(* time, low group first, the high bit marking continuation: a negative   *)
(* value takes five bytes, the last holding bits 28..31.  (Arithmetic     *)
(* stays within i32: floor division is the arithmetic shift, and its low  *)
(* bits are those of the unsigned shift.)                                  *)
RECURSIVE Groups(_)
Groups(u) == IF u < 128 THEN <<u>> ELSE <<(u % 128) + 128>> \o Groups(u \div 128)

VarIntEnc(n) ==
  IF n >= 0 THEN Groups(n)
  ELSE [i \in 1..5 |-> IF i < 5 THEN ((n \div 2^(7 * (i - 1))) % 128) + 128
                      ELSE (n \div 2^28) % 16]

(* `n as usize > m` for an i32 n on a 64-bit target: negatives wrap to    *)
(* values above any bound.                                                 *)
UsizeExceeds(n, m) == n < 0 \/ n > m

(* `value.overflowing_shl(7 * numRead).0` of a 7-bit group in an i32, as  *)
(* a signed contribution: below the fifth byte the group fits; of the      *)
(* fifth only bits 28..31 remain, bit 31 being the sign.                   *)
Group(v, numRead) ==
  IF numRead < 4 THEN v * 2^(7 * numRead)
  ELSE LET t == v % 16 IN (IF t >= 8 THEN t - 16 ELSE t) * 2^28

(* The loop of read_signed_var_int!(i32, .., 5): the groups occupy        *)
(* disjoint bits, so `|=` is a sum.  A read past the end is a short read; *)
(* a sixth byte is VarIntTooLong.                                           *)
RECURSIVE VarIntLoop(_, _, _, _)
VarIntLoop(bs, maxBytes, numRead, result) ==
  IF numRead >= Len(bs) THEN [st |-> "short", val |-> 0, len |-> numRead]
  ELSE LET read == bs[numRead + 1]
           acc  == result + Group(read % 128, numRead)
       IN IF numRead + 1 > maxBytes
          THEN [st |-> "toolong", val |-> 0, len |-> numRead + 1]
          ELSE IF read < 128
          THEN [st |-> "ok", val |-> acc, len |-> numRead + 1]
          ELSE VarIntLoop(bs, maxBytes, numRead + 1, acc)

(* Variant of ReadVarInt: the limit checked as `num_read >= 5`.           *)
ReadVarIntFourBytes(bs) == VarIntLoop(bs, 4, 0, 0)

ReadVarInt(bs) == VarIntLoop(bs, 5, 0, 0)

(* The async reader of tokio.rs; its limit is the literal 5.               *)
ReadVarIntAsync(bs) == VarIntLoop(bs, 5, 0, 0)

-----------------------------------------------------------------------------
(* Field readers over a packet body from offset `at`: [st, v, at].         *)
StrMax == [str |-> 32768, str16 |-> 16, str20 |-> 20]
Width == [uuid |-> 16, u64 |-> 8, u32 |-> 4, u8 |-> 1]

Fail(st) == [st |-> st, v |-> 0, at |-> 0]
Ok(v, at) == [st |-> "ok", v |-> v, at |-> at]

Field(kind, bs, at) ==
  LET n == ReadVarInt(Drop(bs, at))
      p == at + n.len                       \* first byte after the prefix
  IN CASE kind = "varint" -> IF n.st = "ok" THEN Ok(n.val, p) ELSE Fail("err")
       [] kind \in DOMAIN Width ->                  \* read_exact of a [u8; n]
            IF Len(bs) - at >= Width[kind]
            THEN Ok(SubSeq(bs, at + 1, at + Width[kind]), at + Width[kind])
            ELSE Fail("err")
       [] kind = "bool" ->                          \* read_bool
            IF Len(bs) > at /\ bs[at + 1] \in {0, 1}
            THEN Ok(bs[at + 1] = 1, at + 1) ELSE Fail("err")
       [] kind = "rest" -> Ok(Drop(bs, at), Len(bs))
       [] kind = "bytes" ->
            CASE n.st # "ok" -> Fail("err")
              [] n.val < 0 -> Fail("panic")          \* vec![0; huge]
              [] Len(bs) - p < n.val -> Fail("err")   \* read_exact
              [] OTHER -> Ok(SubSeq(bs, p + 1, p + n.val), p + n.val)
       [] OTHER ->                                     \* a string
            CASE n.st # "ok" -> Fail("err")
              [] UsizeExceeds(n.val, StrMax[kind]) -> Fail("err")
              [] Len(bs) - p < n.val -> Fail("err")
              [] OTHER -> Ok(SubSeq(bs, p + 1, p + n.val), p + n.val)

(* The field layouts of the catalogs, by direction ("cb" client-bound,   *)
(* "sb" server-bound), state and type id.  The bodies of the              *)
(* Configuration packets whose fields are a chat Message, NBT or an       *)
(* optional (ids 1 and 5 to 9 client-bound), which neither side here      *)
(* sends, are read as one opaque field.  ChatMode and ResourcePackResult  *)
(* are enums written as VarInts and are read as VarInts.  In Play only    *)
(* the plugin message is decoded; every other id is Other, its body not   *)
(* read.                                                                   *)
LoginClientBound ==
  (0 :> <<"str">>) @@ (1 :> <<"str20", "bytes", "bytes">>)
  @@ (2 :> <<"uuid", "str16">>) @@ (3 :> <<"varint">>)
  @@ (4 :> <<"varint", "str", "rest">>)

LoginServerBound ==
  (0 :> <<"str", "uuid">>) @@ (1 :> <<"bytes", "bytes">>)
  @@ (2 :> <<"varint", "bool", "rest">>) @@ (3 :> <<>>)

ConfigClientBound ==
  (0 :> <<"str", "rest">>) @@ (2 :> <<>>) @@ (3 :> <<"u64">>) @@ (4 :> <<"u32">>)
  @@ [id \in 0..9 |-> <<"rest">>]

ConfigServerBound ==
  (0 :> <<"str16", "u8", "varint", "bool", "u8", "varint", "bool", "bool">>)
  @@ (1 :> <<"str", "rest">>) @@ (2 :> <<>>) @@ (3 :> <<"u64">>)
  @@ (4 :> <<"u32">>) @@ (5 :> <<"uuid", "varint">>)

Catalog == [cb |-> [login |-> LoginClientBound, config |-> ConfigClientBound],
            sb |-> [login |-> LoginServerBound, config |-> ConfigServerBound]]

PlayPluginId == [cb |-> 24, sb |-> 16]

Known(d, st, id) == IF st = "play" THEN id \in 0..255 ELSE id \in DOMAIN Catalog[d][st]

Kinds(d, st, id) == CASE st # "play" -> Catalog[d][st][id]
                      [] id = PlayPluginId[d] -> <<"str", "rest">>
                      [] OTHER -> <<>>

RECURSIVE ReadFields(_, _, _, _)
ReadFields(bs, at, kinds, vals) ==
  IF kinds = <<>> THEN [st |-> "ok", vals |-> vals]
  ELSE LET f == Field(Head(kinds), bs, at) IN
       IF f.st # "ok" THEN [st |-> f.st, vals |-> vals]
       ELSE ReadFields(bs, f.at, Tail(kinds), Append(vals, f.v))

NoPacket == [dir |-> "none", st |-> "none", id |-> 256, fields |-> <<>>]

(* ServerPacketCodec::decode or ClientPacketCodec::decode (direction d)   *)
(* in state st, through Decoder for EnumDecoder: the type id is a VarInt  *)
(* that must fit a u8; then the state's EnumDecoder; an unknown id is an  *)
(* error.                                                                  *)
Decode(d, st, bs) ==
  LET t == ReadVarInt(bs) IN
  IF t.st # "ok" \/ t.val \notin 0..255 \/ ~Known(d, st, t.val)
  THEN [st |-> "err", pkt |-> NoPacket]
  ELSE LET r == ReadFields(bs, t.len, Kinds(d, st, t.val), <<>>) IN
       IF r.st = "ok"
       THEN [st |-> "ok", pkt |-> [dir |-> d, st |-> st, id |-> t.val, fields |-> r.vals]]
       ELSE [st |-> r.st, pkt |-> NoPacket]

-----------------------------------------------------------------------------
(* zlib: a stream is the two header bytes 0x78 0x9C before the data.       *)
Deflate(s) == <<120, 156>> \o s
Inflate(z) ==
  IF Len(z) >= 2 /\ z[1] = 120 /\ z[2] = 156
  THEN [ok |-> TRUE, out |-> Drop(z, 2)] ELSE [ok |-> FALSE, out |-> <<>>]

(* The backend's framing (spec 4.C): VarInt(len S) then S; with threshold *)
(* T, a packet S of at least T bytes as VarInt(len Z + size of            *)
(* VarInt(len S)), VarInt(len S), Z = deflate(S); a shorter one as         *)
(* VarInt(len S + 1), VarInt(0), S.                                        *)
EncodeField(kind, v) ==
  IF kind \in {"varint"} THEN VarIntEnc(v)
  ELSE IF kind = "bool" THEN <<IF v THEN 1 ELSE 0>>
  ELSE IF kind \in {"rest"} \cup DOMAIN Width THEN v
  ELSE VarIntEnc(Len(v)) \o v

(* A Play packet other than the plugin message carries a body of its own *)
(* (its one field), which the proxy's decoder does not read.               *)
IsOther(p) == p.st = "play" /\ p.id # PlayPluginId[p.dir]

WireKinds(p) == IF IsOther(p) THEN <<"rest">> ELSE Kinds(p.dir, p.st, p.id)

Body(p) ==
  LET kinds == WireKinds(p) IN
  VarIntEnc(p.id) \o FlattenSeq([i \in 1..Len(kinds) |-> EncodeField(kinds[i], p.fields[i])])

Frame(p, t) ==
  LET s == Body(p) IN
  IF t = None THEN VarIntEnc(Len(s)) \o s
  ELSE IF Len(s) >= t
  THEN LET d == VarIntEnc(Len(s)) IN VarIntEnc(Len(Deflate(s)) + Len(d)) \o d \o Deflate(s)
  ELSE VarIntEnc(Len(s) + 1) \o <<0>> \o s

-----------------------------------------------------------------------------
(* Variant of ReadPacket: the length re-encoded as a fixed five-byte      *)
(* VarInt, which next_packet accepts but which is not the backend's bytes. *)
PaddedVarInt(n) ==
  [i \in 1..5 |-> ((n \div 2^(7 * (i - 1))) % 128) + (IF i < 5 THEN 128 ELSE 0)]

ReadPacketPadded(wire) ==
  LET l == ReadVarIntAsync(wire) IN
  CASE l.st = "short" -> [st |-> "wait", vec |-> <<>>, used |-> 0]
    [] l.st = "toolong" -> [st |-> "err", vec |-> <<>>, used |-> l.len]
    [] l.val <= 0 -> [st |-> "none", vec |-> <<>>, used |-> l.len]
    [] Len(wire) - l.len < l.val -> [st |-> "wait", vec |-> <<>>, used |-> 0]
    [] OTHER -> [st |-> "ok", used |-> l.len + l.val,
                 vec |-> PaddedVarInt(l.val) \o SubSeq(wire, l.len + 1, l.len + l.val)]

(* read_packet(reader, true): a VarInt length (awaiting its bytes), None  *)
(* for a length <= 0, then read_exact of `length` bytes; the frame is     *)
(* returned with its length re-encoded in front.                          *)
ReadPacket(wire) ==
  LET l == ReadVarIntAsync(wire) IN
  CASE l.st = "short" -> [st |-> "wait", vec |-> <<>>, used |-> 0]
    [] l.st = "toolong" -> [st |-> "err", vec |-> <<>>, used |-> l.len]
    [] l.val <= 0 -> [st |-> "none", vec |-> <<>>, used |-> l.len]
    [] Len(wire) - l.len < l.val -> [st |-> "wait", vec |-> <<>>, used |-> 0]
    [] OTHER -> [st |-> "ok", used |-> l.len + l.val,
                 vec |-> VarIntEnc(l.val) \o SubSeq(wire, l.len + 1, l.len + l.val)]

(* MinecraftCodec::next_packet of the catalog of direction d and state   *)
(* st on received_buf b with compression c and compression_target z:      *)
(* [st, pkt, buf, zt].  Any failure of the length VarInt, or too few      *)
(* bytes, is "no packet yet".  A decode error returns before received_buf *)
(* is split and before compression_target is cleared; inflate appends to  *)
(* compression_target and the packet is decoded from its start.           *)
NextPacket(b, c, z, d, st) ==
  LET n     == ReadVarInt(b)
      frame == SubSeq(b, n.len + 1, n.len + n.val)
      dl    == ReadVarInt(frame)
      inf   == Inflate(Drop(frame, dl.len))
      z2    == IF c # None /\ dl.st = "ok" /\ dl.val # 0 /\ inf.ok THEN z \o inf.out ELSE z
      body  == CASE c = None -> frame
                 [] dl.val = 0 -> Drop(frame, dl.len)
                 [] OTHER -> z2
      p     == Decode(d, st, body)
      Stop(r) == [st |-> r, pkt |-> NoPacket, buf |-> b, zt |-> z2]
  IN CASE n.st # "ok" \/ UsizeExceeds(n.val, Len(b) - n.len) -> Stop("none")
       [] c # None /\ (dl.st # "ok" \/ (dl.val # 0 /\ ~inf.ok)) -> Stop("err")
       [] p.st # "ok" -> Stop(p.st)
       [] OTHER -> [st |-> "some", pkt |-> p.pkt, buf |-> Drop(b, n.len + n.val), zt |-> <<>>]

(* The packets whose decoding changes the connection: SetCompression and  *)
(* LoginSuccess in Login, FinishConfiguration in Configuration, and the   *)
(* client's LoginAcknowledged and AcknowledgeFinishConfiguration.          *)
IsSetCompression(p) == p.dir = "cb" /\ p.st = "login" /\ p.id = 3
IsLoginSuccess(p) == p.dir = "cb" /\ p.st = "login" /\ p.id = 2
IsFinishConfiguration(p) == p.dir = "cb" /\ p.st = "config" /\ p.id = 2
IsLoginAcknowledged(p) == p.dir = "sb" /\ p.st = "login" /\ p.id = 3
IsAckFinish(p) == p.dir = "sb" /\ p.st = "config" /\ p.id = 2

(* Variant of Diverted: the state of the packet not tested, so that a    *)
(* Configuration plugin message on the channel is also taken as a command. *)
DivertedAnyState(pkt) ==
  /\ pkt.id = IF pkt.st = "config" THEN 0 ELSE PlayPluginId["cb"]
  /\ pkt.st # "login"
  /\ pkt.fields[1] = ProxyChannel

(* handle_server's test for a proxy command: a Play plugin message on the *)
(* channel "basileia:proxy".                                               *)
Diverted(pkt) == pkt.st = "play" /\ pkt.id = PlayPluginId["cb"] /\ pkt.fields[1] = ProxyChannel

(* Variant of SetState: only the server codec's state is written.         *)
SetStateServerOnly(s) == cst' = s /\ UNCHANGED ccst

(* ConnectionSharedState::set_state and set_compression: the client       *)
(* codec's, then the server codec's, each under its lock.  Nothing of the *)
(* new state is on either wire before both are written, so the two writes *)
(* are one step.                                                           *)
SetState(s) == ccst' = s /\ cst' = s
SetCompression(t) == ccomp' = t /\ comp' = t

-----------------------------------------------------------------------------
server == <<sentBytes, sent, frames, peerComp, peerSt>>
client == <<cSentBytes, cSent, cFrames, cComp, cSt, cIn, recv>>
relay  == <<rd, nrd, buf, zt, comp, cst, got, fwd, reqs,
            crd, ncrd, cbuf, czt, ccomp, ccst, cgot, srvIn, closed>>

(* Both codecs start in Login (handle_proxy sets it before the loops),    *)
(* with no compression and empty buffers.                                  *)
Init ==
  /\ sentBytes = <<>> /\ sent = <<>> /\ frames = <<>> /\ peerComp = None
  /\ peerSt = "login"
  /\ cSentBytes = <<>> /\ cSent = <<>> /\ cFrames = <<>> /\ cComp = None
  /\ cSt = "login" /\ cIn = 0 /\ recv = <<>>
  /\ rd = 0 /\ nrd = 0 /\ buf = <<>> /\ zt = <<>> /\ comp = None /\ cst = "login"
  /\ got = <<>> /\ fwd = <<>> /\ reqs = <<>>
  /\ crd = 0 /\ ncrd = 0 /\ cbuf = <<>> /\ czt = <<>> /\ ccomp = None /\ ccst = "login"
  /\ cgot = <<>> /\ srvIn = <<>> /\ closed = FALSE

(* The backend sends only packets of its own state; after a               *)
(* LoginPluginRequest it waits for the answer, after LoginSuccess and      *)
(* FinishConfiguration for the client's acknowledgement.                   *)
IsTransition(p) == IsLoginSuccess(p) \/ IsFinishConfiguration(p)

CanSend(p) ==
  /\ ~closed /\ Len(sent) < MaxFrames
  /\ p.st = peerSt
  /\ IsTransition(p)
     \/ Len(SelectSeq(sent, LAMBDA q : q.st = p.st /\ ~IsTransition(q))) < MaxPerState[p.st]

(* The backend writes one framed packet; after SetCompression it frames   *)
(* with the new threshold (a negative one turns compression off).         *)
Send(p) ==
  /\ CanSend(p)
  /\ sentBytes' = sentBytes \o Frame(p, peerComp)
  /\ sent' = Append(sent, p)
  /\ frames' = Append(frames, Frame(p, peerComp))
  /\ peerComp' = CASE ~IsSetCompression(p) -> peerComp
                   [] p.fields[1] < 0 -> None
                   [] OTHER -> p.fields[1]
  /\ peerSt' = CASE IsLoginSuccess(p) -> "ackLogin"
                 [] IsFinishConfiguration(p) -> "ackConfig"
                 [] p.st = "login" /\ p.id = 4 -> "awaitPlugin"
                 [] OTHER -> peerSt
  /\ UNCHANGED <<client, relay>>

(* The backend reads a frame handle_client forwarded.                      *)
PeerAfter(q) ==
  CASE q.st = "login" /\ q.id = 2 -> "login"
    [] IsLoginAcknowledged(q) -> "config"
    [] IsAckFinish(q) -> "play"
    [] OTHER -> peerSt

-----------------------------------------------------------------------------
(* The client, a vanilla one: it handles the packets forwarded to it in   *)
(* order, answering a LoginPluginRequest (not understood), KeepAlive and  *)
(* Ping, acknowledging LoginSuccess and FinishConfiguration, and framing  *)
(* with the threshold of the SetCompression it has received.               *)
Answer(p) ==
  CASE p.st = "login" /\ p.id = 4 ->
         <<[dir |-> "sb", st |-> "login", id |-> 2, fields |-> <<p.fields[1], FALSE, <<>>>>]>>
    [] IsLoginSuccess(p) -> <<[dir |-> "sb", st |-> "login", id |-> 3, fields |-> <<>>]>>
    [] p.st = "config" /\ p.id \in {3, 4} ->
         <<[dir |-> "sb", st |-> "config", id |-> p.id, fields |-> p.fields]>>
    [] IsFinishConfiguration(p) -> <<[dir |-> "sb", st |-> "config", id |-> 2, fields |-> <<>>]>>
    [] OTHER -> <<>>

ClientWrite(ps, t) ==
  /\ cSentBytes' = cSentBytes \o FlattenSeq([i \in 1..Len(ps) |-> Frame(ps[i], t)])
  /\ cSent' = cSent \o ps
  /\ cFrames' = cFrames \o [i \in 1..Len(ps) |-> Frame(ps[i], t)]

ClientReceive ==
  LET p == recv[cIn + 1]
      t == IF IsSetCompression(p) THEN p.fields[1] ELSE cComp
  IN /\ ~closed /\ cIn < Len(recv)
     /\ cIn' = cIn + 1
     /\ cComp' = t
     /\ ClientWrite(Answer(p), t)
     /\ cSt' = CASE IsLoginSuccess(p) -> "config"
                 [] IsFinishConfiguration(p) -> "play"
                 [] OTHER -> cSt
     /\ UNCHANGED <<server, recv, relay>>

(* A packet the client sends of its own accord in its current state.     *)
CanSpeak(p) ==
  /\ ~closed /\ p.st = cSt
  /\ Len(SelectSeq(cSent, LAMBDA q : q \in ClientPackets)) < MaxClientFrames

ClientSpeak(p) ==
  /\ CanSpeak(p)
  /\ ClientWrite(<<p>>, cComp)
  /\ UNCHANGED <<server, cComp, cSt, cIn, recv, relay>>

-----------------------------------------------------------------------------
(* One iteration of handle_server's loop: read_packet; decode_server,     *)
(* i.e. accept then next_packet in the codec's state; on SetCompression,  *)
(* return if the threshold is negative, else set_compression on both      *)
(* codecs; on FinishConfiguration, set_state(Play); a proxy command is     *)
(* sent to the request channel and not forwarded (continue); every other  *)
(* frame is written to the client with write_all.  A read_packet error or *)
(* None returns, and a panic in a field reader unwinds the task; either   *)
(* ends handle_proxy's select!, which drops handle_client.                 *)
HandleServer ==
  \E r \in {ReadPacket(Drop(sentBytes, rd))} :
  \E np \in {NextPacket(buf \o r.vec, comp, zt, "cb", cst)} :
  LET some(P(_)) == np.st = "some" /\ P(np.pkt)
  IN /\ ~closed
     /\ r.st # "wait"
     /\ rd' = rd + r.used
     /\ IF r.st # "ok"
        THEN closed' = TRUE /\ UNCHANGED <<nrd, buf, zt, comp, ccomp, cst, ccst, got, fwd, reqs, recv>>
        ELSE /\ nrd' = nrd + 1
             /\ buf' = np.buf /\ zt' = np.zt
             /\ got' = IF np.st = "some" THEN Append(got, np.pkt) ELSE got
             /\ IF np.st = "panic" \/ (some(IsSetCompression) /\ np.pkt.fields[1] < 0)
                THEN closed' = TRUE /\ UNCHANGED <<comp, ccomp, cst, ccst, fwd, reqs, recv>>
                ELSE /\ IF some(IsSetCompression) THEN SetCompression(np.pkt.fields[1])
                        ELSE UNCHANGED <<comp, ccomp>>
                     /\ IF some(IsFinishConfiguration) THEN SetState("play")
                        ELSE UNCHANGED <<cst, ccst>>
                     /\ IF some(Diverted)
                        THEN reqs' = Append(reqs, np.pkt.fields[2]) /\ UNCHANGED <<fwd, recv>>
                        ELSE /\ fwd' = fwd \o r.vec /\ UNCHANGED reqs
                             /\ recv' = Append(recv, sent[nrd + 1])
                     /\ UNCHANGED closed
     /\ UNCHANGED <<server, cSentBytes, cSent, cFrames, cComp, cSt, cIn,
                    crd, ncrd, cbuf, czt, cgot, srvIn>>

(* One iteration of handle_client's read branch: read_packet;             *)
(* decode_client; set_state(Configuration) on LoginAcknowledged and        *)
(* set_state(Play) on AcknowledgeFinishConfiguration; the frame is always *)
(* written to the backend, which then reads it.  A read error or None      *)
(* returns, and a panic unwinds; either ends handle_proxy's select!.       *)
HandleClient ==
  \E r \in {ReadPacket(Drop(cSentBytes, crd))} :
  \E np \in {NextPacket(cbuf \o r.vec, ccomp, czt, "sb", ccst)} :
  LET some(P(_)) == np.st = "some" /\ P(np.pkt)
  IN /\ ~closed
     /\ r.st # "wait"
     /\ crd' = crd + r.used
     /\ IF r.st # "ok" \/ np.st = "panic"
        THEN closed' = TRUE /\ UNCHANGED <<ncrd, cbuf, czt, cgot, cst, ccst, srvIn, peerSt>>
        ELSE /\ ncrd' = ncrd + 1
             /\ cbuf' = np.buf /\ czt' = np.zt
             /\ cgot' = IF np.st = "some" THEN Append(cgot, np.pkt) ELSE cgot
             /\ CASE some(IsLoginAcknowledged) -> SetState("config")
                  [] some(IsAckFinish) -> SetState("play")
                  [] OTHER -> UNCHANGED <<cst, ccst>>
             /\ srvIn' = srvIn \o r.vec
             /\ peerSt' = PeerAfter(cSent[ncrd + 1])
             /\ UNCHANGED closed
     /\ UNCHANGED <<sentBytes, sent, frames, peerComp, client,
                    rd, nrd, buf, zt, comp, ccomp, got, fwd, reqs>>

(* Nothing more happens: the connection was torn down, or every side has *)
(* sent, read and answered all it will.                                    *)
Quiescent ==
  /\ \A p \in Packets : ~CanSend(p)
  /\ \A p \in ClientPackets : ~CanSpeak(p)
  /\ rd = Len(sentBytes) /\ crd = Len(cSentBytes) /\ cIn = Len(recv)

Finished ==
  /\ closed \/ Quiescent
  /\ UNCHANGED vars

Next ==
  \/ \E p \in Packets : Send(p)
  \/ ClientReceive
  \/ \E p \in ClientPackets : ClientSpeak(p)
  \/ HandleServer
  \/ HandleClient
  \/ Finished

Spec == Init /\ [][Next]_vars

-----------------------------------------------------------------------------
(* Properties *)

(* What a codec keeps of a packet: of a Play packet other than the plugin *)
(* message, only its type id.                                              *)
View(p) == IF IsOther(p) THEN [p EXCEPT !.fields = <<>>] ELSE p

(* A proxy command as the backend means it: a Play plugin message on the *)
(* proxy's channel.                                                        *)
IsCommand(p) == p.dir = "cb" /\ p.st = "play" /\ p.id = PlayPluginId["cb"]
                /\ p.fields[1] = ProxyChannel

(* next_packet returns exactly the packets the backend framed, in order,  *)
(* each decoded with the catalog of the state it was sent in, across the  *)
(* switch to compressed framing and the Login, Configuration and Play     *)
(* state changes that handle_server and handle_client make on seeing the  *)
(* backend's and the client's packets; once handle_server has read every *)
(* byte, each packet has been returned and received_buf is empty (spec    *)
(* sections 4.A, 4.C, 4.F, 5 and section 8).                               *)
FramesIntact ==
  LET views == [i \in 1..Len(sent) |-> View(sent[i])] IN
  /\ IsPrefix(got, views)
  /\ rd = Len(sentBytes) /\ ~closed => got = views /\ buf = <<>>

(* handle_server forwards the backend's stream as received, length       *)
(* prefixes included, except the frames of proxy commands (spec 4.F),     *)
(* although read_packet decodes the length and writes a re-encoded one.   *)
ForwardedIntact ==
  IsPrefix(fwd, FlattenSeq([i \in 1..Len(sent) |->
                              IF IsCommand(sent[i]) THEN <<>> ELSE frames[i]]))

(* Every proxy command the backend sends reaches the request channel, in  *)
(* order and with its data, and nothing else does: no Configuration-state *)
(* plugin message, no message on another channel (spec 4.F).              *)
CommandsDiverted ==
  LET cmds == [i \in 1..Len(SelectSeq(sent, IsCommand)) |->
                 SelectSeq(sent, IsCommand)[i].fields[2]] IN
  /\ IsPrefix(reqs, cmds)
  /\ rd = Len(sentBytes) /\ ~closed => reqs = cmds

(* handle_client forwards the client's bytes unchanged, and the client    *)
(* codec, switched by set_state and set_compression from both loops,      *)
(* decodes each client packet with the catalog of the state it was sent   *)
(* in, except a Configuration packet still in flight when handle_server's *)
(* FinishConfiguration switched the codecs, which it reads as a Play     *)
(* Other packet of the same id; it never falls behind the frames read    *)
(* (spec 4.F: "Always forward the raw framed bytes"; section 5).          *)
ClientFramesIntact ==
  /\ IsPrefix(srvIn, cSentBytes)
  /\ Len(cgot) <= Len(cSent)
  /\ \A i \in 1..Len(cgot) :
       \/ cgot[i] = View(cSent[i])
       \/ /\ cSent[i].st = "config"
          /\ cgot[i] = [cSent[i] EXCEPT !.st = "play", !.fields = <<>>]
  /\ crd = Len(cSentBytes) /\ ~closed => Len(cgot) = Len(cSent) /\ cbuf = <<>>

=============================================================================
