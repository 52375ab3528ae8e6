----------------------------- MODULE ProxyRelay -----------------------------
(***************************************************************************)
(* One proxied connection after login start: the proxy loop of             *)
(* src/src/server.rs handle_proxy with its three tasks (handle_server,     *)
(* handle_client of src/src/handler/proxy.rs and proxy_command_events of   *)
(* src/src/commands/handler.rs), the per-connection codec state of         *)
(* src/src/state.rs ConnectionSharedState and the accumulating decoder of  *)
(* src/minecraft-protocol/src/codec/codec.rs.                              *)
(*                                                                         *)
(* The Minecraft client and the backend server are the environment: each  *)
(* follows the 1.20.4 login / configuration / play sequence.  TCP streams  *)
(* are FIFO sequences of whole frames; a frame records the packet its      *)
(* sender meant and the framing ("plain" or "zlib") it was written with.   *)
(***************************************************************************)
EXTENDS Naturals, Sequences, SequencesExt

CONSTANTS
  MaxPlay,        \* game packets each endpoint may send in the Play state
  MaxCmds,        \* command requests the backend may send
  ChanCap,        \* capacity of the two mpsc channels (mpsc::channel(3))
  DecoderMayFail  \* whether the black-box body decoders (NBT) may fail

ASSUME MaxPlay \in Nat /\ MaxCmds \in Nat /\ ChanCap \in Nat \ {0}
ASSUME DecoderMayFail \in BOOLEAN

VARIABLES
  \* client endpoint
  cPhase, cComp, cOpen, cPlay, cSent, cGot,
  \* backend endpoint
  sPhase, sComp, sOpen, sWait, sLogin, sCfg, sPlay, sCmds, sSent, sGot,
  \* the four TCP streams: client->proxy, proxy->server, server->proxy, proxy->client
  c2p, p2s, s2p, p2c,
  \* ConnectionSharedState: the two codecs (state, compression, received_buf)
  cState, sState, cZip, sZip, cBuf, sBuf, loginInfo,
  \* the three tasks and their channels
  crFut, srHeld, cmdHeld, reqQ, respQ, alive

client  == <<cPhase, cComp, cOpen, cPlay, cSent, cGot>>
backend == <<sPhase, sComp, sOpen, sWait, sLogin, sCfg, sPlay, sCmds, sSent, sGot>>
wires   == <<c2p, p2s, s2p, p2c>>
codecs  == <<cState, sState, cZip, sZip, cBuf, sBuf, loginInfo>>
tasks   == <<crFut, srHeld, cmdHeld, reqQ, respQ, alive>>
vars    == <<client, backend, wires, codecs, tasks>>

-----------------------------------------------------------------------------
(* Packet catalogue (src/minecraft-protocol/src/packet/*.rs).  Names are   *)
(* the packets the model's endpoints send; Id is their type id, Phase the  *)
(* protocol state they belong to.                                          *)

PhaseOf == [LoginPluginRequest |-> "Login", SetCompression |-> "Login",
            LoginSuccess |-> "Login", RegistryData |-> "Configuration",
            ClientboundKeepAlive |-> "Configuration",
            FinishConfiguration |-> "Configuration",
            CommandRequest |-> "Play", ClientBoundGame |-> "Play",
            LoginPluginResponse |-> "Login", LoginAcknowledged |-> "Login",
            ClientInformation |-> "Configuration",
            ServerBoundKeepAlive |-> "Configuration",
            AcknowledgeFinishConfiguration |-> "Configuration",
            ServerBoundGame |-> "Play", CommandResponse |-> "Play"]

IdOf == [LoginPluginRequest |-> 4, SetCompression |-> 3, LoginSuccess |-> 2,
         RegistryData |-> 5, ClientboundKeepAlive |-> 3,
         FinishConfiguration |-> 2, CommandRequest |-> 24,
         ClientBoundGame |-> 36, LoginPluginResponse |-> 2,
         LoginAcknowledged |-> 3, ClientInformation |-> 0,
         ServerBoundKeepAlive |-> 3, AcknowledgeFinishConfiguration |-> 2,
         ServerBoundGame |-> 23, CommandResponse |-> 16]

Packets == DOMAIN PhaseOf
Frames  == [pkt: Packets \cup {"Garbage"}, fmt: {"plain", "zlib"}]
FmtOf(z) == IF z THEN "zlib" ELSE "plain"
Frame(p, z) == [pkt |-> p, fmt |-> FmtOf(z)]

\* Type ids each EnumDecoder knows; Play decodes every id (Other{type_id}).
Known == [CB |-> [Login |-> 0..4, Configuration |-> 0..9],
          SB |-> [Login |-> 0..3, Configuration |-> 0..5]]
\* The Play plugin-message id of each direction (game.rs).
PluginId == [CB |-> 24, SB |-> 16]
\* Packets without a body: decode succeeds whatever bytes follow the id.
Bodyless == [t \in {<<"SB", "Login", 3>>, <<"SB", "Configuration", 2>>,
                    <<"CB", "Configuration", 2>>} |->
               CASE t[2] = "Login" -> "LoginAcknowledged"
                 [] t[1] = "SB"    -> "AcknowledgeFinishConfiguration"
                 [] OTHER          -> "FinishConfiguration"]
\* Packets with an effect whose body may parse out of another packet's bytes.
Garbled == [t \in {<<"CB", "Login", 2>>, <<"CB", "Login", 3>>} |->
              IF t[3] = 2 THEN {"LoginSuccess"}
              ELSE {"SetCompression", "SetCompressionNegative"}]
\* Bodies decoded by readers outside src/ (the NBT reader of RegistryData).
BlackBox == {"RegistryData"}

(* Outcomes of decoding a well-framed packet of id `id` in state `st`      *)
(* when it was sent in another state: "Err", "Inert" (a packet without     *)
(* effect on the proxy) or an effectful packet read out of foreign bytes.  *)
Misread(dir, st, id) ==
  LET t == <<dir, st, id>> IN
  CASE st = "Play"               -> IF id = PluginId[dir] THEN {"Err", "Inert"}
                                    ELSE {"Inert"}
    [] id \notin Known[dir][st]  -> {"Err"}
    [] t \in DOMAIN Bodyless     -> {Bodyless[t]}
    [] t \in DOMAIN Garbled      -> {"Err", "Inert"} \cup Garbled[t]
    [] OTHER                     -> {"Err", "Inert"}

(* MinecraftCodec::next_packet on the head frame of the buffer, with the   *)
(* codec's compression flag and the ClientPacketCodec/ServerPacketCodec    *)
(* dispatch on the protocol state.  A frame in the other framing yields    *)
(* garbage: a zlib stream over plain bytes, or a type id read from the     *)
(* data-length field.                                                      *)
Decode(dir, st, zip, f) ==
  CASE f.pkt = "Garbage" \/ f.fmt # FmtOf(zip) -> {"Err", "Inert"}
    [] PhaseOf[f.pkt] = st ->
         IF DecoderMayFail /\ f.pkt \in BlackBox THEN {f.pkt, "Err"} ELSE {f.pkt}
    [] OTHER -> Misread(dir, st, IdOf[f.pkt])

(* The buffer after next_packet: it advances past the frame only when the  *)
(* decode succeeded (codec.rs: `?` returns before split_off).             *)
Advance(buf, o) == IF o = "Err" THEN buf ELSE Tail(buf)

-----------------------------------------------------------------------------
Init ==
  /\ cPhase = "Login" /\ cComp = FALSE /\ cOpen = TRUE /\ cPlay = 0
  /\ cSent = <<>> /\ cGot = <<>>
  /\ sPhase = "Login" /\ sComp = FALSE /\ sOpen = TRUE /\ sWait = FALSE
  /\ sLogin = {} /\ sCfg = {} /\ sPlay = 0 /\ sCmds = 0
  /\ sSent = <<>> /\ sGot = <<>>
  /\ c2p = <<>> /\ p2s = <<>> /\ s2p = <<>> /\ p2c = <<>>
  /\ cState = "Login" /\ sState = "Login"
  /\ cZip = FALSE /\ sZip = FALSE /\ cBuf = <<>> /\ sBuf = <<>>
  /\ loginInfo = FALSE
  /\ crFut = "idle" /\ srHeld = <<>> /\ cmdHeld = <<>>
  /\ reqQ = <<>> /\ respQ = <<>> /\ alive = TRUE

-----------------------------------------------------------------------------
(* The proxy.  Any of the three tasks returning ends the select! of        *)
(* handle_proxy, which drops the other two and the sockets.               *)

Teardown == alive' = FALSE

(* handle_server, one loop iteration: read_packet, decode_server, the      *)
(* match on the decoded packet, then write_all of the RAW frame read.      *)
(* LoginSuccess records login_info; SetCompression with a negative         *)
(* threshold breaks the loop, otherwise set_compression on both codecs;   *)
(* FinishConfiguration set_state(Play) on both codecs; a Play plugin       *)
(* message on "basileia:proxy" is held for request_sender.send and is not  *)
(* forwarded (`continue`).                                                 *)
(* Variant of Forwarded: the `continue` after request_sender.send dropped. *)
ForwardedNoContinue(o) == o # "SetCompressionNegative"

(* Whether handle_server reaches client_write.write_all for a frame decoded *)
(* as o: not after `break` (negative threshold) nor `continue` (command).  *)
Forwarded(o) == o \notin {"CommandRequest", "SetCompressionNegative"}

ServerRelay ==
  /\ alive /\ srHeld = <<>> /\ s2p # <<>>
  /\ LET f   == Head(s2p)
         buf == Append(sBuf, f)
     IN \E o \in Decode("CB", sState, sZip, Head(buf)) :
          /\ s2p' = Tail(s2p)
          /\ sBuf' = Advance(buf, o)
          /\ loginInfo' = (loginInfo \/ o = "LoginSuccess")
          /\ cZip' = (cZip \/ o = "SetCompression")
          /\ sZip' = (sZip \/ o = "SetCompression")
          /\ cState' = IF o = "FinishConfiguration" THEN "Play" ELSE cState
          /\ sState' = IF o = "FinishConfiguration" THEN "Play" ELSE sState
          /\ srHeld' = IF o = "CommandRequest" THEN <<f>> ELSE <<>>
          /\ alive' = (o # "SetCompressionNegative")
          /\ p2c' = IF Forwarded(o) THEN Append(p2c, f) ELSE p2c
  /\ UNCHANGED <<client, backend, c2p, p2s, cBuf, crFut, cmdHeld, reqQ, respQ>>

(* handle_server: request_sender.send(data).await, blocking while the      *)
(* channel holds ChanCap requests.                                         *)
ServerSendRequest ==
  /\ alive /\ srHeld # <<>> /\ Len(reqQ) < ChanCap
  /\ reqQ' = Append(reqQ, Head(srHeld))
  /\ srHeld' = <<>>
  /\ UNCHANGED <<client, backend, wires, codecs, crFut, cmdHeld, respQ, alive>>

(* handle_server: read_packet returns EOF (or an error) once the backend   *)
(* has closed and every frame it sent was read.                            *)
ServerEof ==
  /\ alive /\ srHeld = <<>> /\ s2p = <<>> /\ ~sOpen
  /\ Teardown
  /\ UNCHANGED <<client, backend, wires, codecs, crFut, srHeld, cmdHeld, reqQ, respQ>>

(* handle_client, branch `read_packet(&mut client_read, true)` of the      *)
(* select!: the length VarInt has been read, the body not yet.  The        *)
(* future is dropped if the other branch completes first.                  *)
ClientReadLength ==
  /\ alive /\ crFut = "idle" /\ c2p # <<>>
  /\ crFut' = "len"
  /\ UNCHANGED <<client, backend, wires, codecs, srHeld, cmdHeld, reqQ, respQ, alive>>

(* handle_client, the read branch completes: decode_client, the match     *)
(* (LoginAcknowledged: set_state(Configuration); AcknowledgeFinish-        *)
(* Configuration: set_state(Play)), then write_all of the raw frame.       *)
(* Variant of StateAfterClient: the LoginAcknowledged arm missing.         *)
StateAfterClientNoLoginAck(o, st) ==
  IF o = "AcknowledgeFinishConfiguration" THEN "Play" ELSE st

(* The state a codec in state st holds after handle_client's match on a    *)
(* client packet o: set_state sets it on both codecs.                      *)
StateAfterClient(o, st) ==
  CASE o = "LoginAcknowledged"              -> "Configuration"
    [] o = "AcknowledgeFinishConfiguration" -> "Play"
    [] OTHER                                -> st

ClientRelay ==
  /\ alive /\ crFut = "len"
  /\ LET f   == Head(c2p)
         buf == Append(cBuf, f)
     IN \E o \in Decode("SB", cState, cZip, Head(buf)) :
          /\ c2p' = Tail(c2p)
          /\ cBuf' = Advance(buf, o)
          /\ cState' = StateAfterClient(o, cState)
          /\ sState' = StateAfterClient(o, sState)
          /\ p2s' = Append(p2s, f)
  /\ crFut' = "idle"
  /\ UNCHANGED <<client, backend, s2p, p2c, cZip, sZip, sBuf, loginInfo,
                 srHeld, cmdHeld, reqQ, respQ, alive>>

(* handle_client, branch `response_receiver.recv()` of the select!: the    *)
(* response is written with write_packet, which frames it without         *)
(* compression (utils::encode_packet).  Completing this branch drops a     *)
(* read_packet future that had already consumed the next frame's length:  *)
(* the body is then read as if it began a frame.                           *)
ClientRecvResponse ==
  /\ alive /\ respQ # <<>>
  /\ respQ' = Tail(respQ)
  /\ p2s' = Append(p2s, Frame("CommandResponse", FALSE))
  /\ c2p' = IF crFut = "len"
            THEN <<[Head(c2p) EXCEPT !.pkt = "Garbage"]>> \o Tail(c2p)
            ELSE c2p
  /\ crFut' = "idle"
  /\ UNCHANGED <<client, backend, s2p, p2c, codecs, srHeld, cmdHeld, reqQ, alive>>

(* handle_client: read_packet sees EOF once the client has closed.         *)
ClientEof ==
  /\ alive /\ crFut = "idle" /\ c2p = <<>> /\ ~cOpen
  /\ Teardown
  /\ UNCHANGED <<client, backend, wires, codecs, crFut, srHeld, cmdHeld, reqQ, respQ>>

(* Variant of CommandRecv: a request taken while one is being handled.   *)
CommandRecvNoWait ==
  /\ alive /\ reqQ # <<>>
  /\ cmdHeld' = Append(cmdHeld, Head(reqQ))
  /\ reqQ' = Tail(reqQ)
  /\ UNCHANGED <<client, backend, wires, codecs, crFut, srHeld, respQ, alive>>

(* proxy_command_events: request_recv.recv() then handle_command_data.    *)
CommandRecv ==
  /\ alive /\ cmdHeld = <<>> /\ reqQ # <<>>
  /\ cmdHeld' = <<Head(reqQ)>>
  /\ reqQ' = Tail(reqQ)
  /\ UNCHANGED <<client, backend, wires, codecs, crFut, srHeld, respQ, alive>>

(* Variant of CommandRespond: the response is lost instead of sent.       *)
CommandRespondLost ==
  /\ alive /\ cmdHeld # <<>> /\ Len(respQ) < ChanCap
  /\ cmdHeld' = <<>>
  /\ UNCHANGED <<client, backend, wires, codecs, crFut, srHeld, reqQ, respQ, alive>>

(* proxy_command_events: response_sender.send(response).await.            *)
CommandRespond ==
  /\ alive /\ cmdHeld # <<>> /\ Len(respQ) < ChanCap
  /\ respQ' = Append(respQ, "response")
  /\ cmdHeld' = <<>>
  /\ UNCHANGED <<client, backend, wires, codecs, crFut, srHeld, reqQ, alive>>

-----------------------------------------------------------------------------
(* The client (environment): a 1.20.4 client after sending LoginStart.    *)
(* It parses each frame with its own compression flag and disconnects on   *)
(* a frame it cannot parse.                                                *)

SendC(ps) ==
  LET fs == [i \in DOMAIN ps |-> Frame(ps[i], cComp)]
  IN /\ c2p' = c2p \o fs
     /\ cSent' = cSent \o fs

Reply == [LoginPluginRequest   |-> <<"LoginPluginResponse">>,
          LoginSuccess         |-> <<"LoginAcknowledged", "ClientInformation">>,
          ClientboundKeepAlive |-> <<"ServerBoundKeepAlive">>,
          FinishConfiguration  |-> <<"AcknowledgeFinishConfiguration">>]

ClientRecv ==
  /\ alive /\ cOpen /\ p2c # <<>>
  /\ LET f == Head(p2c) IN
     /\ p2c' = Tail(p2c)
     /\ cGot' = Append(cGot, f)
     /\ IF f.fmt # FmtOf(cComp)
        THEN cOpen' = FALSE /\ UNCHANGED <<cPhase, cComp, c2p, cSent>>
        ELSE /\ cComp' = (cComp \/ f.pkt = "SetCompression")
             /\ cPhase' = CASE f.pkt = "LoginSuccess"        -> "Configuration"
                             [] f.pkt = "FinishConfiguration" -> "Play"
                             [] OTHER                         -> cPhase
             /\ IF f.pkt \in DOMAIN Reply THEN SendC(Reply[f.pkt])
                ELSE UNCHANGED <<c2p, cSent>>
             /\ UNCHANGED cOpen
  /\ UNCHANGED <<cPlay, backend, p2s, s2p, codecs, tasks>>

ClientPlay ==
  /\ alive /\ cOpen /\ cPhase = "Play" /\ cPlay < MaxPlay
  /\ SendC(<<"ServerBoundGame">>)
  /\ cPlay' = cPlay + 1
  /\ UNCHANGED <<cPhase, cComp, cOpen, cGot, backend, p2s, s2p, p2c, codecs, tasks>>

ClientQuit ==
  /\ alive /\ cOpen /\ cPhase = "Play"
  /\ cOpen' = FALSE
  /\ UNCHANGED <<cPhase, cComp, cPlay, cSent, cGot, backend, wires, codecs, tasks>>

-----------------------------------------------------------------------------
(* The backend (environment): a 1.20.4 server after reading Handshake and  *)
(* LoginStart.  In Login it may send a LoginPluginRequest and then waits   *)
(* for the answer, may enable compression, then sends LoginSuccess; in     *)
(* Configuration it sends registry data and keep-alives, then              *)
(* FinishConfiguration; in Play game packets and command requests.         *)

SendS(p) ==
  /\ s2p' = Append(s2p, Frame(p, sComp))
  /\ sSent' = Append(sSent, Frame(p, sComp))

LoginStep(p) ==
  /\ alive /\ sOpen /\ sPhase = "Login" /\ ~sWait
  /\ p \notin sLogin /\ "LoginSuccess" \notin sLogin
  /\ SendS(p)
  /\ sLogin' = sLogin \cup {p}
  /\ sWait' = (p = "LoginPluginRequest")
  /\ sComp' = (sComp \/ p = "SetCompression")
  /\ UNCHANGED <<sPhase, sOpen, sCfg, sPlay, sCmds, sGot, client, c2p, p2s, p2c, codecs, tasks>>

ConfigStep(p) ==
  /\ alive /\ sOpen /\ sPhase = "Configuration"
  /\ p \notin sCfg /\ "FinishConfiguration" \notin sCfg
  /\ p = "FinishConfiguration" => "RegistryData" \in sCfg
  /\ SendS(p)
  /\ sCfg' = sCfg \cup {p}
  /\ UNCHANGED <<sPhase, sComp, sOpen, sWait, sLogin, sPlay, sCmds, sGot, client, c2p, p2s, p2c, codecs, tasks>>

BackendGame ==
  /\ alive /\ sOpen /\ sPhase = "Play" /\ sPlay < MaxPlay
  /\ SendS("ClientBoundGame")
  /\ sPlay' = sPlay + 1
  /\ UNCHANGED <<sPhase, sComp, sOpen, sWait, sLogin, sCfg, sCmds, sGot, client, c2p, p2s, p2c, codecs, tasks>>

BackendCommand ==
  /\ alive /\ sOpen /\ sPhase = "Play" /\ sCmds < MaxCmds
  /\ SendS("CommandRequest")
  /\ sCmds' = sCmds + 1
  /\ UNCHANGED <<sPhase, sComp, sOpen, sWait, sLogin, sCfg, sPlay, sGot, client, c2p, p2s, p2c, codecs, tasks>>

(* The backend reads a frame with its own compression flag; a frame it     *)
(* cannot parse makes it drop the connection.                              *)
BackendRecv ==
  /\ alive /\ sOpen /\ p2s # <<>>
  /\ LET f == Head(p2s) IN
     /\ p2s' = Tail(p2s)
     /\ sGot' = Append(sGot, f)
     /\ IF f.pkt = "Garbage" \/ f.fmt # FmtOf(sComp)
        THEN sOpen' = FALSE /\ UNCHANGED <<sPhase, sWait>>
        ELSE /\ sWait' = (sWait /\ f.pkt # "LoginPluginResponse")
             /\ sPhase' = CASE f.pkt = "LoginAcknowledged" -> "Configuration"
                             [] f.pkt = "AcknowledgeFinishConfiguration" -> "Play"
                             [] OTHER -> sPhase
             /\ UNCHANGED sOpen
  /\ UNCHANGED <<sComp, sLogin, sCfg, sPlay, sCmds, sSent, client, c2p, s2p, p2c, codecs, tasks>>

-----------------------------------------------------------------------------
(* After teardown the connection is closed for good.                       *)
Closed == ~alive /\ UNCHANGED vars

Proxy ==
  \/ ServerRelay \/ ServerSendRequest \/ ServerEof
  \/ ClientReadLength \/ ClientRelay \/ ClientRecvResponse \/ ClientEof
  \/ CommandRecv \/ CommandRespond

Client == ClientRecv \/ ClientPlay \/ ClientQuit

Backend ==
  \/ \E p \in {"LoginPluginRequest", "SetCompression", "LoginSuccess"} : LoginStep(p)
  \/ \E p \in {"RegistryData", "ClientboundKeepAlive", "FinishConfiguration"} : ConfigStep(p)
  \/ BackendGame \/ BackendCommand \/ BackendRecv

Next == Proxy \/ Client \/ Backend \/ Closed

(* The tokio runtime polls every task that can make progress, and select!  *)
(* picks among ready branches at random: each proxy step is weakly fair.   *)
(* The endpoints keep reading their sockets.                               *)
Fairness ==
  /\ WF_vars(ServerRelay) /\ WF_vars(ServerSendRequest) /\ WF_vars(ServerEof)
  /\ WF_vars(ClientReadLength) /\ WF_vars(ClientRelay)
  /\ WF_vars(ClientRecvResponse) /\ WF_vars(ClientEof)
  /\ WF_vars(CommandRecv) /\ WF_vars(CommandRespond)
  /\ WF_vars(ClientRecv) /\ WF_vars(BackendRecv)

Spec == Init /\ [][Next]_vars /\ Fairness

-----------------------------------------------------------------------------
(* Properties *)

Phases == {"Login", "Configuration", "Play"}

TypeOK ==
  /\ cPhase \in Phases /\ sPhase \in Phases
  /\ cState \in Phases /\ sState \in Phases
  /\ {cComp, cOpen, sComp, sOpen, sWait, cZip, sZip, loginInfo, alive} \subseteq BOOLEAN
  /\ cPlay \in 0..MaxPlay /\ sPlay \in 0..MaxPlay /\ sCmds \in 0..MaxCmds
  /\ \A w \in {c2p, p2s, s2p, p2c, cBuf, sBuf, cSent, cGot, sSent, sGot, srHeld} :
       w \in Seq(Frames)
  /\ crFut \in {"idle", "len"}
  /\ Len(reqQ) <= ChanCap /\ Len(respQ) <= ChanCap /\ Len(cmdHeld) <= 1

IsCommand(f)  == f.pkt = "CommandRequest"
IsResponse(f) == f.pkt = "CommandResponse"

(* handle_server diverts exactly the command frames: what the client has   *)
(* received, followed by what is in flight to it, is the backend's stream  *)
(* in order with the "basileia:proxy" plugin messages removed and nothing  *)
(* else removed, duplicated or reordered.                                  *)
ServerStreamIntact ==
  IsPrefix(cGot \o p2c, SelectSeq(sSent, LAMBDA f : ~IsCommand(f)))

(* handle_client relays the client's frames byte for byte: apart from the  *)
(* injected command responses, the backend receives the client's frames in *)
(* order, none lost or corrupted.                                          *)
ClientStreamIntact ==
  IsPrefix(SelectSeq(sGot \o p2s, LAMBDA f : ~IsResponse(f)), cSent)

(* The server-direction codec tracks the backend: it holds no undecoded    *)
(* frame, and every frame still on the way to it will be decoded in the    *)
(* protocol state and with the compression setting the backend encoded it  *)
(* with (the state and compression switches of handle_server and          *)
(* handle_client happen before the frames they govern are read).           *)
ServerCodecInSync ==
  /\ sBuf = <<>>
  /\ \A i \in DOMAIN s2p :
       /\ PhaseOf[s2p[i].pkt] = sState
       /\ s2p[i].fmt = FmtOf(sZip \/ \E j \in 1..i-1 : s2p[j].pkt = "SetCompression")

(* Every frame the proxy writes toward an endpoint is framed the way that  *)
(* endpoint will parse it: compressed framing exactly when compression has *)
(* been enabled for it (spec 4.C: encode applies the compression envelope).*)
FramingAgreement ==
  /\ \A i \in DOMAIN p2s : p2s[i].fmt = FmtOf(sComp)
  /\ \A i \in DOMAIN p2c :
       p2c[i].fmt = FmtOf(cComp \/ \E j \in 1..i-1 : p2c[j].pkt = "SetCompression")

(* Every command request the backend sends in Play is eventually answered: *)
(* a CommandResponse reaches the backend, unless the connection closes.    *)
Answered == Len(SelectSeq(sGot, IsResponse))

CommandsAnswered ==
  \A k \in 1..MaxCmds : (sCmds >= k) ~> (Answered >= k \/ ~alive)

=============================================================================
