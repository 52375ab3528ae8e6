-------------------------- MODULE ConnectionPipeline --------------------------
(***************************************************************************)
(* The per-connection workflow of src/src/server.rs Server::handle_conn    *)
(* for several concurrent connections, and the process-wide online-player *)
(* table of src/src/state.rs GlobalSharedState that they share.           *)
(*                                                                         *)
(* Each connection is spawned independently.  It checks the IP-ban         *)
(* repository, reads the handshake, and then either serves status requests *)
(* or runs the login-start checks (duplicate name, user ban), connects to  *)
(* the backend and enters the proxy loop.  Inside the loop (ProxyRelay),   *)
(* only two steps touch shared state: the LoginSuccess that records the    *)
(* player and inserts the name, and the teardown that removes it.  Every   *)
(* step below ends at an await (socket, repository or RwLock).  The        *)
(* repositories' contents are fixed here; their concurrency is             *)
(* BanRepository's subject.                                                *)
(***************************************************************************)
EXTENDS Naturals, FiniteSets

CONSTANTS
  Conns,             \* accepted connections
  Names,             \* usernames clients may send in LoginStart
  BannedIps,         \* connections whose address has an active IP ban
  BannedNames,       \* usernames with an active user ban
  None

ASSUME BannedIps \subseteq Conns /\ BannedNames \subseteq Names

VARIABLES
  pc,           \* pc[c]: where connection c's task is
  name,         \* name[c]: the LoginStart name c sent, or None
  loginInfo,    \* loginInfo[c]: ConnectionSharedState.login_info username
  online,       \* the names in GlobalSharedState.online_players
  statusCount,  \* statusCount[c]: players.online of c's last StatusResponse
  clientLogin   \* clientLogin[c]: c's client codec is still in the Login state

vars == <<pc, name, loginInfo, online, statusCount, clientLogin>>

Init ==
  /\ pc = [c \in Conns |-> "ipcheck"]
  /\ name = [c \in Conns |-> None]
  /\ loginInfo = [c \in Conns |-> None]
  /\ online = {}
  /\ statusCount = [c \in Conns |-> 0]
  /\ clientLogin = [c \in Conns |-> TRUE]

Goto(c, s) == pc' = [pc EXCEPT ![c] = s]

(* handle_conn: ip_bans.is_banned(address.ip()).await?: a ban closes the *)
(* connection; a repository error returns Err.                           *)
IpCheck(c) ==
  /\ pc[c] = "ipcheck"
  /\ IF c \in BannedIps THEN Goto(c, "closed")
     ELSE Goto(c, "handshake") \/ Goto(c, "closed")
  /\ UNCHANGED <<name, loginInfo, online, statusCount, clientLogin>>

(* handle_handshake, then the match on next_state: a handshake that does  *)
(* not decode, or a Login whose protocol version is not 765 (answered    *)
(* with LoginDisconnect), closes the connection.                          *)
Handshake(c) ==
  /\ pc[c] = "handshake"
  /\ \/ Goto(c, "status")
     \/ Goto(c, "login_start")
     \/ Goto(c, "closed")
  /\ UNCHANGED <<name, loginInfo, online, statusCount, clientLogin>>

(* handle_status, StatusRequest: players.online is the size of the       *)
(* online-player map read under its lock.                                 *)
StatusRequest(c) ==
  /\ pc[c] = "status"
  /\ statusCount' = [statusCount EXCEPT ![c] = Cardinality(online)]
  /\ UNCHANGED <<pc, name, loginInfo, online, clientLogin>>

(* handle_status: PingRequest answered then `break`, EOF, or an error.    *)
StatusEnd(c) ==
  /\ pc[c] = "status"
  /\ Goto(c, "closed")
  /\ UNCHANGED <<name, loginInfo, online, statusCount, clientLogin>>

(* handle_login_start: read_packet and decode; a LoginStart whose name is *)
(* already in the online table is refused with LoginDisconnect; EOF, a   *)
(* decode error or another packet closes the connection.                  *)
LoginStart(c) ==
  /\ pc[c] = "login_start"
  /\ \/ \E n \in Names :
          IF n \in online
          THEN Goto(c, "closed") /\ UNCHANGED name
          ELSE Goto(c, "ban_check") /\ name' = [name EXCEPT ![c] = n]
     \/ Goto(c, "closed") /\ UNCHANGED name
  /\ UNCHANGED <<loginInfo, online, statusCount, clientLogin>>

(* handle_login_start: user_bans.is_banned(&name).await?: a ban is        *)
(* answered with LoginDisconnect; an error returns Err.                    *)
BanCheck(c) ==
  /\ pc[c] = "ban_check"
  /\ IF name[c] \in BannedNames THEN Goto(c, "closed")
     ELSE Goto(c, "connect") \/ Goto(c, "closed")
  /\ UNCHANGED <<name, loginInfo, online, statusCount, clientLogin>>

(* handle_proxy: connect_to_server (DNS, TCP) and the forwarding of the   *)
(* Handshake and LoginStart; any failure returns.                          *)
Connect(c) ==
  /\ pc[c] = "connect"
  /\ Goto(c, "proxy") \/ Goto(c, "closed")
  /\ UNCHANGED <<name, loginInfo, online, statusCount, clientLogin>>

(* handle_server, LoginSuccess: login_info is written under its lock and  *)
(* the lock dropped; handle_server then awaits add_online_player.  The    *)
(* backend answers the forwarded LoginStart with the same username.        *)
LoginSuccess(c) ==
  /\ pc[c] = "proxy" /\ loginInfo[c] = None
  /\ loginInfo' = [loginInfo EXCEPT ![c] = name[c]]
  /\ Goto(c, "adding")
  /\ UNCHANGED <<name, online, statusCount, clientLogin>>

(* add_online_player: HashMap::insert under the write lock (overwrites).  *)
AddOnlinePlayer(c) ==
  /\ pc[c] = "adding"
  /\ online' = online \cup {loginInfo[c]}
  /\ Goto(c, "proxy")
  /\ UNCHANGED <<name, loginInfo, statusCount, clientLogin>>

Live == {"proxy", "adding"}

(* Variant of Teardown: the entry is left in the table.                    *)
TeardownKeepsEntry(c) ==
  /\ pc[c] \in Live
  /\ Goto(c, "closed")
  /\ UNCHANGED <<name, loginInfo, online, statusCount, clientLogin>>

(* One of the three tasks of handle_proxy's select! returns (EOF, error); *)
(* the others are dropped, an add_online_player not yet run included.     *)
(* Then, if login_username() is set, remove_online_player(&username)       *)
(* removes that name, whoever inserted it.                                 *)
Teardown(c) ==
  /\ pc[c] \in Live
  /\ Goto(c, "closed")
  /\ online' = IF loginInfo[c] = None THEN online ELSE online \ {loginInfo[c]}
  /\ UNCHANGED <<name, loginInfo, statusCount, clientLogin>>

(* handle_client decodes the client's LoginAcknowledged (sent after it   *)
(* received LoginSuccess) and set_state(Configuration) switches the codec *)
(* out of Login.                                                           *)
LoginAcknowledged(c) ==
  /\ pc[c] = "proxy" /\ loginInfo[c] # None /\ clientLogin[c]
  /\ clientLogin' = [clientLogin EXCEPT ![c] = FALSE]
  /\ UNCHANGED <<pc, name, loginInfo, online, statusCount>>

(* In the Login state the client codec decodes EncryptionResponse, whose  *)
(* Vec<u8> fields are read by read_byte_array: a negative VarInt length   *)
(* cast to usize makes vec![0; length] panic (capacity overflow).  The    *)
(* panic unwinds the spawned connection task through handle_proxy: the    *)
(* other branches of the select! are dropped and the teardown after it    *)
(* never runs.                                                             *)
DecodePanic(c) ==
  /\ pc[c] \in Live /\ clientLogin[c]
  /\ Goto(c, "panicked")
  /\ UNCHANGED <<name, loginInfo, online, statusCount, clientLogin>>

Done == \A c \in Conns : pc[c] \in {"closed", "panicked"}

Next ==
  \/ \E c \in Conns :
       \/ IpCheck(c) \/ Handshake(c) \/ StatusRequest(c) \/ StatusEnd(c)
       \/ LoginStart(c) \/ BanCheck(c) \/ Connect(c)
       \/ LoginSuccess(c) \/ AddOnlinePlayer(c) \/ LoginAcknowledged(c)
       \/ DecodePanic(c) \/ Teardown(c)
  \/ Done /\ UNCHANGED vars

Spec == Init /\ [][Next]_vars

-----------------------------------------------------------------------------
(* Properties *)

Stages == {"ipcheck", "handshake", "status", "login_start", "ban_check",
           "connect", "proxy", "adding", "closed", "panicked"}

TypeOK ==
  /\ pc \in [Conns -> Stages]
  /\ name \in [Conns -> Names \cup {None}]
  /\ loginInfo \in [Conns -> Names \cup {None}]
  /\ online \subseteq Names
  /\ statusCount \in [Conns -> 0..Cardinality(Names)]
  /\ clientLogin \in [Conns -> BOOLEAN]

InSession(c, n) == pc[c] \in Live /\ loginInfo[c] = n

(* Every name in the online-player table belongs to a connection that is  *)
(* still in its proxy loop and logged in under that name: teardown always *)
(* removes what LoginSuccess inserted (spec section 5).                    *)
NoGhostEntries == \A n \in online : \E c \in Conns : InSession(c, n)

(* Every way a connection task ends but a panic runs the teardown: each   *)
(* name in the table belongs to a live session or to a task that panicked *)
(* after LoginSuccess, including when the select! ends between login_info *)
(* and add_online_player.                                                  *)
EntriesOwned ==
  \A n \in online : \E c \in Conns :
    loginInfo[c] = n /\ pc[c] \in Live \cup {"panicked"}

(* handle_login_start refuses a name that is already logged in: no two    *)
(* live connections are in session under the same name (spec 4.F,         *)
(* end-to-end scenario 5).                                                 *)
NoDuplicateSessions ==
  \A c1, c2 \in Conns :
    c1 # c2 /\ loginInfo[c1] # None /\ InSession(c1, loginInfo[c1])
      => ~InSession(c2, loginInfo[c1])

=============================================================================
