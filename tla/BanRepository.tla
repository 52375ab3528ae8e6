---------------------------- MODULE BanRepository ----------------------------
(***************************************************************************)
(* SqlxUserBansRepository (src/src/repository/user_bans.rs) and            *)
(* SqlxIpBansRepository (ip_bans.rs), which run the same statements keyed  *)
(* by name and by address.  They differ in when is_banned reads the clock:*)
(* user_bans before its SELECT, ip_bans after it.                          *)
(* Each SQL statement is one atomic step; at every `.await` between two    *)
(* statements the other callers run: connections in handle_conn and       *)
(* handle_login_start, and command handlers (BAN_*, UNBAN_*, IS_*_BANNED,  *)
(* GET_*_BANS).  The table is keyed by name, so an INSERT of a name that   *)
(* has a row fails (unique key) and an UPDATE of a name without one fails  *)
(* in fetch_one (RowNotFound).  Any statement may fail with a database     *)
(* error, which `?` returns to the caller, except the DELETE of an expired *)
(* row, whose error is logged and ignored.                                 *)
(***************************************************************************)
EXTENDS Integers, IpBinaryData

CONSTANTS
  Keys,       \* usernames and addresses
  IpKeys,     \* the addresses: keys of the ip_bans table
  Callers,    \* concurrent tasks calling the repository
  Writers,    \* the callers that issue add_ban and is_banned, the calls
              \* that read a row and then write depending on it
  Reasons,    \* ban reasons
  Durations,  \* durations add_ban is given (Never for None)
  MaxTime,    \* bound of the clock
  Never,      \* expiration None
  NoRow,      \* no row for the key
  Addresses   \* IpAddr values the ip_bans key encoding is checked over

VARIABLES
  now,        \* Utc::now()
  table,      \* table[k]: the row [exp, reason] or NoRow
  op,         \* op[c]: the repository call c is in, or "idle"
  at,         \* at[c]: the statement c executes next
  key,        \* the call's arguments
  exp,
  reason,
  lastCheck,  \* lastCheck[c]: whether c's last is_banned returned Some
  callNow     \* callNow[c]: Utc::now() read when c's call began

vars == <<now, table, op, at, key, exp, reason, lastCheck, callNow>>

(* Variant of Exp: the duration subtracted from now.                      *)
ExpSubtracted(t, d) == IF d = Never THEN Never ELSE t - d

(* `expiration.map(|exp| now + exp)`                                       *)
Exp(t, d) == IF d = Never THEN Never ELSE t + d

(* Variant of Expired: the comparison `now >= expiration`.                *)
ExpiredAtBoundary(row, t) == row.exp # Never /\ t >= row.exp

(* `matches!(row.expiration, Some(expiration) if now > expiration)`        *)
Expired(row, t) == row.exp # Never /\ t > row.exp

Init ==
  /\ now = 0
  /\ table = [k \in Keys |-> NoRow]
  /\ op = [c \in Callers |-> "idle"] /\ at = [c \in Callers |-> "none"]
  /\ key = [c \in Callers |-> CHOOSE k \in Keys : TRUE]
  /\ exp = [c \in Callers |-> Never]
  /\ reason = [c \in Callers |-> CHOOSE r \in Reasons : TRUE]
  /\ lastCheck = [c \in Callers |-> FALSE]
  /\ callNow = [c \in Callers |-> 0]

Tick ==
  /\ now < MaxTime /\ now' = now + 1
  /\ UNCHANGED <<table, op, at, key, exp, reason, lastCheck, callNow>>

(* The instant is_banned judges expiry at: user_bans compares with the    *)
(* `now` it read before the SELECT (inside add_ban, add_ban's own `now`); *)
(* ip_bans calls Utc::now() after the SELECT has returned.               *)
ExpiryNow(c) == IF key[c] \in IpKeys THEN now ELSE callNow[c]

Return(c) == op' = [op EXCEPT ![c] = "idle"] /\ at' = [at EXCEPT ![c] = "none"]
Goto(c, s) == at' = [at EXCEPT ![c] = s] /\ UNCHANGED op

-----------------------------------------------------------------------------
(* Calls, as handle_command makes them: BAN_* calls add_ban with the      *)
(* duration in ms (None for a permanent ban), UNBAN_* remove_ban,          *)
(* IS_*_BANNED is_banned, GET_*_BANS get_bans; handle_conn and            *)
(* handle_login_start call is_banned too.  add_ban computes               *)
(* exp = now + duration before its first await.                            *)

CallAddBan(c) ==
  /\ c \in Writers /\ op[c] = "idle"
  /\ \E k \in Keys, d \in Durations, r \in Reasons :
       /\ key' = [key EXCEPT ![c] = k]
       /\ exp' = [exp EXCEPT ![c] = Exp(now, d)]
       /\ reason' = [reason EXCEPT ![c] = r]
  /\ op' = [op EXCEPT ![c] = "add"] /\ at' = [at EXCEPT ![c] = "select"]
  /\ callNow' = [callNow EXCEPT ![c] = now]
  /\ UNCHANGED <<now, table, lastCheck>>

CallOther(c, o, s) ==
  /\ op[c] = "idle"
  /\ \E k \in Keys : key' = [key EXCEPT ![c] = k]
  /\ op' = [op EXCEPT ![c] = o] /\ at' = [at EXCEPT ![c] = s]
  /\ callNow' = [callNow EXCEPT ![c] = now]
  /\ UNCHANGED <<now, table, exp, reason, lastCheck>>

CallIsBanned(c)  == c \in Writers /\ CallOther(c, "check", "select")
CallRemoveBan(c) == CallOther(c, "remove", "exec")
CallGetBans(c)   == CallOther(c, "list", "exec")

-----------------------------------------------------------------------------
(* is_banned: SELECT the row; if it has expired, DELETE it (a separate    *)
(* statement) and return None.  Inside add_ban, the result decides        *)
(* between returning the unchanged ban, UPDATE and INSERT.                 *)
SelectRow(c) ==
  /\ at[c] = "select"
  /\ LET row == table[key[c]] IN
     IF row # NoRow /\ Expired(row, ExpiryNow(c))
     THEN Goto(c, "delete") /\ UNCHANGED lastCheck
     ELSE IF op[c] = "check"
     THEN Return(c) /\ lastCheck' = [lastCheck EXCEPT ![c] = (row # NoRow)]
     ELSE /\ UNCHANGED lastCheck
          /\ CASE row = NoRow -> Goto(c, "insert")
               [] row.exp # exp[c] \/ row.reason # reason[c] -> Goto(c, "update")
               [] OTHER -> Return(c)
  /\ UNCHANGED <<now, table, key, exp, reason, callNow>>

(* `DELETE FROM user_bans WHERE username = $1`: whatever row the name has *)
(* now; a failure is ignored (`let _ =`).  is_banned then returns None.    *)
DeleteExpired(c) ==
  /\ at[c] = "delete"
  /\ \/ table' = [table EXCEPT ![key[c]] = NoRow]
     \/ UNCHANGED table
  /\ IF op[c] = "check"
     THEN Return(c) /\ lastCheck' = [lastCheck EXCEPT ![c] = FALSE]
     ELSE Goto(c, "insert") /\ UNCHANGED lastCheck
  /\ UNCHANGED <<now, key, exp, reason, callNow>>

Row(c) == [exp |-> exp[c], reason |-> reason[c]]

(* add_ban, no ban found: INSERT ... RETURNING *.                          *)
Insert(c) ==
  /\ at[c] = "insert"
  /\ table' = IF table[key[c]] = NoRow
              THEN [table EXCEPT ![key[c]] = Row(c)] ELSE table
  /\ Return(c)
  /\ UNCHANGED <<now, key, exp, reason, lastCheck, callNow>>

(* add_ban, a different ban found: UPDATE ... RETURNING * with fetch_one. *)
Update(c) ==
  /\ at[c] = "update"
  /\ table' = IF table[key[c]] # NoRow
              THEN [table EXCEPT ![key[c]] = Row(c)] ELSE table
  /\ Return(c)
  /\ UNCHANGED <<now, key, exp, reason, lastCheck, callNow>>

(* remove_ban: DELETE ... RETURNING * (Some when a row, even an expired   *)
(* one, was deleted).                                                      *)
RemoveBan(c) ==
  /\ op[c] = "remove" /\ at[c] = "exec"
  /\ table' = [table EXCEPT ![key[c]] = NoRow]
  /\ Return(c)
  /\ UNCHANGED <<now, key, exp, reason, lastCheck, callNow>>

(* get_bans: SELECT * FROM user_bans, every row.                           *)
GetBans(c) ==
  /\ op[c] = "list" /\ at[c] = "exec"
  /\ Return(c)
  /\ UNCHANGED <<now, table, key, exp, reason, lastCheck, callNow>>

(* A statement whose error `?` returns: the SELECT, INSERT, UPDATE, the   *)
(* DELETE of remove_ban, the SELECT of get_bans.                           *)
StatementFails(c) ==
  /\ at[c] \in {"select", "insert", "update", "exec"}
  /\ Return(c)
  /\ UNCHANGED <<now, table, key, exp, reason, lastCheck, callNow>>

Next ==
  \/ Tick
  \/ \E c \in Callers :
       \/ CallAddBan(c) \/ CallIsBanned(c) \/ CallRemoveBan(c) \/ CallGetBans(c)
       \/ SelectRow(c) \/ DeleteExpired(c) \/ Insert(c) \/ Update(c)
       \/ RemoveBan(c) \/ GetBans(c) \/ StatementFails(c)

Spec == Init /\ [][Next]_vars

-----------------------------------------------------------------------------
(* Properties *)

TypeOK ==
  /\ now \in 0..MaxTime
  /\ \A k \in Keys : table[k] = NoRow \/ table[k].reason \in Reasons
  /\ op \in [Callers -> {"idle", "add", "check", "remove", "list"}]
  /\ at \in [Callers -> {"none", "select", "delete", "insert", "update", "exec"}]
  /\ key \in [Callers -> Keys] /\ reason \in [Callers -> Reasons]
  /\ exp \in [Callers -> Nat \cup {Never}]
  /\ lastCheck \in [Callers -> BOOLEAN] /\ callNow \in [Callers -> 0..MaxTime]

(* The repository implements BanStore: every call takes effect at one     *)
(* instant or fails without effect, is_banned answers whether the ban is  *)
(* active at that instant, and a ban disappears only through remove_ban   *)
(* or, once expired, through the lazy DELETE of is_banned.                 *)
Abs == INSTANCE BanStore WITH
  None <- NoRow,
  ban <- table,
  pend <- [c \in Callers |->
             [op |-> op[c], key |-> key[c],
              done |-> (op[c] = "check" /\ at[c] = "delete")]],
  pexp <- exp,
  pnow <- callNow,
  preason <- reason,
  res <- [c \in Callers |->
            IF op[c] = "check" /\ at[c] = "delete" THEN FALSE ELSE lastCheck[c]]

BanStoreRefined == Abs!Spec

(* Expired bans are semantically absent (spec section 3) to every        *)
(* command, not only to is_banned: UNBAN_PLAYER answers changed =         *)
(* remove_ban(..).is_some() only when it removed an active ban, and       *)
(* GET_PLAYER_BANS lists get_bans() only when every ban it returns is     *)
(* active.                                                                 *)
ExpiredBansAbsent ==
  [][\A c \in Callers :
       /\ RemoveBan(c) /\ table[key[c]] # NoRow => ~Expired(table[key[c]], now)
       /\ GetBans(c) => \A k \in Keys : table[k] = NoRow \/ ~Expired(table[k], now)]_vars


(* Every statement of SqlxIpBansRepository finds its row by the bytes     *)
(* IpBinaryData::encode_by_ref binds, and its RETURNING rows and get_bans *)
(* come back through decode.  So whenever ip_bans holds a row for an      *)
(* address: decode of its key gives back that address (a failure would    *)
(* fail every call that returns the row), no other address's statements   *)
(* find the row (an IPv4 address and its IPv4-mapped IPv6 form are        *)
(* different rows), and decode rejects every byte vector encode cannot    *)
(* write (other lengths, other tags) instead of reading an address.       *)
KeyVectors ==
  {Encode(a) : a \in Addresses} \cup {<<>>}
  \cup {<<t>> \o [i \in 1..n |-> b] : t \in {4, 6}, n \in {3, 4, 5, 15, 16, 17}, b \in {0, 255}}

IpKeysFaithful ==
  \A k \in IpKeys : table[k] # NoRow =>
    /\ Decode(Encode(k)) = [ok |-> TRUE, ip |-> k]
    /\ \A a \in Addresses : Encode(a) = Encode(k) => a = k
    /\ \A bs \in KeyVectors : Decode(bs).ok => Encode(Decode(bs).ip) = bs

=============================================================================
