--------------------------- MODULE WhitelistCommands ---------------------------
(***************************************************************************)
(* The whitelist commands of handle_command (src/src/commands/handler.rs)  *)
(* over SqlxWhitelistRepository (src/src/repository/whitelist.rs) and the  *)
(* key-value repository that stores its flag (src/src/repository/kv.rs).   *)
(* Every proxied connection runs its own proxy_command_events loop, so    *)
(* handlers of different connections run concurrently; each SQL statement *)
(* is one atomic step and the others run at every await between two.     *)
(* The whitelist table and the key_value table are assumed to be keyed by *)
(* username and key: an INSERT of a present key fails.  Any statement may *)
(* fail with a database error, which `?` turns into an error response.    *)
(* The flag is written only by set(), without TTL, so get_ttl's expiry    *)
(* and TTL-refresh branches are never taken for it.                        *)
(***************************************************************************)
CONSTANTS
  Handlers,    \* concurrent command handlers (one per proxied connection)
  SetCallers,  \* the handlers that may issue SET_WHITELIST_ENABLED
  Names        \* usernames in requests

ASSUME SetCallers \subseteq Handlers

VARIABLES
  wl,       \* the usernames with a row in the whitelist table
  kv,       \* the value of key_value row "whitelist.enabled", or "absent"
  cmd,      \* cmd[h]: h's request [op, name, arg]; op is "idle" between commands
  at,       \* at[h]: the statement h executes next
  before,   \* before[h]: SET_WHITELIST_ENABLED's before_enabled
  found,    \* found[h]: set_ttl's get_ttl(key, None).is_some()
  resp      \* resp[h]: the response to h's last command

vars == <<wl, kv, cmd, at, before, found, resp>>

(* The whitelist variants of CommandRequest; responses keep only what the  *)
(* client can tell apart: success with a bool (changed, enabled,          *)
(* whitelisted), success with a list of names, or an error message.       *)
Ops == {"set", "isEnabled", "isWl", "add", "remove", "getAll"}

Resp(b) == [ok |-> TRUE, flag |-> b, names |-> {}]
ListResp(S) == [ok |-> TRUE, flag |-> FALSE, names |-> S]
ErrResp == [ok |-> FALSE, flag |-> FALSE, names |-> {}]

(* Variant of Enabled: any value but "false" read as enabled.             *)
EnabledNotFalse(v) == v # "false"

(* is_enabled: `v.map_or(false, |v| v == "true")`                          *)
Enabled(v) == v = "true"

(* Variant of KvValue: the flag written as "1" / "0".                      *)
KvValueNumeric(b) == IF b THEN "1" ELSE "0"

(* set_enabled: `if enabled { "true" } else { "false" }`                   *)
KvValue(b) == IF b THEN "true" ELSE "false"

Init ==
  /\ wl = {} /\ kv = "absent"
  /\ cmd = [h \in Handlers |->
              [op |-> "idle", name |-> CHOOSE n \in Names : TRUE, arg |-> FALSE]]
  /\ at = [h \in Handlers |-> "none"]
  /\ before = [h \in Handlers |-> FALSE]
  /\ found = [h \in Handlers |-> FALSE]
  /\ resp = [h \in Handlers |-> ErrResp]

Goto(h, s) == at' = [at EXCEPT ![h] = s] /\ UNCHANGED <<cmd, resp>>

(* The command returns with response r; proxy_command_events sends it.    *)
Reply(h, r) ==
  /\ resp' = [resp EXCEPT ![h] = r]
  /\ cmd' = [cmd EXCEPT ![h].op = "idle"]
  /\ at' = [at EXCEPT ![h] = "none"]

FirstStatement(o) ==
  CASE o = "set" -> "prev" [] o = "add" -> "select" [] OTHER -> "exec"

(* handle_command_data decodes a request and dispatches it.                *)
Request(h) ==
  /\ cmd[h].op = "idle"
  /\ \E o \in (IF h \in SetCallers THEN Ops ELSE Ops \ {"set"}),
        n \in Names, b \in BOOLEAN :
       /\ cmd' = [cmd EXCEPT ![h] = [op |-> o, name |-> n, arg |-> b]]
       /\ at' = [at EXCEPT ![h] = FirstStatement(o)]
  /\ UNCHANGED <<wl, kv, before, found, resp>>

-----------------------------------------------------------------------------
(* SET_WHITELIST_ENABLED: before_enabled = is_enabled().await?, then      *)
(* set_enabled(..).await?, which is set_ttl: get_ttl(key, None) and then *)
(* UPDATE if a row was found, INSERT otherwise.                            *)

ReadPrevious(h) ==
  /\ at[h] = "prev"
  /\ before' = [before EXCEPT ![h] = Enabled(kv)]
  /\ Goto(h, "get")
  /\ UNCHANGED <<wl, kv, found>>

SetLookup(h) ==
  /\ at[h] = "get"
  /\ found' = [found EXCEPT ![h] = (kv # "absent")]
  /\ Goto(h, "write")
  /\ UNCHANGED <<wl, kv, before>>

(* UPDATE of a missing row changes nothing and succeeds; INSERT of a      *)
(* present key fails.  The response is changed = before_enabled ==        *)
(* enabled.                                                                *)
SetWrite(h) ==
  /\ at[h] = "write"
  /\ IF found[h] \/ kv = "absent"
     THEN /\ kv' = IF kv = "absent" /\ found[h] THEN kv ELSE KvValue(cmd[h].arg)
          /\ Reply(h, Resp(before[h] = cmd[h].arg))
     ELSE Reply(h, ErrResp) /\ UNCHANGED kv
  /\ UNCHANGED <<wl, before, found>>

-----------------------------------------------------------------------------
(* WHITELIST_ADD_PLAYER: add() is `if !is_whitelisted(..).await?` then    *)
(* INSERT and Changed, else Unchanged.                                     *)

AddLookup(h) ==
  /\ at[h] = "select"
  /\ IF cmd[h].name \in wl THEN Reply(h, Resp(FALSE)) ELSE Goto(h, "insert")
  /\ UNCHANGED <<wl, kv, before, found>>

AddInsert(h) ==
  /\ at[h] = "insert"
  /\ IF cmd[h].name \notin wl
     THEN wl' = wl \cup {cmd[h].name} /\ Reply(h, Resp(TRUE))
     ELSE UNCHANGED wl /\ Reply(h, ErrResp)
  /\ UNCHANGED <<kv, before, found>>

-----------------------------------------------------------------------------
(* The single-statement commands: IS_WHITELIST_ENABLED (kv SELECT),       *)
(* IS_WHITELISTED (SELECT), WHITELIST_REMOVE_PLAYER (DELETE ... RETURNING,*)
(* Changed when a row came back), WHITELIST_GET_ALL (SELECT of all rows).  *)
Exec(h) ==
  /\ at[h] = "exec"
  /\ LET n == cmd[h].name IN
     CASE cmd[h].op = "isEnabled" -> Reply(h, Resp(Enabled(kv))) /\ UNCHANGED wl
       [] cmd[h].op = "isWl" -> Reply(h, Resp(n \in wl)) /\ UNCHANGED wl
       [] cmd[h].op = "remove" -> Reply(h, Resp(n \in wl)) /\ wl' = wl \ {n}
       [] cmd[h].op = "getAll" -> Reply(h, ListResp(wl)) /\ UNCHANGED wl
  /\ UNCHANGED <<kv, before, found>>

(* A statement fails; `?` makes the command an error response.            *)
StatementFails(h) ==
  /\ at[h] # "none"
  /\ Reply(h, ErrResp)
  /\ UNCHANGED <<wl, kv, before, found>>

Next ==
  \E h \in Handlers :
    \/ Request(h) \/ ReadPrevious(h) \/ SetLookup(h) \/ SetWrite(h)
    \/ AddLookup(h) \/ AddInsert(h) \/ Exec(h) \/ StatementFails(h)

Spec == Init /\ [][Next]_vars

-----------------------------------------------------------------------------
(* Properties *)

TypeOK ==
  /\ wl \subseteq Names
  /\ kv \in {"absent", "true", "false"}
  /\ cmd \in [Handlers -> [op: Ops \cup {"idle"}, name: Names, arg: BOOLEAN]]
  /\ at \in [Handlers -> {"none", "prev", "get", "write", "select", "insert", "exec"}]
  /\ before \in [Handlers -> BOOLEAN] /\ found \in [Handlers -> BOOLEAN]

(* The commands implement WhitelistStore: every command takes effect at   *)
(* one instant or fails without effect, and its response is the one the   *)
(* store gives at that instant.                                            *)
Abs == INSTANCE WhitelistStore WITH
  enabled <- (kv = "true"),
  pend <- cmd

WhitelistStoreRefined == Abs!Spec

=============================================================================
