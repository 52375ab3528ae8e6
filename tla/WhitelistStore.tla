---------------------------- MODULE WhitelistStore ----------------------------
(***************************************************************************)
(* What the whitelist commands promise their callers (spec sections 3,    *)
(* 4.G and 6): the whitelist is a set of usernames plus an enabled flag    *)
(* (absent means disabled).  Each command takes effect at one instant     *)
(* between its request and its response, or fails with an error response  *)
(* and no effect.  SET_WHITELIST_ENABLED answers changed = (previous value *)
(* == requested), as the spec's command table states.                      *)
(***************************************************************************)
CONSTANTS Handlers, Names

VARIABLES
  wl,       \* the whitelisted usernames
  enabled,  \* the whitelist.enabled flag
  pend,     \* pend[h]: h's command [op, name, arg]; op is "idle" between commands
  resp      \* resp[h]: the response to h's last command

avars == <<wl, enabled, pend, resp>>

Ops == {"set", "isEnabled", "isWl", "add", "remove", "getAll"}

Resp(b) == [ok |-> TRUE, flag |-> b, names |-> {}]
ListResp(S) == [ok |-> TRUE, flag |-> FALSE, names |-> S]
ErrResp == [ok |-> FALSE, flag |-> FALSE, names |-> {}]

Init ==
  /\ wl = {} /\ enabled = FALSE
  /\ pend \in [Handlers -> [op: {"idle"}, name: Names, arg: BOOLEAN]]
  /\ resp = [h \in Handlers |-> ErrResp]

Request(h) ==
  /\ pend[h].op = "idle"
  /\ \E o \in Ops, n \in Names, b \in BOOLEAN :
       pend' = [pend EXCEPT ![h] = [op |-> o, name |-> n, arg |-> b]]
  /\ UNCHANGED <<wl, enabled, resp>>

(* h's command takes effect with the response r. *)
Respond(h, r) ==
  /\ resp' = [resp EXCEPT ![h] = r]
  /\ pend' = [pend EXCEPT ![h].op = "idle"]

Execute(h) ==
  LET n == pend[h].name  b == pend[h].arg IN
  /\ pend[h].op # "idle"
  /\ CASE pend[h].op = "set" ->
            Respond(h, Resp(enabled = b)) /\ enabled' = b /\ UNCHANGED wl
       [] pend[h].op = "isEnabled" ->
            Respond(h, Resp(enabled)) /\ UNCHANGED <<wl, enabled>>
       [] pend[h].op = "isWl" ->
            Respond(h, Resp(n \in wl)) /\ UNCHANGED <<wl, enabled>>
       [] pend[h].op = "add" ->
            Respond(h, Resp(n \notin wl)) /\ wl' = wl \cup {n} /\ UNCHANGED enabled
       [] pend[h].op = "remove" ->
            Respond(h, Resp(n \in wl)) /\ wl' = wl \ {n} /\ UNCHANGED enabled
       [] pend[h].op = "getAll" ->
            Respond(h, ListResp(wl)) /\ UNCHANGED <<wl, enabled>>

Fail(h) ==
  /\ pend[h].op # "idle"
  /\ Respond(h, ErrResp)
  /\ UNCHANGED <<wl, enabled>>

Next == \E h \in Handlers : Request(h) \/ Execute(h) \/ Fail(h)

Spec == Init /\ [][Next]_avars

=============================================================================
