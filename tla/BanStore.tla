------------------------------ MODULE BanStore ------------------------------
(***************************************************************************)
(* What a ban repository promises its callers (spec sections 3 and 4.I).   *)
(* A ban is an expiration (or Never) and a reason; a ban whose expiration  *)
(* is in the past is absent.  Each call (add_ban, is_banned, remove_ban,   *)
(* get_bans) takes effect at one instant between its invocation and its   *)
(* return, or fails without effect; is_banned judges the ban it finds    *)
(* active or expired at an instant since its invocation.  An expired ban may be dropped at any  *)
(* time (lazy expiry), and in particular by the is_banned that finds it.   *)
(***************************************************************************)
EXTENDS Naturals

CONSTANTS Keys, Callers, Reasons, Durations, MaxTime, Never, None

VARIABLES
  now,      \* the clock
  ban,      \* ban[k]: [exp, reason] or None
  pend,     \* pend[c]: c's call [op, key, done]; op is "idle" between calls
  pexp,     \* pexp[c], preason[c]: the arguments of an add_ban in progress
  preason,
  res,      \* res[c]: the result of c's last is_banned (TRUE = Some)
  pnow      \* pnow[c]: the instant c's call was invoked

avars == <<now, ban, pend, pexp, preason, res, pnow>>

Exp(t, d) == IF d = Never THEN Never ELSE t + d

Active(b, t) == b # None /\ (b.exp = Never \/ t <= b.exp)

Ops == {"add", "check", "remove", "list"}

Init ==
  /\ now = 0
  /\ ban = [k \in Keys |-> None]
  /\ pend \in [Callers -> [op: {"idle"}, key: Keys, done: {FALSE}]]
  /\ pexp \in [Callers -> {Never}] /\ preason \in [Callers -> Reasons]
  /\ res = [c \in Callers |-> FALSE]
  /\ pnow = [c \in Callers |-> 0]

Tick ==
  /\ now < MaxTime /\ now' = now + 1
  /\ UNCHANGED <<ban, pend, pexp, preason, res, pnow>>

Invoke(c) ==
  /\ pend[c].op = "idle"
  /\ \E o \in Ops, k \in Keys :
       /\ pend' = [pend EXCEPT ![c] = [op |-> o, key |-> k, done |-> FALSE]]
       /\ IF o = "add"
          THEN \E d \in Durations, r \in Reasons :
                 /\ pexp' = [pexp EXCEPT ![c] = Exp(now, d)]
                 /\ preason' = [preason EXCEPT ![c] = r]
          ELSE UNCHANGED <<pexp, preason>>
  /\ pnow' = [pnow EXCEPT ![c] = now]
  /\ UNCHANGED <<now, ban, res>>

Calling(c, o) == pend[c].op = o /\ ~pend[c].done

Done(c) == pend' = [pend EXCEPT ![c].op = "idle", ![c].done = FALSE]

Add(c) ==
  /\ Calling(c, "add")
  /\ ban' = [ban EXCEPT ![pend[c].key] = [exp |-> pexp[c], reason |-> preason[c]]]
  /\ Done(c)
  /\ UNCHANGED <<now, pexp, preason, res, pnow>>

Remove(c) ==
  /\ Calling(c, "remove")
  /\ ban' = [ban EXCEPT ![pend[c].key] = None]
  /\ Done(c)
  /\ UNCHANGED <<now, pexp, preason, res, pnow>>

(* is_banned answers whether the ban it finds now was active at an        *)
(* instant since the call began; it returns at once, or later (Finish),  *)
(* possibly dropping the expired ban it found.                             *)
Check(c) ==
  /\ Calling(c, "check")
  /\ \E t \in pnow[c]..now :
       res' = [res EXCEPT ![c] = Active(ban[pend[c].key], t)]
  /\ \/ Done(c)
     \/ pend' = [pend EXCEPT ![c].done = TRUE]
  /\ UNCHANGED <<now, ban, pexp, preason, pnow>>

Finish(c) ==
  /\ pend[c].done
  /\ LET k == pend[c].key IN
     \/ ban' = ban
     \/ ~Active(ban[k], now) /\ ban' = [ban EXCEPT ![k] = None]
  /\ Done(c)
  /\ UNCHANGED <<now, pexp, preason, res, pnow>>

List(c) ==
  /\ Calling(c, "list")
  /\ Done(c)
  /\ UNCHANGED <<now, ban, pexp, preason, res, pnow>>

Fail(c) ==
  /\ pend[c].op # "idle" /\ ~pend[c].done
  /\ Done(c)
  /\ UNCHANGED <<now, ban, pexp, preason, res, pnow>>

Expire(k) ==
  /\ ban[k] # None /\ ~Active(ban[k], now)
  /\ ban' = [ban EXCEPT ![k] = None]
  /\ UNCHANGED <<now, pend, pexp, preason, res, pnow>>

Next ==
  \/ Tick
  \/ \E c \in Callers :
       Invoke(c) \/ Add(c) \/ Remove(c) \/ Check(c) \/ Finish(c) \/ List(c) \/ Fail(c)
  \/ \E k \in Keys : Expire(k)

Spec == Init /\ [][Next]_avars

=============================================================================
