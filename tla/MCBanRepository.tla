--------------------------- MODULE MCBanRepository ---------------------------
(* Instances of BanRepository for TLC.  One name is enough: every         *)
(* statement is keyed by the name, so calls on different names commute.   *)
(* Two reasons let add_ban meet both an equal ban (no write) and a         *)
(* different one (UPDATE).                                                 *)
EXTENDS BanRepository

CONSTANT k1   \* a username

(* Addresses for the key encoding: IPv4 addresses at the octet extremes   *)
(* and one whose octets are the two family tags, their IPv4-mapped IPv6   *)
(* forms, and :: and an IPv6 address that starts with tag byte 4.          *)

MCV4 == {IpAddr(4, o) : o \in {<<0, 0, 0, 0>>, <<255, 255, 255, 255>>, <<4, 0, 0, 6>>}}
MCAddresses ==
  MCV4 \cup {V4Mapped(a) : a \in MCV4}
  \cup {IpAddr(6, [i \in 1..16 |-> 0]), IpAddr(6, <<4>> \o [i \in 1..15 |-> 255])}
(* The address of the pass run: an IPv6 key, the 17-byte form, and the   *)
(* IPv4-mapped form of an address that is also among MCAddresses.          *)
MCIpKey == V4Mapped(IpAddr(4, <<4, 0, 0, 6>>))
MCKeys == {k1, MCIpKey}
MCIpKeys == {MCIpKey}
=============================================================================
