---------------------------- MODULE IpBinaryData ----------------------------
(***************************************************************************)
(* The column type of ip_bans.ip (src/src/repository/ip_bans.rs): an     *)
(* IpAddr is stored as a byte vector, its family tag (4 or 6) followed by *)
(* its octets.  Every statement of SqlxIpBansRepository binds the address *)
(* through encode_by_ref, so rows are matched by these bytes; get_bans and *)
(* the RETURNING clauses read them back through decode, and a row whose   *)
(* bytes decode fails makes the whole call fail.                           *)
(***************************************************************************)
EXTENDS Integers, Sequences

(* IpAddr::V4 or IpAddr::V6 with its octets (4 or 16 bytes).             *)
IpAddr(v, octets) == [v |-> v, octets |-> octets]

(* Ipv6Addr::to_ipv4_mapped's inverse: ::ffff:a.b.c.d, the address an    *)
(* IPv4 peer has on a dual-stack IPv6 socket.                              *)
V4Mapped(ip) == IpAddr(6, [i \in 1..10 |-> 0] \o <<255, 255>> \o ip.octets)

(* encode_by_ref: push the tag, extend with ip.octets().                  *)
Encode(ip) == <<ip.v>> \o ip.octets

DecodeErr == [ok |-> FALSE, ip |-> IpAddr(0, <<>>)]

(* Variant of Decode: the IPv6 length tested as 16.                       *)
DecodeV6Short(bs) ==
  CASE Len(bs) = 0 -> DecodeErr
    [] Len(bs) = 5 /\ bs[1] = 4 -> [ok |-> TRUE, ip |-> IpAddr(4, Tail(bs))]
    [] Len(bs) = 16 /\ bs[1] = 6 -> [ok |-> TRUE, ip |-> IpAddr(6, Tail(bs))]
    [] OTHER -> DecodeErr

(* decode: the first byte, or "Unexpected value IP size" for an empty     *)
(* vector; then length 5 with tag 4 or length 17 with tag 6; anything     *)
(* else is "Unexpected value IP type".                                     *)
Decode(bs) ==
  CASE Len(bs) = 0 -> DecodeErr
    [] Len(bs) = 5 /\ bs[1] = 4 -> [ok |-> TRUE, ip |-> IpAddr(4, Tail(bs))]
    [] Len(bs) = 17 /\ bs[1] = 6 -> [ok |-> TRUE, ip |-> IpAddr(6, Tail(bs))]
    [] OTHER -> DecodeErr

=============================================================================
