---------------------------- MODULE MCFrameCodec ----------------------------
EXTENDS FrameCodec

(* The bytes standing for the channel names: "basileia:proxy" and two     *)
(* others, one a prefix of it and one it is a prefix of.                   *)
MCProxyChannel == <<98, 58>>
MCChannels == {MCProxyChannel, <<98>>, <<98, 58, 112>>}

CB(st, id, fs) == [dir |-> "cb", st |-> st, id |-> id, fields |-> fs]
SB(st, id, fs) == [dir |-> "sb", st |-> st, id |-> id, fields |-> fs]

(* Login: one of each catalog entry, SetCompression with a negative, a     *)
(* zero and a small threshold, and LoginPluginRequests whose message ids   *)
(* are VarInt boundaries (two bytes, five with the sign bit) and one whose *)
(* data makes the frame longer than 127 bytes, so that its length and      *)
(* data_length take two.                                                   *)
MCLogin ==
  {CB("login", 0, <<<<97>>>>), CB("login", 1, <<<<>>, <<1, 2>>, <<3>>>>),
   CB("login", 2, <<[i \in 1..16 |-> i], <<97, 98>>>>)}
  \cup {CB("login", 3, <<t>>) : t \in {-1, 0, 3}}
  \cup {CB("login", 4, <<m, <<99>>, <<5>>>>) : m \in {128, -2147483647 - 1}}
  \cup {CB("login", 4, <<0, <<99>>, [i \in 1..130 |-> 7]>>)}

(* Configuration: plugin messages on each channel, KeepAlive, Ping and    *)
(* FinishConfiguration.                                                     *)
MCConfig ==
  {CB("config", 0, <<ch, <<1>>>>) : ch \in MCChannels}
  \cup {CB("config", 3, <<[i \in 1..8 |-> i]>>), CB("config", 4, <<<<0, 0, 0, 9>>>>),
        CB("config", 2, <<>>)}

(* Play: plugin messages on each channel, with empty and non-empty data,   *)
(* and Other packets with one-byte and two-byte type ids.                   *)
MCPlay ==
  {CB("play", 24, <<ch, dt>>) : ch \in MCChannels, dt \in {<<>>, <<2, 3>>}}
  \cup {CB("play", i, <<<<4>>>>) : i \in {0, 200}}

MCPackets == MCLogin \cup MCConfig \cup MCPlay

(* The client's own packets: ClientInformation and the brand plugin       *)
(* message in Configuration, a plugin message and an Other in Play.       *)
MCClientPackets ==
  {SB("config", 0, <<<<101, 110>>, <<8>>, 0, TRUE, <<127>>, 1, FALSE, TRUE>>),
   SB("config", 1, <<<<109>>, <<118>>>>),
   SB("play", 16, <<MCProxyChannel, <<1>>>>), SB("play", 5, <<<<6>>>>)}

MCMaxFrames == 8
MCMaxPerState == [login |-> 2, config |-> 1, play |-> 1]
MCMaxClientFrames == 2
=============================================================================
