------------------------------- MODULE MCIrc --------------------------------
(* Irc with two bridged topics, of which the service hears one. *)
EXTENDS Irc

MCTopics == {<<"chat", 0, "general">>, <<"chat", 0, "dev">>, <<"orders", 0, "created">>}
MCChannels == {<<1, "general">>}
=============================================================================
