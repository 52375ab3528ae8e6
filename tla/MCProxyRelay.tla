---------------------------- MODULE MCProxyRelay ----------------------------
(* Model-checking instance of ProxyRelay: bounds for the endpoints.        *)
EXTENDS ProxyRelay

MCMaxPlay == 1
MCMaxCmds == 2
\* mpsc::channel(3) in handle_proxy
MCChanCap == 3
=============================================================================
