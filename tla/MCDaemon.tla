------------------------------ MODULE MCDaemon ------------------------------
(* Configuration files for TLC: agents alone and in a network, and files    *)
(* that main, config_read, regex_prepare or netssl_initialize refuse.       *)
EXTENDS Daemon

T(token, value) == [token |-> token, value |-> value]

Certs(ca) == <<T("ssl_ca_file", ca), T("ssl_crl_file", "crl")>>
ClientCerts == <<T("ssl_client_cert", "cert"), T("ssl_client_key", "key")>>
ServerCerts == <<T("ssl_server_cert", "cert"), T("ssl_server_key", "key")>>
Inform == <<T("inform", 7), T("inform_agent", <<TRUE, FALSE, TRUE>>)>>
Server == <<T("server", 1), T("listen", <<TRUE>>)>>

MCFiles == {
    <<T("maxinconnections", 300), T("action_threshold", 0), [token |-> "#"]>>
        \o Inform \o Certs("ca") \o ClientCerts,
    Server \o Certs("ca") \o ServerCerts,
    Server \o Certs("ca"),
    Inform \o Server \o Certs("bad") \o ClientCerts \o ServerCerts,
    Server \o <<T("listen", <<FALSE, TRUE>>)>>,
    <<T("action", "missing")>>,
    <<T("regex", "bad"), [token |-> "unknown"]>>}
=============================================================================
