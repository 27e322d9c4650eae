------------------------------- MODULE Config -------------------------------
(***************************************************************************)
(* config_read of cfg.c: defaults, then one option per line in the order   *)
(* of the file, with _config_sanitize after each.                          *)
(*                                                                         *)
(* A path is what access() says of it; of the addresses of listen and      *)
(* inform_agent, those that getaddrinfo resolves are counted.  A line that *)
(* is empty, a comment or without a value has the token "#".  A number     *)
(* that sscanf cannot read leaves the option alone, as an unknown token.   *)
(***************************************************************************)
EXTENDS Integers, Sequences, FiniteSets

CONSTANTS
    ConfigFiles,   \* what the configuration file may contain
    Unreadable     \* paths that access() refuses

MAX_LISTEN == 256
MAX_INCONN == 256

IntOption == {"action_threshold", "time_interval", "purge_after", "server",
              "server_timeout", "inform", "inform_retry", "inform_retry_wait",
              "maxinconnections", "remote_authoritative", "server_backlog"}
CheckedPath == {"syslogfile", "action", "exclude", "ssl_ca_file", "ssl_crl_file",
                "ssl_server_cert", "ssl_server_key", "ssl_client_cert",
                "ssl_client_key"}
TextOption == CheckedPath \cup {"pidfile", "regex"}
ListOption == {"listen", "inform_agent"}
Option == IntOption \cup TextOption \cup ListOption

Line == [token : IntOption, value : Int]
        \cup [token : TextOption, value : STRING]
        \cup [token : ListOption, value : Seq(BOOLEAN)]   \* resolved or not
        \cup [token : {"#", "unknown"}]

ASSUME ConfigFilesType == ConfigFiles \subseteq Seq(Line) /\ "" \notin Unreadable

VARIABLES
    cfgfile,   \* the lines of the configuration file
    lineno,    \* lines read so far
    CONFIG,
    reading    \* "open", "lines", "paths", "done"; "exit" or "abort" end the process

configVars == <<cfgfile, lineno, CONFIG, reading>>

\* server_backlog and remote_authoritative are zero because CONFIG is static;
\* _init_config does not mention them.
_init_config ==
    [o \in Option |->
       CASE o = "action_threshold" -> 3      [] o = "time_interval" -> 60
         [] o = "purge_after" -> 3600        [] o = "server_timeout" -> 5
         [] o = "inform_retry" -> 30         [] o = "inform_retry_wait" -> 3
         [] o = "maxinconnections" -> 5
         [] o \in {"server", "inform", "server_backlog", "remote_authoritative"} -> 0
         [] o \in ListOption -> 0
         [] o = "syslogfile" -> "/var/log/authlog"
         [] o = "action" -> "/bin/true"
         [] o \in {"pidfile", "regex"} -> "default"
         [] OTHER -> ""]

ConfigInit ==
    /\ cfgfile \in ConfigFiles
    /\ lineno = 0
    /\ CONFIG = _init_config
    /\ reading = "open"
-----------------------------------------------------------------------------
Positive(n, default) == IF n < 1 THEN default ELSE n
Flag(n) == IF n # 0 THEN 1 ELSE 0
AtMost(n, bound) == IF n > bound THEN bound ELSE n

\* Mutant: the backlog is left as it is.
MutSanitize(c) ==
    [o \in Option |->
       CASE o = "maxinconnections" -> Positive(AtMost(c[o], MAX_INCONN), 5)
         [] o = "server_timeout" -> Positive(c[o], 5)
         [] o \in {"inform_retry_wait", "action_threshold"} -> Positive(c[o], 3)
         [] o = "time_interval" -> Positive(c[o], 60)
         [] o = "purge_after" -> Positive(c[o], 3600)
         [] o \in {"inform", "server"} -> Flag(c[o])
         [] OTHER -> c[o]]

_config_sanitize(c) ==
    [o \in Option |->
       CASE o = "server_backlog" -> Positive(c[o], 64)
         [] o = "maxinconnections" -> Positive(AtMost(c[o], MAX_INCONN), 5)
         [] o = "server_timeout" -> Positive(c[o], 5)
         [] o \in {"inform_retry_wait", "action_threshold"} -> Positive(c[o], 3)
         [] o = "time_interval" -> Positive(c[o], 60)
         [] o = "purge_after" -> Positive(c[o], 3600)
         [] o \in {"inform", "server"} -> Flag(c[o])
         [] OTHER -> c[o]]

Resolved(items) == Cardinality({i \in DOMAIN items : items[i]})

\* _config_callback_listen and _config_callback_inform.
Addresses(token, items) ==
    IF token = "listen" THEN AtMost(Resolved(items), MAX_LISTEN) ELSE Resolved(items)

\* _set_config_option, up to its call of _config_sanitize.
Assigned(line) ==
    CASE line.token \in IntOption \cup TextOption ->
                [CONFIG EXCEPT ![line.token] = line.value]
      [] line.token \in ListOption ->
                [CONFIG EXCEPT ![line.token] = Addresses(line.token, line.value)]
      [] OTHER -> CONFIG

\* The callbacks assert that their list is empty.
AssertionFails(line) == line.token \in ListOption /\ CONFIG[line.token] # 0

\* The file may be missing or unreadable.
OpenConfig ==
    /\ reading = "open"
    /\ reading' \in {"lines", "exit"}
    /\ UNCHANGED <<cfgfile, lineno, CONFIG>>

\* Mutant: each round takes a line more than it looks at.
MutSetOption ==
    /\ reading = "lines"
    /\ lineno < Len(cfgfile)
    /\ lineno' = lineno + 2
    /\ CONFIG' = _config_sanitize(Assigned(cfgfile[lineno + 1]))
    /\ UNCHANGED <<cfgfile, reading>>

\* One round of the loop of config_read.  The last line is not applied twice,
\* although feof() is tested before fgets(): strsep has cut off its value.
_set_config_option ==
    /\ reading = "lines"
    /\ lineno < Len(cfgfile)
    /\ lineno' = lineno + 1
    /\ LET line == cfgfile[lineno + 1]
       IN  IF AssertionFails(line)
           THEN reading' = "abort" /\ UNCHANGED CONFIG
           ELSE /\ CONFIG' = IF line.token = "#" THEN CONFIG
                             ELSE _config_sanitize(Assigned(line))
                /\ UNCHANGED reading
    /\ UNCHANGED cfgfile

\* _check_paths_in_config: a path that is given has to be accessible.
_check_paths_in_config ==
    /\ reading = "lines"
    /\ lineno = Len(cfgfile)
    /\ reading' = IF \E o \in CheckedPath : CONFIG[o] \in Unreadable THEN "exit"
                  ELSE "paths"
    /\ UNCHANGED <<cfgfile, lineno, CONFIG>>

\* The default for listen.
config_read_end ==
    /\ reading = "paths"
    /\ CONFIG' = IF CONFIG["listen"] = 0 THEN [CONFIG EXCEPT !["listen"] = 1] ELSE CONFIG
    /\ reading' = "done"
    /\ UNCHANGED <<cfgfile, lineno>>

config_read == OpenConfig \/ _set_config_option \/ _check_paths_in_config \/ config_read_end

ConfigSpec == ConfigInit /\ [][config_read]_configVars
-----------------------------------------------------------------------------
(* Properties *)

ConfigTypeOK ==
    /\ cfgfile \in Seq(Line)
    /\ lineno \in 0..Len(cfgfile)
    /\ DOMAIN CONFIG = Option
    /\ \A o \in IntOption : CONFIG[o] \in Int
    /\ \A o \in ListOption : CONFIG[o] \in Nat
    /\ reading \in {"open", "lines", "paths", "done", "exit", "abort"}

\* What the other parts take for granted of CONFIG, whatever options the file
\* has and in which order: the server never runs with a backlog, a limit of
\* connections or a timeout below one or without an address (server.c,
\* worker.c), though _init_config sets no backlog; thresholds and intervals
\* are positive (records.c, threads.c).
ConfigSound ==
    reading = "done" =>
        /\ \A o \in {"action_threshold", "time_interval", "purge_after",
                     "inform_retry_wait", "server_timeout"} : CONFIG[o] >= 1
        /\ CONFIG["maxinconnections"] \in 1..MAX_INCONN
        /\ CONFIG["listen"] \in 1..MAX_LISTEN
        /\ CONFIG["server"] \in {0, 1} /\ CONFIG["inform"] \in {0, 1}
        /\ CONFIG["server"] = 1 => CONFIG["server_backlog"] >= 1
=============================================================================
