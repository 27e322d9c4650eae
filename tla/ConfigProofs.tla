---------------------------- MODULE ConfigProofs ----------------------------
(***************************************************************************)
(* Whatever the configuration file contains, config_read ends with options *)
(* that the other parts can work with.                                     *)
(***************************************************************************)
EXTENDS Config, FiniteSetTheorems, TLAPS

\* The options that are numbers are numbers, and listen is not too long.
Typed(c) ==
    /\ DOMAIN c = Option
    /\ \A o \in IntOption : c[o] \in Int
    /\ \A o \in ListOption : c[o] \in Nat
    /\ c["listen"] <= MAX_LISTEN

\* What _config_sanitize establishes, and _init_config as well.
Sane(c) ==
    /\ \A o \in {"action_threshold", "time_interval", "purge_after",
                 "inform_retry_wait", "server_timeout"} : c[o] >= 1
    /\ c["maxinconnections"] \in 1..MAX_INCONN
    /\ c["server"] \in {0, 1} /\ c["inform"] \in {0, 1}
    /\ c["server"] = 1 => c["server_backlog"] >= 1

\* The backlog is 0 until the first option has been read, and so is server.
ConfigInv ==
    /\ ConfigTypeOK
    /\ cfgfile \in ConfigFiles
    /\ Typed(CONFIG)
    /\ Sane(CONFIG)
    /\ reading = "done" => CONFIG["listen"] >= 1

\* The defaults of _init_config are sane.
LEMMA DefaultsSane == Typed(_init_config) /\ Sane(_init_config)
  BY DEF Typed, Sane, _init_config, Option, IntOption, ListOption, TextOption,
         CheckedPath, MAX_LISTEN, MAX_INCONN

\* The number of addresses that resolve is a natural number.
LEMMA ResolvedIsNat ==
    ASSUME NEW items \in Seq(BOOLEAN)
    PROVE  Resolved(items) \in Nat
  <1> DEFINE S == {i \in DOMAIN items : items[i]}
  <1>1. PICK n \in Nat : DOMAIN items = 1..n
    BY Len(items) \in Nat, DOMAIN items = 1..Len(items)
  <1>2. IsFiniteSet(1..n)
    BY <1>1, FS_Interval
  <1>3. IsFiniteSet(S)
    BY <1>1, <1>2, FS_Subset
  <1> QED
    BY <1>3, FS_CardinalityType DEF Resolved

\* An assignment keeps the types (_set_config_option and the callbacks).
LEMMA AssignedTyped ==
    ASSUME NEW line \in Line, Typed(CONFIG)
    PROVE  Typed(Assigned(line))
  <1> USE DEF Typed, Option
  <1>1. CASE line \in [token : IntOption, value : Int]
    <2>1. line.token \in IntOption /\ line.token \notin ListOption /\ line.token # "listen"
      BY <1>1 DEF IntOption, ListOption
    <2>2. Assigned(line) = [CONFIG EXCEPT ![line.token] = line.value]
      BY <2>1 DEF Assigned
    <2> QED BY <1>1, <2>1, <2>2 DEF ListOption
  <1>2. CASE line \in [token : TextOption, value : STRING]
    <2>1. /\ line.token \in TextOption
          /\ line.token \notin ListOption \cup IntOption /\ line.token # "listen"
      BY <1>2 DEF IntOption, ListOption, TextOption, CheckedPath
    <2>2. Assigned(line) = [CONFIG EXCEPT ![line.token] = line.value]
      BY <2>1 DEF Assigned
    <2> QED BY <1>2, <2>1, <2>2 DEF ListOption
  <1>3. CASE line \in [token : ListOption, value : Seq(BOOLEAN)]
    <2>1. Resolved(line.value) \in Nat
      BY <1>3, ResolvedIsNat
    <2>2. /\ Addresses(line.token, line.value) \in Nat
          /\ line.token = "listen" => Addresses(line.token, line.value) <= MAX_LISTEN
      BY <2>1 DEF Addresses, AtMost, MAX_LISTEN
    <2>3. line.token \notin IntOption \cup TextOption
      BY <1>3 DEF IntOption, ListOption, TextOption, CheckedPath
    <2>4. Assigned(line) = [CONFIG EXCEPT ![line.token] = Addresses(line.token, line.value)]
      BY <1>3, <2>3 DEF Assigned
    <2> QED BY <1>3, <2>2, <2>3, <2>4 DEF ListOption
  <1>4. CASE line \in [token : {"#", "unknown"}]
    <2>1. line.token \notin Option
      BY <1>4 DEF IntOption, ListOption, TextOption, CheckedPath
    <2> QED BY <1>4, <2>1 DEF Assigned
  <1> QED
    BY <1>1, <1>2, <1>3, <1>4 DEF Line

\* _config_sanitize makes sane what is typed.
LEMMA SanitizeMakesSane ==
    ASSUME NEW c, Typed(c)
    PROVE  Typed(_config_sanitize(c)) /\ Sane(_config_sanitize(c))
  <1> DEFINE d == _config_sanitize(c)
  <1>1. DOMAIN d = Option
    BY DEF _config_sanitize
  <1>2. \A o \in ListOption : d[o] = c[o]
    BY DEF _config_sanitize, Option, ListOption
  <1>3. \A o \in IntOption : c[o] \in Int /\ d[o] \in Int
    BY DEF Typed, _config_sanitize, Option, IntOption, Positive, Flag, AtMost,
           MAX_INCONN
  <1>4. Typed(d)
    BY <1>1, <1>2, <1>3 DEF Typed, ListOption
  <1>5. \A o \in {"action_threshold", "time_interval", "purge_after",
                  "inform_retry_wait", "server_timeout", "server_backlog"} : d[o] >= 1
    BY <1>3 DEF _config_sanitize, Option, IntOption, Positive
  <1>6. d["maxinconnections"] \in 1..MAX_INCONN
    BY <1>3 DEF _config_sanitize, Option, IntOption, Positive, AtMost, MAX_INCONN
  <1>7. d["server"] \in {0, 1} /\ d["inform"] \in {0, 1}
    BY <1>3 DEF _config_sanitize, Option, IntOption, Flag
  <1> QED
    BY <1>4, <1>5, <1>6, <1>7 DEF Sane

LEMMA ConfigInvInit == ConfigInit => ConfigInv
  <1> SUFFICES ASSUME ConfigInit PROVE ConfigInv
    OBVIOUS
  <1>1. Typed(CONFIG) /\ Sane(CONFIG)
    BY DefaultsSane DEF ConfigInit
  <1>2. cfgfile \in Seq(Line)
    BY ConfigFilesType, Zenon DEF ConfigInit, ConfigFilesType
  <1>3. lineno \in 0..Len(cfgfile)
    BY <1>2 DEF ConfigInit
  <1> QED
    BY <1>1, <1>2, <1>3 DEF ConfigInit, ConfigInv, ConfigTypeOK, Typed

LEMMA ConfigInvStep == ConfigInv /\ [config_read]_configVars => ConfigInv'
  <1> SUFFICES ASSUME ConfigInv, [config_read]_configVars PROVE ConfigInv'
    OBVIOUS
  <1> USE DEF ConfigInv, ConfigTypeOK
  <1>1. CASE OpenConfig
    BY <1>1 DEF OpenConfig
  <1>2. CASE _set_config_option
    <2> DEFINE line == cfgfile[lineno + 1]
    <2>1. line \in Line /\ lineno' \in 0..Len(cfgfile)
      BY <1>2 DEF _set_config_option
    <2>2. Typed(_config_sanitize(Assigned(line))) /\ Sane(_config_sanitize(Assigned(line)))
      BY <2>1, AssignedTyped, SanitizeMakesSane
    <2>3. \/ CONFIG' = CONFIG
          \/ CONFIG' = _config_sanitize(Assigned(line))
      BY <1>2 DEF _set_config_option
    <2>4. Typed(CONFIG') /\ Sane(CONFIG')
      BY <2>2, <2>3
    <2> QED BY <1>2, <2>1, <2>4 DEF _set_config_option, Typed
  <1>3. CASE _check_paths_in_config
    BY <1>3 DEF _check_paths_in_config
  <1>4. CASE config_read_end
    <2>1. CONFIG' = [CONFIG EXCEPT !["listen"] = 1] \/ (CONFIG' = CONFIG /\ CONFIG["listen"] # 0)
      BY <1>4 DEF config_read_end
    <2>2. "listen" \in Option /\ "listen" \in ListOption /\ "listen" \notin IntOption
      BY DEF Option, ListOption, IntOption
    <2>3. /\ DOMAIN CONFIG' = Option
          /\ \A o \in Option \ {"listen"} : CONFIG'[o] = CONFIG[o]
          /\ CONFIG'["listen"] \in 1..MAX_LISTEN
      <3>1. CASE CONFIG' = [CONFIG EXCEPT !["listen"] = 1]
        BY <2>2, <3>1 DEF Typed, MAX_LISTEN
      <3>2. CASE CONFIG' = CONFIG /\ CONFIG["listen"] # 0
        <4>1. DOMAIN CONFIG = Option /\ CONFIG["listen"] \in Nat
          BY <2>2 DEF Typed
        <4>2. CONFIG["listen"] <= MAX_LISTEN
          BY DEF Typed
        <4>3. \A n \in Nat : n # 0 /\ n <= MAX_LISTEN => n \in 1..MAX_LISTEN
          BY DEF MAX_LISTEN
        <4>4. CONFIG["listen"] \in 1..MAX_LISTEN
          BY <3>2, <4>1, <4>2, <4>3, Zenon
        <4> QED BY <3>2, <4>1, <4>4
      <3> QED BY <2>1, <3>1, <3>2
    <2>4. Typed(CONFIG')
      BY <2>2, <2>3 DEF Typed, Option
    <2>5. Sane(CONFIG')
      BY <2>3 DEF Sane, Option, IntOption
    <2> QED BY <1>4, <2>3, <2>4, <2>5 DEF config_read_end, Typed
  <1>5. CASE UNCHANGED configVars
    BY <1>5 DEF configVars
  <1> QED
    BY <1>1, <1>2, <1>3, <1>4, <1>5 DEF config_read

\* After config_read every option is in the range that server.c, worker.c,
\* records.c, threads.c and clientqueue.c rely on, for every file.
THEOREM ConfigSoundHolds == ConfigSpec => []ConfigSound
  <1>1. ConfigInv => ConfigSound
    BY DEF ConfigInv, ConfigSound, Typed, Sane, ListOption
  <1> QED
    BY <1>1, ConfigInvInit, ConfigInvStep, PTL DEF ConfigSpec
=============================================================================
