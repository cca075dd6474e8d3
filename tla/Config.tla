------------------------------- MODULE Config -------------------------------
(***************************************************************************)
(* How a setting gets its value: ParseFlags and GetAgentConfig             *)
(* (internal/agent/flags.go) and GetServerConfig (cmd/server/flags.go).    *)
(*                                                                         *)
(* The sources of a setting are a record: flag and env are what the        *)
(* command line and the environment give, file what the JSON file gives,   *)
(* each Unset when it gives nothing.  The server has one more: metrics is  *)
(* the variable of the same name with the prefix METRICS_.  A number that  *)
(* does not parse is ignored, which is Unset here.                         *)
(***************************************************************************)
EXTENDS Naturals

CONSTANT Unset

\* ParseFlags: the flag's value or default, overridden by the environment.
Parsed(s, default) ==
    IF s.env # Unset THEN s.env ELSE IF s.flag # Unset THEN s.flag ELSE default

\* GetAgentConfig: the file's value, overridden by what ParseFlags returned
\* unless that is the default, then the environment once more.  empty is the
\* zero value of the file's structure.
Merged(s, default, empty) ==
    LET file == IF s.file = Unset THEN empty ELSE s.file
    IN  IF s.env # Unset /\ Parsed(s, default) = default THEN s.env
        ELSE IF Parsed(s, default) # default \/ file = empty
        THEN Parsed(s, default)
        ELSE file

\* An empty result is replaced by the default (not for the address).
AgentSetting(s, default, empty) ==
    LET v == Merged(s, default, empty) IN IF v = empty THEN default ELSE v

\* viper asks for a flag under the name of the setting: the flags crypto-key,
\* audit-file, audit-url and pprof are not found.
FlagsFound == {"address", "restore", "store_interval", "store_file",
               "database_dsn", "key"}

\* The file is never read: viper looks for its path under "config.json", which
\* the flag "config" shadows.  Of the variables, AutomaticEnv with the prefix
\* comes before those of BindEnv; an empty one counts as unset.
ServerSetting(name, s, default, empty) ==
    IF name \in FlagsFound /\ s.flag # Unset THEN s.flag
    ELSE IF s.metrics \notin {Unset, empty} THEN s.metrics
    ELSE IF s.env \notin {Unset, empty} THEN s.env
    ELSE default

-----------------------------------------------------------------------------
(* The agent's rule once more, as an order of the sources.                  *)

\* The environment, then a flag that is not the default, then the file; the
\* default where that gives nothing.
AgentPriority(s, default, empty) ==
    LET first == IF s.env # Unset THEN s.env
                 ELSE IF s.flag \notin {Unset, default} THEN s.flag
                 ELSE s.file
    IN  IF first \in {Unset, empty} THEN default ELSE first
=============================================================================
