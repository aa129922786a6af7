------------------------------- MODULE Config -------------------------------
(***************************************************************************)
(* How the controller gets its configuration: defaults, command line,      *)
(* configuration file, validation, and the client id and topics made from  *)
(* them (sanji_config_init ... sanji_userdata_init and the first half of   *)
(* main).  The file is read by the parser of module Ini, one line a step.  *)
(*                                                                         *)
(* Every value comes as text, the sequence of the pieces that the parser   *)
(* joins.  What the C library makes of a text is given by the constants    *)
(* atoi and strlen; only the text "true" is compared.                      *)
(***************************************************************************)
EXTENDS Ini

CONSTANTS
    Texts,     \* texts of options and of the file
    atoi,      \* atoi[t]: the number a text is read as, 0 when it is none
    strlen,    \* strlen[t]: its length
    Options,   \* options of the command line, [key, arg]
    Defaults,  \* sanji_config_init
    IpLen,     \* SANJI_IP_LEN
    IdLen,     \* SANJI_LOCAL_ID_LEN
    MaxArgs    \* bound: length of the command line

Numbers == {"port", "retry", "keepalive", "sub_qos", "pub_qos", "refresh_interval"}
Strings == {"client_id", "username", "password", "local_id"}
Switches == {"clean_session", "mosq_debug"}
FileKeys == Numbers \cup Strings \cup Switches \cup {"host"}
Keys == FileKeys \cup {"foreground", "config_file"}

ASSUME ConfigAssumption ==
    /\ atoi \in [Texts -> Int]
    /\ strlen \in [Texts -> Nat]
    /\ DOMAIN Defaults = Keys /\ strlen[Defaults["host"]] < IpLen
    /\ Null \notin Texts
    /\ \A k \in FileKeys : <<"global", k>> \in IniKeys
    /\ \A f \in Files : \A i, j \in DOMAIN f :    \* the values of the files are texts
          LET parts == Parts(SubSeq(f, i, j))
          IN  /\ \A l \in i .. j - 1 : f[l].cont
              /\ parts # << >> /\ parts[1].kind = "value"
              => value_text(parts) \in Texts

VARIABLES
    stage,      \* where main is
    config,     \* struct sanji_config
    args,       \* the options read so far
    loaded,     \* has the configuration file been read
    client_id,  \* of struct sanji_userdata
    topics      \* topics that the connect callback subscribes to

configVars == <<stage, config, args, loaded, client_id, topics>>

-----------------------------------------------------------------------------
(* What an option sets its key to. *)
option_value(o) ==
    CASE o.key \in Numbers -> atoi[o.arg]
      [] o.key \in Strings \cup {"host", "config_file"} -> o.arg
      [] o.key = "clean_session" -> FALSE        \* -C
      [] o.key \in {"mosq_debug", "foreground"} -> TRUE

(* The host has a buffer of IpLen characters. *)
Fits(text) == strlen[text] < IpLen

(* -h, an unknown option or a missing argument, a host that does not fit. *)
option_refused(o) == o.key \notin Keys \/ (o.key = "host" /\ ~ Fits(o.arg))

(* One round of the getopt loop. *)
sanji_get_cmdline_options(o) ==
    /\ stage = "options"
    /\ Len(args) < MaxArgs
    /\ args' = Append(args, o)
    /\ \/ /\ option_refused(o)
          /\ stage' = "usage"
          /\ UNCHANGED config
       \/ /\ ~ option_refused(o)
          /\ config' = [config EXCEPT ![o.key] = option_value(o)]
          /\ UNCHANGED stage
    /\ UNCHANGED <<vars, loaded, client_id, topics>>

(* The end of the options; ini_init opens the file that config_file names. *)
(* When it cannot, main only warns.                                        *)
open_config_file ==
    /\ stage = "options"
    /\ \/ /\ stage' = "file"
          /\ UNCHANGED vars
       \/ /\ stage' = "validate"
          /\ ini_init_fails
    /\ UNCHANGED <<config, args, loaded, client_id, topics>>

parse_config_file ==
    /\ stage = "file"
    /\ ini_parse_file \/ ini_parse_end
    /\ UNCHANGED configVars

(* What an entry of the file sets its key to; an empty string and a host   *)
(* that does not fit leave the key as it is.                               *)
entry_ignored(k, text) ==
    \/ k = "host" /\ ~ Fits(text)
    \/ k \in Strings /\ strlen[text] = 0

entry_value(k, text) ==
    CASE k \in Numbers -> atoi[text]
      [] k \in Strings \cup {"host"} -> text
      [] k \in Switches -> text = <<"true">>

ini_findkey(k) == ini_get(<<"global", k>>)

(* variant: an option that was given is not overwritten by the file *)
load_unless_given ==
    [k \in Keys |->
        IF /\ k \in FileKeys /\ ini_findkey(k) # Null
           /\ ~ entry_ignored(k, ini_findkey(k))
           /\ \A i \in DOMAIN args : args[i].key # k
        THEN entry_value(k, ini_findkey(k)) ELSE config[k]]

load ==
    [k \in Keys |->
        IF /\ k \in FileKeys /\ ini_findkey(k) # Null
           /\ ~ entry_ignored(k, ini_findkey(k))
        THEN entry_value(k, ini_findkey(k)) ELSE config[k]]

(* The file has been parsed: what it says goes over what the options have  *)
(* set, and the store is released.                                         *)
sanji_load_config_file ==
    /\ stage = "file"
    /\ ini_release
    /\ config' = load
    /\ loaded' = TRUE
    /\ stage' = "validate"
    /\ UNCHANGED <<args, client_id, topics>>

Valid(c) ==
    /\ c["port"] \in 1 .. 65535
    /\ c["retry"] <= 65535
    /\ c["keepalive"] <= 65535
    /\ c["sub_qos"] \in 0 .. 2
    /\ c["pub_qos"] \in 0 .. 2
    /\ c["refresh_interval"] \in 0 .. 65535
    /\ c["local_id"] # Null => strlen[c["local_id"]] <= IdLen

(* variant: only the options are validated *)
validate_options == Valid([k \in Keys |->
    IF \E i \in DOMAIN args : args[i].key = k THEN config[k] ELSE Defaults[k]])

validate == Valid(config)

sanji_validate_configs ==
    /\ stage = "validate"
    /\ stage' = IF validate THEN "userdata" ELSE "invalid"
    /\ UNCHANGED <<vars, config, args, loaded, client_id, topics>>

(* A topic is the sequence of its levels, texts. *)
LocalTopic(id) == <<id, <<"controller">>>>

sanji_userdata_init ==
    /\ stage = "userdata"
    /\ stage' = "ready"
    /\ client_id' = IF config["client_id"] # Null THEN config["client_id"]
                    ELSE IF config["local_id"] # Null THEN config["local_id"]
                    ELSE <<"controller">>
    /\ topics' = {<<<<"controller">>>>, <<<<"controller">>, <<"registration">>>>,
                  <<<<"controller">>, <<"resource">>, <<"dependency">>>>}
                 \cup (IF config["local_id"] # Null
                       THEN {LocalTopic(config["local_id"])} ELSE {})
    /\ UNCHANGED <<vars, config, args, loaded>>

(* The process goes on (module MainLoop) or has ended. *)
main_goes_on ==
    /\ stage \in {"ready", "usage", "invalid"}
    /\ UNCHANGED <<vars, configVars>>

ConfigInit ==
    /\ Init
    /\ stage = "options"
    /\ config = Defaults
    /\ args = << >>
    /\ loaded = FALSE
    /\ client_id = Null
    /\ topics = {}

ConfigNext ==
    \/ \E o \in Options : sanji_get_cmdline_options(o)
    \/ open_config_file
    \/ parse_config_file
    \/ sanji_load_config_file
    \/ sanji_validate_configs
    \/ sanji_userdata_init
    \/ main_goes_on

ConfigSpec == ConfigInit /\ [][ConfigNext]_<<vars, configVars>>

-----------------------------------------------------------------------------
(* Where the value of key k comes from, seen from its end: the last line   *)
(* of the file that sets it under [global], if it says something usable,   *)
(* else the last option, else the default.                                 *)
Source(k) ==
    LET given == {i \in DOMAIN args : args[i].key = k}
        entry == <<"global", k>>
    IN  IF /\ loaded /\ k \in FileKeys /\ Setting(entry) # {}
           /\ ~ entry_ignored(k, LastText(entry))
        THEN entry_value(k, LastText(entry))
        ELSE IF given # {} THEN option_value(args[LastOf(given)])
        ELSE Defaults[k]

(* Every value of the file stands under a heading: only then does the file *)
(* say what its sections are (the name of the section is uninitialised).   *)
Headed == \A i \in 1 .. Len(file) :
             Opens(i, "value") => Heading(i) # {}

(* The controller that starts runs with exactly these values: no earlier   *)
(* line, no other section and nothing given in another place leaks into a  *)
(* setting (sanji_load_config_file, ini_parse_file).                       *)
SettingsFromSource ==
    stage = "ready" /\ Headed => \A k \in Keys : config[k] = Source(k)

(* No out-of-range number, host or local id reaches mosquitto_connect and  *)
(* the topics, whether an option or a line of the file has set it          *)
(* (sanji_validate_configs).                                               *)
StartsValid ==
    stage = "ready" =>
        /\ Valid(config)
        /\ Fits(config["host"])
=============================================================================
