------------------------------ MODULE MCConfig ------------------------------
(* Texts, options and files of up to five lines for the run of Config. *)
EXTENDS Config, TLC, SequencesExt

L(kind, name, value, text, cont) ==
    [kind |-> kind, name |-> name, value |-> value, text |-> text, cont |-> cont]

SomeLines ==
    {L("section", "global", "", "[global]", FALSE), L("section", "other", "", "[other]", FALSE),
     L("value", "port", "3", "port=3", TRUE), L("value", "port", "70000", "port=70000", FALSE),
     L("value", "local_id", "", "local_id=", TRUE), L("value", "local_id", "me", "local_id=me", FALSE),
     L("value", "clean_session", "true", "clean_session=true", FALSE),
     L("comment", "", "", "#", TRUE), L("error", "", "", "3", FALSE),
     L("empty", "", "", "", FALSE)}

(* lines for the other kinds of settings, alone under the heading *)
MoreLines ==
    {L("value", k, v, k, FALSE) : k \in {"mosq_debug", "host", "refresh_interval", "client_id", "pub_qos"},
                                  v \in {"", "true", "3", "a long text"}}

AllKeys == {<<"global">>, <<"other">>}
           \cup {<<"global", k>> : k \in FileKeys}
           \cup ({"other", "?"} \X {"port", "local_id", "clean_session", "mosq_debug",
                                "host", "refresh_interval", "client_id", "pub_qos"})

(* the sections collide, and so do all the keys of a section *)
SomeHash == [k \in AllKeys |-> IF Len(k) = 1 THEN 0 ELSE IF k[1] = "global" THEN 1 ELSE 2]

Heading1 == <<L("section", "global", "", "[global]", FALSE)>>

(* a value, and a blank line that is continued by a value or a heading *)
Blank1 == <<L("value", "port", "3", "port=3", FALSE), L("empty", "", "", "", TRUE)>>

AfterBlank == {L("section", "other", "", "[other]", FALSE),
               L("value", "port", "70000", "port=70000", FALSE)}

SomeFiles ==
    UNION {[1 .. n -> SomeLines] : n \in 0 .. 2}
    \cup {Heading1 \o f : f \in [1 .. 3 -> SomeLines] \cup [1 .. 1 -> MoreLines]}
    \cup {Heading1 \o Blank1 \o f : f \in AfterBlank \X SomeLines}

(* texts are up to three joined pieces *)
PieceLength ==
    [p \in {"3", "#"} |-> 1] @@ ("me" :> 2) @@ ("true" :> 4) @@ ("70000" :> 5)
    @@ ("port=3" :> 6) @@ ("[other]" :> 7) @@ ("[global]" :> 8) @@ ("127.0.0.1" :> 9)
    @@ ("local_id=" :> 9) @@ ("port=70000" :> 10) @@ ("a long text" :> 11)
    @@ ("local_id=me" :> 11) @@ ("clean_session=true" :> 18)

AllTexts == UNION {[1 .. n -> DOMAIN PieceLength] : n \in 0 .. 3}

Length == [t \in AllTexts |-> FoldLeft(LAMBDA n, p : n + PieceLength[p], 0, t)]

(* the digits at the beginning; no line of the files continues 70000 *)
Number ==
    [t \in AllTexts |->
        IF t = << >> THEN 0
        ELSE IF t[1] = "127.0.0.1" THEN 127
        ELSE IF t[1] = "70000" THEN 70000
        ELSE IF t[1] # "3" THEN 0
        ELSE IF Len(t) > 1 /\ t[2] = "3" THEN 33 ELSE 3]

SomeDefaults ==
    [k \in Keys |->
        CASE k = "host" -> <<"127.0.0.1">>
          [] k = "port" -> 1883
          [] k = "retry" -> -1
          [] k = "keepalive" -> 600
          [] k = "sub_qos" -> 2
          [] k = "pub_qos" -> 1
          [] k = "refresh_interval" -> 1000
          [] k = "clean_session" -> TRUE
          [] k \in {"foreground", "mosq_debug"} -> FALSE
          [] k \in Strings \cup {"config_file"} -> Null]

(* a number, strings, a host and the switches *)
SomeOptions ==
    {[key |-> "port", arg |-> <<t>>] : t \in {"3", "70000"}}
    \cup {[key |-> "local_id", arg |-> t] : t \in {<< >>, <<"a long text">>}}
    \cup {[key |-> "host", arg |-> <<t>>] : t \in {"me", "a long text"}}
    \cup {[key |-> k, arg |-> << >>] : k \in {"clean_session", "help"}}
=============================================================================
