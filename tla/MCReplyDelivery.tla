---------------------------- MODULE MCReplyDelivery -----------------------------
EXTENDS ReplyDelivery

Config(kinds, routed, coalescing, quiet) ==
    [kinds |-> kinds, routed |-> routed, coalescing |-> coalescing, quiet |-> quiet]

Silent ==
    {Config(kinds, routed, coalescing, TRUE) :
        kinds \in {<<"text", "text", "text">>, <<"text", "media", "text">>,
                   <<"audio", "text", "text">>},
        routed \in BOOLEAN, coalescing \in BOOLEAN}
Showing ==
    {Config(<<"text">>, routed, FALSE, FALSE) : routed \in BOOLEAN}

MCConfigs == Silent \cup Showing
================================================================================
