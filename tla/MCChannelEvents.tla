-------------------------- MODULE MCChannelEvents --------------------------
\* Two agent processes and one event, or the token of others, for TLC.
EXTENDS ChannelEvents

CONSTANTS w1, w2

\* Turns in both modes, turns that an app withholds from whoever is not linked,
\* and an uninstall with a reinstall beside it, with tokens that last; token
\* rotation with a reinstall on its own, and under an event without a turn.
Explored ==
    [kind : {"message"}, durable : BOOLEAN, gated : {FALSE}, rotating : {FALSE}, installs : {1}]
        \cup [kind : {"message", "quiet"}, durable : {FALSE}, gated : {TRUE}, rotating : {FALSE}, installs : {1}]
        \cup [kind : {"uninstall"}, durable : {FALSE}, gated : {FALSE}, rotating : {FALSE}, installs : {2}]
        \cup [kind : {"other"}, durable : {FALSE}, gated : {FALSE}, rotating : {TRUE}, installs : {2}]
        \cup [kind : {"command"}, durable : {FALSE}, gated : {FALSE}, rotating : {TRUE}, installs : {1}]
=============================================================================
