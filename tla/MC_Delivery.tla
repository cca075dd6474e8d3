---------------------------- MODULE MC_Delivery ----------------------------
(* Instances of Delivery for TLC. *)
EXTENDS Delivery, TLC

\* The agent: the sources of the hash key, with two keys and the empty one, and
\* of the path of the key file.  The server: either key, or none.
MCSettings ==
    [agentKey    : [flag : {Unset, "k"}, env : {Unset, "", "k", "l"}, file : {Unset, "l"}],
     agentCrypto : [flag : {Unset, "on"}, env : {Unset, ""}, file : {Unset, "on"}],
     serverKey   : [flag : {Unset, "k"}, metrics : {Unset, "k"}, env : {"", "l"},
                    file : {"k"}],
     serverCrypto : [flag : {"on"}, metrics : {Unset}, env : {Unset, "on"},
                     file : {"on"}]]

=============================================================================
