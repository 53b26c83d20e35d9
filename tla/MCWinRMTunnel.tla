--------------------------- MODULE MCWinRMTunnel ---------------------------
(* Two WinRM connections; every ~/.ssh/config of three lines made of the kinds *)
(* below, and two of the default keys.                                         *)
EXTENDS WinRMTunnel

Keys == <<"id_ed25519", "id_rsa">>

Lines == {[key |-> "host", value |-> "match"], [key |-> "host", value |-> "other"],
          [key |-> "user", value |-> "conf1"], [key |-> "user", value |-> "conf2"],
          [key |-> "identityfile", value |-> "conf1"], [key |-> "identityfile", value |-> "conf2"],
          [key |-> "identityfile", value |-> ""], [key |-> "port", value |-> "conf1"]}

AllEnvs ==
  [home : {TRUE}, conf : UNION {[1 .. n -> Lines] : n \in 0 .. 3}, envUser : {"", "env"}, envKey : {"", "env"},
   keys : [{"id_ed25519", "id_rsa"} -> {"absent", "locked", "usable"}]]
  \cup {[home |-> FALSE, conf |-> <<>>, envUser |-> "env", envKey |-> "",
          keys |-> [k \in {"id_ed25519", "id_rsa"} |-> "usable"]]}
=============================================================================
