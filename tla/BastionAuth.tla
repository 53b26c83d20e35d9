---------------------------- MODULE BastionAuth ----------------------------
(***************************************************************************)
(* Which user and which key the plugin uses for SSH to a remote Sylve      *)
(* host: sshConfigForHost, applyAutoBastion and resolveBastionSSHParams    *)
(* (vm/ssh_bastion.go), and the copy of the resolution in the ISO          *)
(* builder's Prepare (iso/config.go).                                      *)
(*                                                                         *)
(* The surroundings of the plugin are one record: home (the home directory *)
(* is known), conf (the lines of ~/.ssh/config), envUser ($USER), envKey   *)
(* (SYLVE_SSH_PROXY_KEY), keys (the state of each default key file).       *)
(* "" stands for what is not set.                                          *)
(***************************************************************************)
EXTENDS Naturals, Sequences, SequencesExt

Text == STRING \cup {""}   \* a value that may be set

CONSTANT DefaultKeys   \* id_ed25519, id_ecdsa_sk, id_ecdsa, id_dsa, id_rsa, in this order
ASSUME KeysAssumption == DefaultKeys \in Seq(Text) /\ \A i \in DOMAIN DefaultKeys : DefaultKeys[i] # ""

\* What ~/.ssh/config says: the lines of the blocks whose Host patterns match, the
\* first value of each directive.  A line is [key, value]; "host" has the value
\* "match" if one of its patterns matches.  Other directives are not read.
NoConf == [in |-> FALSE, user |-> "", identityfile |-> ""]
Directives == {"user", "identityfile"}

ConfLine(c, l) ==
  IF l.key = "host" THEN [c EXCEPT !.in = (l.value = "match")]
  ELSE IF c.in /\ l.key \in Directives /\ c[l.key] = "" THEN [c EXCEPT ![l.key] = l.value] ELSE c

sshConfigForHost(env) == IF env.home THEN FoldLeft(ConfLine, NoConf, env.conf) ELSE NoConf

\* c: the ssh_bastion_* fields, [user, password, key, agent].
HasAuth(c) == c.password # "" \/ c.key # "" \/ c.agent

-----------------------------------------------------------------------------
(* The SSH bastion of the VM builder.  The default key is the first that   *)
(* can be read and parsed without a passphrase.                            *)

bastionUser(env) ==
  IF sshConfigForHost(env).user # "" THEN sshConfigForHost(env).user ELSE env.envUser

bastionKeyConfFirst(env) ==   \* mutant: IdentityFile goes before SYLVE_SSH_PROXY_KEY
  LET i == SelectInSeq(DefaultKeys, LAMBDA k : env.keys[k] = "usable")
      conf == sshConfigForHost(env).identityfile
  IN  IF conf # "" THEN conf ELSE IF env.envKey # "" THEN env.envKey
      ELSE IF env.home /\ i # 0 THEN DefaultKeys[i] ELSE ""

bastionKey(env) ==
  LET i == SelectInSeq(DefaultKeys, LAMBDA k : env.keys[k] = "usable")
  IN  CASE env.envKey # "" -> env.envKey
        [] env.envKey = "" /\ sshConfigForHost(env).identityfile # "" -> sshConfigForHost(env).identityfile
        [] OTHER -> IF env.home /\ i # 0 THEN DefaultKeys[i] ELSE ""

applyAutoBastion(c, env) ==
  LET u == IF c.user = "" THEN [c EXCEPT !.user = bastionUser(env)] ELSE c
  IN  IF HasAuth(c) THEN u ELSE [u EXCEPT !.key = bastionKey(env), !.agent = (bastionKey(env) = "")]

-----------------------------------------------------------------------------
(* The WinRM tunnel: a second copy of the resolution, with nothing explicit *)

tunnelUser(env) ==
  IF sshConfigForHost(env).user # "" THEN sshConfigForHost(env).user ELSE env.envUser

tunnelKey(env) ==
  LET i == SelectInSeq(DefaultKeys, LAMBDA k : env.keys[k] = "usable")
  IN  CASE env.envKey # "" -> env.envKey
        [] env.envKey = "" /\ sshConfigForHost(env).identityfile # "" -> sshConfigForHost(env).identityfile
        [] OTHER -> IF env.home /\ i # 0 THEN DefaultKeys[i] ELSE ""

resolveBastionSSHParams(env) ==
  [user |-> tunnelUser(env), key |-> tunnelKey(env), agent |-> tunnelKey(env) = ""]

-----------------------------------------------------------------------------
(* The ISO builder: a third copy.  It looks for a key only while it looks  *)
(* for a user, and does not ask whether the agent was chosen.              *)

prepareKey(env) ==
  LET i == SelectInSeq(DefaultKeys, LAMBDA k : env.keys[k] = "usable")
  IN  CASE env.envKey # "" -> env.envKey
        [] env.envKey = "" /\ sshConfigForHost(env).identityfile # "" -> sshConfigForHost(env).identityfile
        [] OTHER -> IF env.home /\ i # 0 THEN DefaultKeys[i] ELSE ""

PrepareBastion(c, env) ==
  LET user == IF sshConfigForHost(env).user # "" THEN sshConfigForHost(env).user ELSE env.envUser
      u == [c EXCEPT !.user = user]
  IN  IF c.user # "" THEN c
      ELSE IF c.password # "" \/ c.key # "" THEN u
      ELSE IF prepareKey(env) # "" THEN [u EXCEPT !.key = prepareKey(env)] ELSE [u EXCEPT !.agent = TRUE]

-----------------------------------------------------------------------------
(* The documented order *)

\* Line i stands in a block of the host.
InBlock(conf, i) ==
  \E h \in 1 .. (i - 1) : /\ conf[h].key = "host" /\ conf[h].value = "match"
                          /\ \A j \in (h + 1) .. (i - 1) : conf[j].key # "host"

\* The lines up to the n-th that give the host a value of a directive.
Hits(conf, key, n) == {i \in 1 .. n : conf[i].key = key /\ conf[i].value # "" /\ InBlock(conf, i)}

\* The value of a directive for the host: that of its first line in a matching block.
ConfValue(env, key) ==
  LET H == Hits(env.conf, key, Len(env.conf))
  IN  IF env.home /\ H # {} THEN env.conf[CHOOSE i \in H : \A j \in H : i <= j].value ELSE ""

FirstSet(s) == LET i == SelectInSeq(s, LAMBDA v : v # "") IN IF i = 0 THEN "" ELSE s[i]

\* explicit fields > SYLVE_SSH_PROXY_KEY > IdentityFile > default keys > agent
Documented(c, env) ==
  LET usable == IF env.home THEN [i \in DOMAIN DefaultKeys |->
                                    IF env.keys[DefaultKeys[i]] = "usable" THEN DefaultKeys[i] ELSE ""]
                            ELSE <<>>
      key == FirstSet(<<env.envKey, ConfValue(env, "identityfile")>> \o usable)
      user == FirstSet(<<c.user, ConfValue(env, "user"), env.envUser>>)
  IN  IF HasAuth(c) THEN [c EXCEPT !.user = user]
                    ELSE [c EXCEPT !.user = user, !.key = key, !.agent = (key = "")]
=============================================================================
