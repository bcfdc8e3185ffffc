------------------------------ MODULE MCOptions ------------------------------
(* The instance of Options that TLC checks.  A word says where it is from: *)
(* F and G are from flags, E from the environment, C from a configuration, *)
(* D are the defaults, S is NVAULT_PASSPHRASE.                             *)
EXTENDS Options, FiniteSets

Paths == {<<flag, "F">> : flag \in {"--config", "--identity", "--passphrase-file", "--scope"}}

Parts ==
  Paths \cup {<<flag, "F">> : flag \in {"--store", "--kind", "--only"}}
  \cup {<<"--identity", "G">>, <<"--identity", "">>, <<"--passphrase-file", "">>,
        <<"--store">>, <<"--store", "--no-config">>}
  \cup {<<word>> : word \in {"--json", "--no-config", "--", "F"}}

(* Every two parts, and the lines of run with two more behind "--".        *)
MCLines ==
  {<<>>, <<"--bad">>, <<"--all", "--", "F">>}
  \cup Parts \cup {p \o q : p, q \in Parts}
  \cup {p \o <<"--only", "F", "--">> \o q : p \in {<<>>} \cup Paths, q \in Paths}

Variable == Setting \cup {"config", "key", "secret"}

Environment(set) ==
  [config |-> IF "config" \in set THEN "E" ELSE "",
   key |-> IF "key" \in set THEN "K" ELSE "",
   secret |-> IF "secret" \in set THEN "S" ELSE "",
   files |-> [s \in Setting |-> IF s \in set THEN "E" ELSE ""]]

(* No variable, one, or two that compete or are of one file; and a scope   *)
(* that is none.                                                           *)
MCEnvironments ==
  {Environment({}), Environment({"identity", "key"}), Environment({"passphrase", "secret"}),
   Environment({"config", "secret"}), [Environment({}) EXCEPT !.files["scope"] = "--bad"]}
  \cup {Environment({v}) : v \in Variable}

Configuration(sets) ==
  [is |-> "valid", sets |-> [s \in Setting |-> IF s \in sets THEN "C" ELSE ""]]
Missing == [is |-> "missing", sets |-> NoConfig]
Broken == [is |-> "broken", sets |-> NoConfig]

MCWord == {"C", "D", "E", "F", "G", "K", "S", "--"} \cup Dashed

(* The default configuration and any other; all identities have one        *)
(* passphrase, or there are none, but for one in the clear.                *)
Disk(file, other, lock, gone, typed) ==
  [configs |-> [p \in MCWord |-> IF p = "D" THEN file ELSE other],
   identities |-> [p \in MCWord |-> IF p = "G" THEN "raw" ELSE lock],
   passphrases |-> MCWord \ {"G"}, stores |-> MCWord \ {gone}, terminal |-> typed]

MCDisks ==
  {Disk(Missing, Missing, "F", "G", FALSE), Disk(Broken, Missing, "F", "G", FALSE)}
  \cup {Disk(Configuration(sets), Missing, "F", "G", FALSE) : sets \in {{"passphrase"}, {"identity"}}}
  \cup {Disk(file, Configuration({"store", "scope"}), lock, IF typed THEN "E" ELSE "G", typed)
     : file \in {Missing, Configuration(Setting)}, lock \in {"none", "S"}, typed \in BOOLEAN}
  \cup {Disk(Configuration(Setting), Missing, "C", "G", typed) : typed \in BOOLEAN}
=============================================================================
