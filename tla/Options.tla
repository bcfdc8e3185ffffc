-------------------------------- MODULE Options --------------------------------
(***************************************************************************)
(* How the commands of src/cmd/nvault/local.go and main.go find their      *)
(* settings, and what init, config show and doctor say of them.            *)
(*                                                                         *)
(* A behaviour is one command, with any line of arguments, environment and *)
(* disk: nothing runs at the same time.  The difficulty is that a setting  *)
(* goes through four layers in five places of the code, and that three     *)
(* loops read the same line.  Files are words; a word says where the       *)
(* setting came from, so that different sources are different files.       *)
(***************************************************************************)
EXTENDS Naturals, Sequences

CONSTANTS
  Word,          \* all words but ""
  Lines,         \* command lines, sequences of words
  Environments,  \* [config, key, secret: a word; files: a word per setting]
  Disks          \* [configs, identities: per path; passphrases, stores: paths;
                 \*  terminal: BOOLEAN]

VARIABLES
  env,      \* the environment; "" is a variable that is not set
  disk,     \* the files the words may name
  line,     \* the arguments of the command
  command,  \* its name, at first "none"
  result    \* what it does or says

vars == <<env, disk, line, command, result>>

Setting == {"identity", "store", "passphrase", "scope"}
Flag == [identity |-> "--identity", store |-> "--store",
         passphrase |-> "--passphrase-file", scope |-> "--scope"]
Default == [identity |-> "D", store |-> "D", passphrase |-> "", scope |-> "D"]
Reports(c) == c \in {"init", "show", "doctor"}  \* allowMissingConfig

(* localParseMode: the flags that not every command has.                   *)
Modal == {"--kind", "--only", "--all", "--json", "--no-config"}
Allows(c, flag) ==
  CASE flag = "--kind" -> c = "set"
    [] flag \in {"--only", "--all"} -> c = "run"
    [] flag = "--json" -> c \in {"list", "init", "show", "doctor"}
    [] flag = "--no-config" -> c = "init"

Dashed == {Flag[s] : s \in Setting} \cup Modal \cup {"--config", "--bad"}
Plain(word) == word \notin Dashed \cup {"--", ""}

(* The configurations that Validate lets pass have absolute paths and a    *)
(* scope that begins with a letter or a digit.                             *)
Configurations ==
  [is : {"valid", "broken", "missing"},
   sets : {sets \in [Setting -> Word \cup {""}] :
             \A s \in Setting : sets[s] = "" \/ Plain(sets[s])}]

(* "key" is the identity of NVAULT_IDENTITY_KEY; "none" and "raw" say of a *)
(* path that no identity is there, or one in the clear, and other words    *)
(* are the passphrase of the one that is.                                  *)
ASSUME WordAssumption ==
  "D" \in Word /\ Word \cap {"", "key", "none", "raw"} = {}
ASSUME LineAssumption == Lines \subseteq Seq(Word \cup {""})
ASSUME EnvironmentAssumption ==
  Environments \subseteq [config : Word \cup {""}, key : Word \cup {""},
                         secret : Word \cup {""}, files : [Setting -> Word \cup {""}]]
ASSUME DiskAssumption ==
  Disks \subseteq [configs : [Word -> Configurations],
                  identities : [Word -> Word \cup {"none", "raw"}],
                  passphrases : SUBSET Word, stores : SUBSET Word, terminal : BOOLEAN]

(* A loop over the line, word by word.                                     *)
Scan(step(_, _), start, args) ==
  LET at[i \in 0 .. Len(args)] == IF i = 0 THEN start ELSE step(at[i - 1], args[i])
  IN  at[Len(args)]

-----------------------------------------------------------------------------
(* selectedConfigPath, the first loop over the line.                       *)

(* Slip: the arguments of the child are read as well. *)
SelectBeyond(scan, word) ==
  IF scan.expects THEN [scan EXCEPT !.path = word, !.expects = FALSE]
  ELSE IF word = "--config" THEN [scan EXCEPT !.explicit = TRUE, !.expects = TRUE]
  ELSE scan

(* Slip: the file of the environment wins. *)
SelectEnvironment(scan, word) ==
  IF scan.over THEN scan
  ELSE IF scan.expects THEN
    [scan EXCEPT !.path = IF env.config = "" THEN word ELSE @, !.expects = FALSE]
  ELSE IF word = "--" THEN [scan EXCEPT !.over = TRUE]
  ELSE IF word = "--config" THEN [scan EXCEPT !.explicit = TRUE, !.expects = TRUE]
  ELSE scan

Select(scan, word) ==
  IF scan.over THEN scan
  ELSE IF scan.expects THEN [scan EXCEPT !.path = word, !.expects = FALSE]
  ELSE IF word = "--" THEN [scan EXCEPT !.over = TRUE]
  ELSE IF word = "--config" THEN
    [scan EXCEPT !.explicit = TRUE, !.expects = TRUE, !.seen = TRUE,
                 !.error = IF scan.seen THEN "twice" ELSE @]
  ELSE scan

Selected(scan) ==
  [path |-> IF scan.path = "" THEN "D" ELSE scan.path,
   explicit |-> scan.explicit,
   error |-> IF scan.expects THEN "value" ELSE scan.error]

SelectStart ==
  [path |-> env.config, explicit |-> env.config # "", seen |-> FALSE,
   expects |-> FALSE, over |-> FALSE, error |-> ""]

SelectedConfig(args) == Selected(Scan(Select, SelectStart, args))

(* The second loop, which takes a value for an option.                     *)
IgnoresConfig(args) ==
  \E i \in DOMAIN args : args[i] = "--no-config" /\ \A j \in 1 .. i : args[j] # "--"

-----------------------------------------------------------------------------
(* localDefaults: the built-in defaults, the configuration, the environment. *)

NoConfig == [s \in Setting |-> ""]

Over(value, below) == IF value = "" THEN below ELSE value

Layers(selected, ignored, files, c) ==
  LET file == files[selected.path]
      exists == ~ignored /\ file.is = "valid"
      config == IF exists THEN file.sets ELSE NoConfig
      below == [s \in Setting |-> Over(config[s], Default[s])]
  IN  [config |-> selected.path,
       exists |-> exists,
       error |->
         IF selected.error # "" THEN selected.error
         ELSE IF ~ignored /\ (\/ file.is = "broken"
                              \/ file.is = "missing" /\ selected.explicit /\ ~Reports(c))
              THEN "config" ELSE "",
       keyed |-> env.key # "",
       value |-> [s \in Setting |->
         IF s = "identity" /\ env.key # "" THEN "" ELSE Over(env.files[s], below[s])],
       source |-> [s \in Setting |->
         IF s = "identity" /\ env.key # "" THEN "environment-key"
         ELSE IF env.files[s] # "" THEN "environment"
         ELSE IF config[s] # "" THEN "config"
         ELSE IF s # "passphrase" THEN "default"
         ELSE IF env.secret # "" THEN "environment-secret" ELSE "interactive"],
       noConfig |-> FALSE, all |-> FALSE, only |-> <<>>, rest |-> <<>>,
       expects |-> "", over |-> FALSE]

Defaults(args, c, files) == Layers(SelectedConfig(args), IgnoresConfig(args), files, c)

-----------------------------------------------------------------------------
(* parseLocalOptions, the third loop.                                      *)

(* Slip: a flag changes the value and not where it is said to come from. *)
TakeUnsaid(opts, flag, word) ==
  [opts EXCEPT !.expects = "",
     !.value = [s \in Setting |-> IF Flag[s] = flag THEN word ELSE @[s]],
     !.only = IF flag = "--only" THEN Append(@, word) ELSE @]

(* The value of a flag: next().                                            *)
Take(opts, flag, word) ==
  [opts EXCEPT !.expects = "",
     !.value = [s \in Setting |-> IF Flag[s] = flag THEN word ELSE @[s]],
     !.source = [s \in Setting |-> IF Flag[s] = flag THEN "flag" ELSE @[s]],
     !.keyed = @ /\ flag # "--identity",
     !.only = IF flag = "--only" THEN Append(@, word) ELSE @,
     !.error = IF flag = "--only" /\ word = "" THEN "only" ELSE @]

(* One turn of the loop.                                                   *)
Parse(opts, word, c) ==
  IF opts.error # "" THEN opts
  ELSE IF opts.over THEN [opts EXCEPT !.rest = Append(@, word)]
  ELSE IF opts.expects # "" THEN Take(opts, opts.expects, word)
  ELSE IF word = "--" THEN [opts EXCEPT !.over = TRUE]
  ELSE IF word \in Modal /\ ~Allows(c, word) THEN [opts EXCEPT !.error = "mode"]
  ELSE IF word = "--all" THEN [opts EXCEPT !.all = TRUE]
  ELSE IF word = "--no-config" THEN [opts EXCEPT !.noConfig = TRUE]
  ELSE IF word = "--json" THEN opts
  ELSE IF word = "--bad" THEN [opts EXCEPT !.error = "option"]
  ELSE IF word \in Dashed THEN [opts EXCEPT !.expects = word]
  ELSE [opts EXCEPT !.rest = Append(@, word)]

(* And what is checked of all of them together.                            *)
Checked(opts, args, c) ==
  LET wrong ==
        \/ opts.expects # ""
        \/ opts.value["scope"] \in Dashed \cup {"--", ""}
        \/ opts.noConfig /\ \E i \in 1 .. Len(args) - 1 : args[i] = "--config"
        \/ opts.all /\ opts.only # <<>>
        \/ c \in {"list", "init", "show", "doctor"} /\ opts.rest # <<>>
        \/ c = "set" /\ Len(opts.rest) # 1
        \/ c = "run" /\ (opts.rest = <<>> \/ (~opts.all /\ opts.only = <<>>))
  IN  IF opts.error = "" /\ wrong THEN [opts EXCEPT !.error = "line"] ELSE opts

ParseOptions(args, c, files) ==
  Checked(Scan(LAMBDA o, word : Parse(o, word, c), Defaults(args, c, files), args), args, c)

-----------------------------------------------------------------------------
(* What a command then reads.                                              *)

(* configuredPassphrase and promptHidden.  A passphrase file holds what it *)
(* is called; at the terminal the right one is typed.                      *)
Passphrase(path, right) ==
  CASE path # "" -> [from |-> "file", is |-> IF path \in disk.passphrases THEN path ELSE ""]
    [] path = "" /\ env.secret # "" -> [from |-> "environment-secret", is |-> env.secret]
    [] path = "" /\ env.secret = "" ->
         [from |-> "interactive", is |-> IF disk.terminal THEN right ELSE ""]

(* Slip: the default identity is used whether or not it should be. *)
LoadDefault(path, useDefault, passphraseFile, identities) ==
  LET file == Over(path, "D")
      lock == identities[file]
  IN  IF path = "" /\ env.key # "" /\ useDefault THEN "key"
      ELSE IF \/ lock = "raw"
              \/ lock # "none" /\ Passphrase(passphraseFile, lock).is = lock
           THEN file ELSE ""

(* loadIdentity: the identity, or "" for an error.                         *)
LoadIdentity(path, useDefault, passphraseFile, identities) ==
  LET file == Over(path, "D")
      lock == identities[file]
  IN  IF path = "" /\ env.key # "" THEN "key"
      ELSE IF /\ path # "" \/ useDefault
              /\ \/ lock = "raw"
                 \/ lock # "none" /\ Passphrase(passphraseFile, lock).is = lock
           THEN file ELSE ""

(* openLocal, with the store that List reads.                              *)
Opened(opts, identities, stores) ==
  LET id == LoadIdentity(opts.value["identity"], TRUE, opts.value["passphrase"], identities)
  IN  [identity |-> id, store |-> opts.value["store"], scope |-> opts.value["scope"],
       works |-> opts.error = "" /\ id # "" /\ opts.value["store"] \in stores]

(* Slip: the identity is looked at, and not unlocked. *)
DiagnosisByLooks(opts) ==
  LET path == Over(opts.value["identity"], "D")
      fails == \/ opts.error # "" \/ disk.identities[path] \in {"none", "raw"}
               \/ opts.value["store"] \notin disk.stores
  IN  [identity |-> path, error |-> opts.error,
       warns |-> IF opts.exists THEN {} ELSE {"no config"},
       status |-> IF fails THEN "fail" ELSE "pass"]

(* doctorLocal: the identity's file, its passphrase file and the store are *)
(* looked at, the identity is unlocked and the store listed.               *)
Diagnosis(opts) ==
  LET opened == Opened(opts, disk.identities, disk.stores)
      path == opts.value["identity"]
      fails ==
        \/ ~opened.works
        \/ ~opts.keyed /\ (path = "" \/ disk.identities[Over(path, "D")] \in {"none", "raw"})
        \/ opts.value["passphrase"] \notin disk.passphrases \cup {""}
  IN  [identity |-> opened.identity, error |-> opts.error,
       warns |-> (IF opts.exists THEN {} ELSE {"no config"})
                  \cup (IF opts.keyed THEN {"raw key"} ELSE {}),
       status |-> CASE opts.error # "" \/ fails -> "fail"
                    [] opts.error = "" /\ ~fails /\ (~opts.exists \/ opts.keyed) -> "warn"
                    [] OTHER -> "pass"]

(* Slip: an init does not compare its selections. *)
AnySelection(opts, args) == TRUE

(* validateExistingConfigSelection.                                        *)
SameSelection(opts, args) ==
  opts.exists /\ ~opts.noConfig =>
    \A s \in {"identity", "store", "scope"} :
      opts.value[s] = Over(disk.configs[opts.config].sets[s], Default[s])

(* initLocal: what it makes, when every step succeeds.                     *)
Setup(opts, args) ==
  LET identity == opts.value["identity"]
      phrase == Passphrase(opts.value["passphrase"], "T").is
  IN  [done |-> /\ opts.error = "" /\ SameSelection(opts, args)
                /\ identity # "" /\ disk.identities[identity] = "none"
                /\ phrase # "",
       lock |-> phrase,
       configs |-> IF opts.noConfig \/ opts.exists THEN disk.configs
                   ELSE [disk.configs EXCEPT
                           ![opts.config] = [is |-> "valid", sets |-> opts.value]]]

(* parseCryptoOptions and mustIdentity: encrypt and decrypt take two of    *)
(* the flags and none of the other layers.                                 *)
Crypto(args) ==
  LET wrong == Len(args) % 2 = 1 \/ \E i \in DOMAIN args :
                 i % 2 = 1 /\ args[i] \notin {"--identity", "--passphrase-file"}
      Value(flag) ==
        LET at == {i \in DOMAIN args : i % 2 = 1 /\ args[i] = flag}
        IN  IF at = {} THEN "" ELSE args[1 + CHOOSE i \in at : \A j \in at : j <= i]
      path == Value("--identity")
      file == Value("--passphrase-file")
  IN  IF wrong THEN [error |-> "line", identity |-> ""]
      ELSE LET id == LoadIdentity(path, FALSE, file, disk.identities)
               lock == disk.identities[Over(path, "D")]
               asked == Passphrase(file, lock)
           IN  [error |-> CASE id # "" -> ""
                            [] id = "" /\ path # "" /\ lock \notin {"none", "raw"}
                               /\ asked.from = "interactive" /\ ~disk.terminal -> "non-interactive"
                            [] OTHER -> "identity",
                identity |-> id]

-----------------------------------------------------------------------------
Init ==
  /\ env \in Environments
  /\ disk \in Disks
  /\ line = <<>>
  /\ command = "none"
  /\ result = <<>>

Invoke(c, args, res) ==
  /\ command = "none"
  /\ command' = c
  /\ line' = args
  /\ result' = res
  /\ UNCHANGED <<env, disk>>

Options(args, c) == ParseOptions(args, c, disk.configs)

List(args) == Invoke("list", args, Options(args, "list"))
Run(args) == Invoke("run", args, Options(args, "run"))
Show(args) == Invoke("show", args, Options(args, "show"))
Doctor(args) == Invoke("doctor", args, Diagnosis(Options(args, "doctor")))
Initialize(args) == Invoke("init", args, Setup(Options(args, "init"), args))
Decrypt(args) == Invoke("decrypt", args, Crypto(args))

Next ==
  \E args \in Lines :
    List(args) \/ Run(args) \/ Show(args) \/ Doctor(args) \/ Initialize(args) \/ Decrypt(args)

Spec == Init /\ [][Next]_vars

-----------------------------------------------------------------------------
(* Properties.                                                             *)

(* The line without the child's arguments, and the last value of a flag.   *)
Own(args) ==
  IF \E i \in DOMAIN args : args[i] = "--"
  THEN SubSeq(args, 1, (CHOOSE i \in DOMAIN args :
                          args[i] = "--" /\ \A j \in 1 .. i - 1 : args[j] # "--") - 1)
  ELSE args

Given(args, flag) ==
  LET at == {i \in DOMAIN args : args[i] = flag /\ i < Len(args)}
  IN  IF at = {} THEN "" ELSE args[1 + CHOOSE i \in at : \A j \in at : j <= i]

(* Values are not empty and do not look like options.                      *)
WellFormed(args) ==
  \A i \in DOMAIN Own(args) :
    args[i] \in Dashed \ {"--all", "--json", "--no-config", "--bad"} =>
      i < Len(Own(args)) /\ Plain(args[i + 1])

Highest(words) ==
  LET set == {i \in DOMAIN words : words[i] # ""}
  IN  IF set = {} THEN "" ELSE words[CHOOSE i \in set : \A j \in set : i <= j]

Accepted(c) == command = c /\ result.error = "" /\ WellFormed(line)
Configured == IF result.exists THEN disk.configs[result.config].sets ELSE NoConfig

(* The highest-precedence value wins: flag, environment, configuration,    *)
(* default.  NVAULT_IDENTITY_KEY is above the identity files, but for a    *)
(* flag; NVAULT_PASSPHRASE is below all passphrase files (ShowTrue).      *)
Precedence ==
  Accepted("list") =>
    /\ result.config = Highest(<<Given(line, "--config"), env.config, "D">>)
    /\ \A s \in Setting :
         LET given == Given(line, Flag[s])
         IN  IF s = "identity" /\ env.key # "" /\ given = ""
             THEN result.keyed
             ELSE result.value[s] = Highest(<<given, env.files[s], Configured[s], Default[s]>>)

(* Nothing after "--" is read by nvault, and all of it goes to the child.  *)
ChildsOwn ==
  Accepted("run") /\ Own(line) # line =>
    LET own == Options(Own(line), "run")
    IN  /\ result.rest = own.rest \o SubSeq(line, Len(Own(line)) + 2, Len(line))
        /\ <<result.config, result.value, result.source, result.only>>
             = <<own.config, own.value, own.source, own.only>>

(* What config show says of each setting is what a command then uses, and  *)
(* from where it has it.                                                   *)
ShowTrue ==
  Accepted("show") /\ Options(line, "list").error = "" =>
    LET used == Options(line, "list")
        opened == Opened(used, disk.identities, disk.stores)
        read == Passphrase(used.value["passphrase"], "T")
        Layer(s) == CASE result.source[s] = "flag" -> Given(line, Flag[s])
                      [] result.source[s] = "environment" -> env.files[s]
                      [] result.source[s] = "config" -> Configured[s]
                      [] result.source[s] = "default" -> Default[s]
                      [] OTHER -> ""
    IN  /\ result.config = used.config /\ result.exists = used.exists
        /\ \A s \in Setting : result.value[s] = used.value[s] /\ used.value[s] = Layer(s)
        /\ opened.identity = "key" <=> result.source["identity"] = "environment-key"
        /\ result.source["passphrase"] =
             IF read.from = "file" THEN result.source["passphrase"] ELSE read.from

(* When doctor finds nothing wrong, commands work with the same settings,  *)
(* and open the identity it has named.  Where a configuration is named and *)
(* missing, doctor speaks of defaults and all commands refuse to start.    *)
DoctorTrue ==
  command = "doctor" /\ result.status # "fail" =>
    LET used == Options(line, "list")
        opened == Opened(used, disk.identities, disk.stores)
    IN  IF "no config" \in result.warns /\ SelectedConfig(line).explicit /\ ~IgnoresConfig(line)
        THEN used.error = "config"
        ELSE opened.works /\ opened.identity = result.identity

(* An identity that decrypt opens is the one the other commands open for   *)
(* the same flags, unless they find another passphrase.                    *)
CryptoAgrees ==
  Accepted("decrypt") =>
    LET opts == Options(line, "list")
        opened == Opened(opts, disk.identities, disk.stores)
    IN  opts.error = "" => opened.identity \in {result.identity, ""}

(* After an init, a command of the same environment that is given the same *)
(* --config has the identity, store and scope of that init, but for what   *)
(* the environment says (which must not be a wrong scope, that init took a *)
(* flag for), and it unlocks the identity, unless there was a              *)
(* configuration before that has another passphrase file, or none.         *)
Later == IF "--config" \in {line[i] : i \in DOMAIN line}
         THEN <<"--config", Given(line, "--config")>> ELSE <<>>

InitUsable ==
  /\ command = "init" /\ result.done /\ WellFormed(line) /\ ~Options(line, "init").noConfig
  /\ env.files["scope"] = "" \/ Plain(env.files["scope"])
  =>
    LET made == Options(line, "init")
        later == ParseOptions(Later, "list", result.configs)
        identity == made.value["identity"]
        locked == [disk.identities EXCEPT ![identity] = result.lock]
    IN  /\ later.error = ""
        /\ \A s \in {"identity", "store", "scope"} :
             \/ env.files[s] # "" \/ (s = "identity" /\ env.key # "")
             \/ later.value[s] = made.value[s]
        /\ \/ env.key # "" \/ env.files # NoConfig
           \/ made.exists /\ disk.configs[made.config].sets["passphrase"] # made.value["passphrase"]
           \/ LoadIdentity(later.value["identity"], TRUE, later.value["passphrase"], locked)
                = identity
=============================================================================
