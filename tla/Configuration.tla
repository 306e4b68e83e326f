--------------------------- MODULE Configuration ---------------------------
(***************************************************************************)
(* get_config (repo_claude/core/config.py): how a setting gets its value   *)
(* from the TOML files, the .env file and the environment.                 *)
(*                                                                         *)
(* A value is known by the source that gave it.  One setting stands for    *)
(* all that are read alike.                                                *)
(***************************************************************************)
EXTENDS Naturals, Sequences

\* max_steps: in TOML and in a REPO_* variable, like most settings; router: in
\* TOML only; api_key: in the environment only, and .env wins over the shell.
TomlSettings == {"max_steps", "router"}
EnvSettings  == {"max_steps", "api_key"}
Settings     == TomlSettings \cup EnvSettings
ProjectKeys  == {"api_key"}   \* _PROJECT_OVERRIDDEN_KEYS

\* A TOML file: "broken" cannot be parsed; "wrong" has an unknown key or a
\* value of the wrong type or range somewhere in it.
Files == [state : {"absent", "broken", "wrong", "read"}, sets : SUBSET TomlSettings,
          servers : Seq(STRING)]

\* What the daemon finds: the global and the project file, the file REPO_CONFIG
\* names if it is set at all, .env, and the shell's variables; wrong is set
\* when the variable that counts cannot be converted.
Sources == [global : Files, project : Files, explicit : Files, asked : BOOLEAN,
            dotenv : SUBSET EnvSettings, shell : SUBSET EnvSettings, wrong : BOOLEAN]

Defaults == [values |-> [s \in Settings |-> IF s = "api_key" THEN "unset" ELSE "default"],
             servers |-> <<>>]

\* load_dotenv(override=False), then the project's keys by force.
FromEnv(src, s) ==
    IF s \in src.dotenv /\ (s \in ProjectKeys \/ s \notin src.shell) THEN "dotenv" ELSE "shell"

\* config_paths: REPO_CONFIG's file alone, or both.
Layers(src) == IF src.asked THEN {"explicit"} ELSE {"global", "project"}

\* _apply_toml: a key that is there overwrites the value; [[mcp.servers]] are
\* appended to those of the file before.  A file that is not there is passed
\* over, an explicit one too.
ApplyFile(config, name, file) ==
    IF file.state = "absent" THEN config
    ELSE [values  |-> [s \in Settings |-> IF s \in file.sets THEN name ELSE config.values[s]],
          servers |-> config.servers \o file.servers]

ApplyFiles(config, src) ==
    IF src.asked THEN ApplyFile(config, "explicit", src.explicit)
    ELSE ApplyFile(ApplyFile(config, "global", src.global), "project", src.project)

\* Mutant: the environment fills only what no file sets.
ApplyEnv_FilesFirst(config, src) ==
    [values  |-> [s \in Settings |->
                    IF s \in src.dotenv \cup src.shell /\ config.values[s] \in {"default", "unset"}
                    THEN FromEnv(src, s) ELSE config.values[s]],
     servers |-> config.servers]

\* _apply_env, and the key the provider reads from the environment.
ApplyEnv(config, src) ==
    [values  |-> [s \in Settings |-> IF s \in src.dotenv \cup src.shell
                                    THEN FromEnv(src, s) ELSE config.values[s]],
     servers |-> config.servers]

\* SystemExit: any file or variable that cannot be used, or no API key.
Refuses(src) ==
    \/ \E l \in Layers(src) : src[l].state \in {"broken", "wrong"}
    \/ src.wrong /\ "max_steps" \in src.dotenv \cup src.shell
    \/ "api_key" \notin src.dotenv \cup src.shell

GetConfig(src) == ApplyEnv(ApplyFiles(Defaults, src), src)
=============================================================================
