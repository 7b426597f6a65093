------------------------------- MODULE AiSetup -------------------------------
(***************************************************************************)
(* The commands that set up the on-premise model (cli/main.py, `ai select` *)
(* and `ai install`; ai/install.py) and the file config.py keeps their     *)
(* choice in.  Commands are processes of their own: two may run at once,   *)
(* and any may be killed.  A save truncates the file and then writes it; a *)
(* copy of the model does the same, and takes long.                        *)
(*                                                                         *)
(* Not modelled: the VANTAGE_AI_* variables, which override the file for   *)
(* the process that has them; the URL of the Ollama daemon and the path of *)
(* the GGUF file, which are kept like the provider (llama_cpp is taken to  *)
(* have its path).                                                         *)
(***************************************************************************)
EXTENDS FiniteSets

CONSTANTS
  Commands,      \* processes that run one command after another
  Green, Yellow, \* the catalogue of ai/models.py, by license class
  Default,       \* "qwen2.5:7b-instruct"
  Locked,        \* the tag of ai/model-lock.yaml
  Keep           \* an option that was not given

ASSUME CatalogAssumption ==
  /\ {Default, Locked} \subseteq Green
  /\ Green \cap Yellow = {}
  /\ Keep \notin {"none", "ollama", "llama_cpp"}

Models    == Green \cup Yellow
Providers == {"none", "ollama", "llama_cpp"}
Config    == [provider : Providers, model : Models]
Defaults  == [provider |-> "none", model |-> Default]

VARIABLES
  step,          \* step[c]: what the command of c does
  choice,        \* choice[c]: the configuration it is about to save
  file,          \* the file: "absent", "empty", "mixed" or "whole"
  config,        \* what VantageConfig.load returns: the defaults, unless the
                 \* file is whole
  gguf,          \* the model's file: "absent", "partial", "wrong" or "good"
  source,        \* source[c]: the file c is copying from
  mixing,        \* commands whose copy went on at the same time as another's
  vouched,       \* a pinned digest was checked and no copy has started since
  accepted,      \* the YELLOW models somebody accepted
  saved,         \* the configuration of the last save that ended
  disturbed      \* saves overlapped, or one was cut short, since the last
                 \* that had the file for itself

modelVars == <<gguf, source, mixing, vouched>>
fileVars  == <<file, config, saved, disturbed>>
setupVars == <<step, choice, fileVars, modelVars, accepted>>

SetupInit ==
  /\ step      = [c \in Commands |-> "idle"]
  /\ choice    = [c \in Commands |-> Defaults]
  /\ file      = "absent"
  /\ config    = Defaults
  /\ gguf      = "absent"
  /\ source    = [c \in Commands |-> "good"]
  /\ mixing    = {}
  /\ vouched   = FALSE
  /\ accepted  = {}
  /\ saved     = Defaults
  /\ disturbed = FALSE

Doing(what) == {c \in Commands : step[c] = what}

-----------------------------------------------------------------------------
(* `ai select`, of a model of the catalogue.                               *)
Options == [model : Models, accept : BOOLEAN, provider : Providers \cup {Keep}]

(* Mutant: the review gate is read the other way round for a model that   *)
(* comes with a provider.                                                  *)
AllowedWithProvider(o) == o.model \in Yellow => o.accept \/ o.provider # Keep

Allowed(o) == o.model \in Yellow => o.accept

Chosen(o, cfg) ==
  [provider |-> CASE o.provider # Keep -> o.provider
                  [] o.provider = Keep /\ cfg.provider = "none" -> "ollama"
                  [] OTHER -> cfg.provider,
   model    |-> o.model]

Select(c, o) ==
  /\ step[c] = "idle" /\ Allowed(o)
  /\ step'     = [step EXCEPT ![c] = "chosen"]
  /\ choice'   = [choice EXCEPT ![c] = Chosen(o, config)]
  /\ accepted' = accepted \cup IF o.accept THEN {o.model} \cap Yellow ELSE {}
  /\ UNCHANGED <<fileVars, modelVars>>

-----------------------------------------------------------------------------
(* `ai install`.  With Ollama, a model that was pulled and is listed.      *)
Pulled(c) ==
  /\ step[c] = "idle"
  /\ step'   = [step EXCEPT ![c] = "chosen"]
  /\ choice' = [choice EXCEPT ![c] = [provider |-> "ollama", model |-> Locked]]
  /\ UNCHANGED <<fileVars, modelVars, accepted>>

(* With llama.cpp, a copy from --from to where the model belongs, unless    *)
(* that is the file there.                                                 *)
CopyStarts(c) ==
  /\ step[c] = "idle"
  /\ step'    = [step EXCEPT ![c] = "copying"]
  /\ gguf'    = "partial"
  /\ \E f \in {"good", "wrong"} : source' = [source EXCEPT ![c] = f]
  /\ mixing'  = IF Doing("copying") = {} THEN mixing ELSE mixing \cup Doing("copying") \cup {c}
  /\ vouched' = FALSE
  /\ UNCHANGED <<choice, fileVars, accepted>>

CopyEnds(c) ==
  /\ step[c] = "copying"
  /\ step'   = [step EXCEPT ![c] = "placed"]
  /\ gguf'   \in {source[c]} \cup IF c \in mixing THEN {"partial"} ELSE {}
  /\ mixing' = mixing \ {c}
  /\ source' = [source EXCEPT ![c] = "good"]
  /\ UNCHANGED <<choice, vouched, fileVars, accepted>>

InPlace(c) ==
  /\ step[c] = "idle"
  /\ step' = [step EXCEPT ![c] = "placed"]
  /\ UNCHANGED <<choice, modelVars, fileVars, accepted>>

(* The file is there, and has the digest the lock pins, if it pins one.    *)
Verifies(pinned) == gguf # "absent" /\ (pinned => gguf = "good")

(* Without --no-enable the choice is saved. *)
Verified(c, pinned) ==
  /\ step[c] = "placed" /\ Verifies(pinned)
  /\ vouched' = (vouched \/ (pinned /\ Doing("copying") = {}))
  /\ \/ /\ step'   = [step EXCEPT ![c] = "chosen"]
        /\ choice' = [choice EXCEPT ![c] = [provider |-> "llama_cpp", model |-> Default]]
     \/ step' = [step EXCEPT ![c] = "idle"] /\ UNCHANGED choice
  /\ UNCHANGED <<gguf, source, mixing, fileVars, accepted>>

NotVerified(c, pinned) ==
  /\ step[c] = "placed" /\ ~Verifies(pinned)
  /\ step' = [step EXCEPT ![c] = "idle"]
  /\ UNCHANGED <<choice, modelVars, fileVars, accepted>>

-----------------------------------------------------------------------------
(* Mutant: the file is written over without having been emptied. *)
TruncateNothing(c) ==
  /\ step[c] = "chosen"
  /\ step'      = [step EXCEPT ![c] = "saving"]
  /\ disturbed' = (disturbed \/ Doing("saving") # {})
  /\ UNCHANGED <<choice, file, config, saved, modelVars, accepted>>

(* VantageConfig.save.                                                     *)
Truncate(c) ==
  /\ step[c] = "chosen"
  /\ step'      = [step EXCEPT ![c] = "saving"]
  /\ file'      = "empty"
  /\ config'    = Defaults
  /\ disturbed' = (disturbed \/ Doing("saving") # {})
  /\ UNCHANGED <<choice, saved, modelVars, accepted>>

(* Over what another command has written meanwhile, of which an end may be *)
(* left.                                                                   *)
Write(c) ==
  /\ step[c] = "saving"
  /\ step'   = [step EXCEPT ![c] = "idle"]
  /\ file'   \in {"whole"} \cup IF file = "empty" THEN {} ELSE {"mixed"}
  /\ config' = IF file' = "whole" THEN choice[c] ELSE Defaults
  /\ saved'  = choice[c]
  /\ choice' = [choice EXCEPT ![c] = Defaults]
  /\ disturbed' = (disturbed /\ ~(file = "empty" /\ Doing("saving") = {c}))
  /\ UNCHANGED <<modelVars, accepted>>

Killed(c) ==
  /\ step[c] # "idle"
  /\ step'      = [step EXCEPT ![c] = "idle"]
  /\ choice'    = [choice EXCEPT ![c] = Defaults]
  /\ mixing'    = mixing \ {c}
  /\ source'    = [source EXCEPT ![c] = "good"]
  /\ disturbed' = (disturbed \/ step[c] = "saving")
  /\ UNCHANGED <<file, config, saved, gguf, vouched, accepted>>

Command(c) ==
  \/ \E o \in Options : Select(c, o)
  \/ Pulled(c) \/ CopyStarts(c) \/ CopyEnds(c) \/ InPlace(c)
  \/ \E pinned \in BOOLEAN : Verified(c, pinned) \/ NotVerified(c, pinned)
  \/ Truncate(c) \/ Write(c) \/ Killed(c)

SetupNext == \E c \in Commands : Command(c)

-----------------------------------------------------------------------------
SetupTypeOK ==
  /\ step \in [Commands -> {"idle", "chosen", "saving", "copying", "placed"}]
  /\ choice \in [Commands -> Config]
  /\ file \in {"absent", "empty", "mixed", "whole"} /\ config \in Config
  /\ gguf \in {"absent", "partial", "wrong", "good"}
  /\ source \in [Commands -> {"good", "wrong"}]
  /\ mixing \subseteq Commands /\ vouched \in BOOLEAN
  /\ accepted \subseteq Yellow
  /\ saved \in Config /\ disturbed \in BOOLEAN

(* Outside a save the file says what the last save said, unless saves      *)
(* overlapped or one was cut short: no command reads half a file, and what *)
(* one that is refused, fails or is killed before its save meant is        *)
(* nowhere.                                                                *)
ChoiceStands ==
  ~disturbed /\ Doing("saving") = {} => config = saved

(* The model whose pinned digest was checked is the one on disk until a    *)
(* copy starts, also when copies overlapped before.                        *)
DigestVouches == vouched => gguf = "good"

SetupStands == ChoiceStands /\ DigestVouches
=============================================================================
