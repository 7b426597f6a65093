-------------------------- MODULE ControlPlaneProofs --------------------------
(***************************************************************************)
(* For every number of commands, threads and scans: no command and no      *)
(* server uses a YELLOW model nobody accepted, an undisturbed save and a   *)
(* checked digest stand, and a server whose first requests did not come at *)
(* the same time has one application.                                      *)
(***************************************************************************)
EXTENDS ControlPlane, TLAPS

(* Nobody copies over a file whose digest was checked, and a save that     *)
(* nothing disturbed has the file, empty, for itself.                      *)
SetupStages ==
  /\ vouched => gguf = "good" /\ Doing("copying") = {}
  /\ ~disturbed /\ Doing("saving") = {} => config = saved
  /\ ~disturbed => \A c, d \in Doing("saving") : c = d
  /\ ~disturbed /\ Doing("saving") # {} => file = "empty"

(* Without a race one worker builds, while there is no application; and a  *)
(* scan runs on the one there is.                                          *)
ServerStages ==
  ~raced => /\ \A v, w \in building : v = w
            /\ building # {} => app = 0
            /\ \A s \in Scans : scan[s] \in {0, app}

Inv == TypeOK /\ ReviewedThroughout /\ SetupStages /\ ServerStages

-----------------------------------------------------------------------------
(* Nothing has been saved, checked or built yet.                           *)
LEMMA InitInv == Init => Inv
<1> SUFFICES ASSUME Init PROVE Inv
  OBVIOUS
<1> USE CatalogAssumption DEF Init, SetupInit, ServerInit
<1>0. Defaults \in Config /\ Defaults.model \in Green
  BY DEF Defaults, Config, Providers, Models
<1>1. TypeOK
  BY <1>0 DEF TypeOK, SetupTypeOK, ServerTypeOK, Workers
<1>2. ReviewedThroughout
  BY <1>0 DEF ReviewedThroughout, YellowOnlyAccepted, Reviewed, Workers
<1>3. SetupStages
  BY DEF SetupStages, Doing
<1>4. ServerStages
  BY DEF ServerStages
<1> QED
  BY <1>1, <1>2, <1>3, <1>4 DEF Inv

(* What `ai select` saves is of the model it was allowed to select.        *)
LEMMA ChosenType ==
  ASSUME NEW o \in Options, NEW cfg \in Config
  PROVE  Chosen(o, cfg) \in Config /\ Chosen(o, cfg).model = o.model
<1>1. CASE o.provider # Keep
  BY <1>1 DEF Options, Config, Chosen
<1>2. CASE o.provider = Keep /\ cfg.provider = "none"
  BY <1>2 DEF Options, Config, Chosen, Providers
<1>3. CASE o.provider = Keep /\ cfg.provider # "none"
  BY <1>3 DEF Options, Config, Chosen
<1> QED
  BY <1>1, <1>2, <1>3

(* A command keeps the types of the setup.                                 *)
LEMMA CommandTypes ==
  ASSUME SetupTypeOK, NEW c \in Commands, Command(c)
  PROVE  SetupTypeOK'
<1> USE CatalogAssumption DEF SetupTypeOK, fileVars, modelVars
<1>0. Defaults \in Config
  BY DEF Defaults, Config, Providers, Models
<1>1. ASSUME NEW o \in Options, Select(c, o) PROVE SetupTypeOK'
  <2>1. Chosen(o, config) \in Config
    BY ChosenType
  <2> QED
    BY <1>1, <2>1 DEF Select
<1>2. CASE Pulled(c)
  <2>1. [provider |-> "ollama", model |-> Locked] \in Config
    BY DEF Config, Providers, Models
  <2> QED
    BY <1>2, <2>1 DEF Pulled
<1>3. CASE CopyStarts(c)
  BY <1>3 DEF CopyStarts, Doing
<1>4. CASE CopyEnds(c)
  BY <1>4 DEF CopyEnds
<1>5. CASE InPlace(c)
  BY <1>5 DEF InPlace
<1>6. ASSUME NEW pinned \in BOOLEAN, Verified(c, pinned) PROVE SetupTypeOK'
  <2>1. [provider |-> "llama_cpp", model |-> Default] \in Config
    BY DEF Config, Providers, Models
  <2>2. step' \in [Commands -> {"idle", "chosen", "saving", "copying", "placed"}] /\ choice' \in [Commands -> Config]
    BY <1>6, <2>1 DEF Verified
  <2>3. vouched' \in BOOLEAN
    BY <1>6 DEF Verified
  <2> QED
    BY <1>6, <2>2, <2>3 DEF Verified
<1>7. ASSUME NEW pinned \in BOOLEAN, NotVerified(c, pinned) PROVE SetupTypeOK'
  BY <1>7 DEF NotVerified
<1>8. CASE Truncate(c)
  BY <1>0, <1>8 DEF Truncate
<1>9. CASE Write(c)
  <2>1. disturbed' \in BOOLEAN
    BY <1>9 DEF Write
  <2>2. choice[c] \in Config
    OBVIOUS
  <2>3. file' \in {"mixed", "whole"} /\ config' \in Config /\ saved' \in Config
    BY <1>0, <1>9, <2>2 DEF Write
  <2> QED
    BY <1>0, <1>9, <2>1, <2>3 DEF Write
<1>10. CASE Killed(c)
  <2>1. disturbed' \in BOOLEAN
    BY <1>10 DEF Killed
  <2> QED
    BY <1>0, <1>10, <2>1 DEF Killed
<1> QED
  BY <1>1, <1>2, <1>3, <1>4, <1>5, <1>6, <1>7, <1>8, <1>9, <1>10 DEF Command

(* A command that changes nothing of the files leaves their stages.        *)
LEMMA QuietCommand ==
  ASSUME SetupTypeOK, SetupStages, NEW c \in Commands,
         UNCHANGED <<fileVars, gguf, vouched>>,
         NEW s \in {"idle", "chosen", "placed"}, step' = [step EXCEPT ![c] = s],
         step[c] # "saving"
  PROVE  SetupStages'
<1>1. Doing("saving")' = Doing("saving") /\ Doing("copying")' \subseteq Doing("copying")
  BY DEF SetupTypeOK, Doing
<1> QED
  BY <1>1 DEF SetupStages, fileVars

(* A command keeps the stages of the setup.                                *)
LEMMA CommandStages ==
  ASSUME SetupTypeOK, SetupStages, NEW c \in Commands, Command(c)
  PROVE  SetupStages'
<1> USE DEF fileVars, modelVars
<1>1. ASSUME NEW o \in Options, Select(c, o) PROVE SetupStages'
  BY <1>1, QuietCommand DEF Select
<1>2. CASE Pulled(c)
  BY <1>2, QuietCommand DEF Pulled
<1>3. CASE CopyStarts(c)
  <2>1. Doing("saving")' = Doing("saving")
    BY <1>3 DEF CopyStarts, Doing, SetupTypeOK
  <2> QED
    BY <1>3, <2>1 DEF CopyStarts, SetupStages
<1>4. CASE CopyEnds(c)
  <2>1. Doing("saving")' = Doing("saving") /\ c \in Doing("copying")
    BY <1>4 DEF CopyEnds, Doing, SetupTypeOK
  <2> QED
    BY <1>4, <2>1 DEF CopyEnds, SetupStages
<1>5. CASE InPlace(c)
  BY <1>5, QuietCommand DEF InPlace
<1>6. ASSUME NEW pinned \in BOOLEAN, Verified(c, pinned) PROVE SetupStages'
  <2>1. Doing("saving")' = Doing("saving") /\ Doing("copying")' = Doing("copying")
    BY <1>6 DEF Verified, Doing, SetupTypeOK
  <2>2. UNCHANGED <<file, config, saved, disturbed, gguf>>
    BY <1>6 DEF Verified
  <2>3. vouched' => gguf = "good" /\ Doing("copying") = {}
    BY <1>6 DEF Verified, Verifies, SetupStages
  <2> QED
    BY <2>1, <2>2, <2>3 DEF SetupStages
<1>7. ASSUME NEW pinned \in BOOLEAN, NotVerified(c, pinned) PROVE SetupStages'
  BY <1>7, QuietCommand DEF NotVerified
<1>8. CASE Truncate(c)
  <2>1. Doing("saving")' = Doing("saving") \cup {c} /\ Doing("copying")' = Doing("copying")
    BY <1>8 DEF Truncate, Doing, SetupTypeOK
  <2>2. ~disturbed' => ~disturbed /\ Doing("saving") = {}
    BY <1>8 DEF Truncate
  <2>3. file' = "empty" /\ UNCHANGED <<vouched, gguf>>
    BY <1>8 DEF Truncate
  <2> QED
    BY <2>1, <2>2, <2>3 DEF SetupStages
<1>9. CASE Write(c)
  <2>1. Doing("saving")' = Doing("saving") \ {c} /\ Doing("copying")' = Doing("copying") /\ c \in Doing("saving")
    BY <1>9 DEF Write, Doing, SetupTypeOK
  <2>2. ~disturbed' => Doing("saving") = {c} /\ file = "empty"
    <3>1. ~disturbed => Doing("saving") = {c} /\ file = "empty"
      BY <2>1 DEF SetupStages
    <3> QED
      BY <1>9, <3>1 DEF Write
  <2>3. ~disturbed' => config' = saved'
    BY <1>9, <2>2 DEF Write
  <2>4. UNCHANGED <<vouched, gguf>>
    BY <1>9 DEF Write
  <2> QED
    BY <2>1, <2>2, <2>3, <2>4 DEF SetupStages
<1>10. CASE Killed(c)
  <2>1. CASE step[c] = "saving"
    <3>1. disturbed' /\ Doing("copying")' = Doing("copying") /\ UNCHANGED <<vouched, gguf>>
      BY <1>10, <2>1 DEF Killed, Doing, SetupTypeOK
    <3> QED
      BY <3>1 DEF SetupStages
  <2>2. CASE step[c] # "saving"
    <3>1. UNCHANGED <<fileVars, gguf, vouched>>
      BY <1>10, <2>2 DEF Killed, SetupTypeOK
    <3> QED
      BY <1>10, <2>2, <3>1, QuietCommand DEF Killed
  <2> QED
    BY <2>1, <2>2
<1> QED
  BY <1>1, <1>2, <1>3, <1>4, <1>5, <1>6, <1>7, <1>8, <1>9, <1>10 DEF Command

(* What a command is about to save, and saves, was reviewed.               *)
LEMMA CommandReviewed ==
  ASSUME SetupTypeOK, ReviewedThroughout, NEW c \in Commands, Command(c), UNCHANGED serverVars
  PROVE  ReviewedThroughout'
<1> USE CatalogAssumption DEF fileVars, modelVars
<1>0. UNCHANGED <<ai, read>>
  BY DEF serverVars
<1>1. Reviewed \subseteq Reviewed'
  BY DEF Reviewed, Command, Select, Pulled, CopyStarts, CopyEnds, InPlace, Verified,
         NotVerified, Truncate, Write, Killed
<1>2. {Default, Locked, Defaults.model} \subseteq Reviewed
  BY DEF Defaults, Reviewed
<1>3. config'.model \in Reviewed'
  <2>1. config' \in {config, Defaults, choice[c]}
    BY DEF Command, Select, Pulled, CopyStarts, CopyEnds, InPlace, Verified,
           NotVerified, Truncate, Write, Killed
  <2> QED
    BY <1>1, <1>2, <2>1 DEF ReviewedThroughout, YellowOnlyAccepted
<1>4. ASSUME NEW d \in Commands PROVE choice'[d].model \in Reviewed'
  <2>1. choice[d].model \in Reviewed
    BY DEF ReviewedThroughout
  <2>2. ASSUME NEW o \in Options, Select(c, o) PROVE choice'[d].model \in Reviewed'
    <3>1. Chosen(o, config).model = o.model /\ o.model \in Models
      BY ChosenType DEF SetupTypeOK, Options
    <3>2. o.model \in Green \cup accepted'
      BY <2>2, <3>1 DEF Select, Allowed, Models
    <3>3. choice'[d] = IF d = c THEN Chosen(o, config) ELSE choice[d]
      BY <2>2 DEF Select, SetupTypeOK
    <3> QED
      BY <1>1, <2>1, <3>1, <3>2, <3>3 DEF Reviewed
  <2>3. CASE Pulled(c)
    <3>1. choice'[d] = IF d = c THEN [provider |-> "ollama", model |-> Locked] ELSE choice[d]
      BY <2>3 DEF Pulled, SetupTypeOK
    <3> QED
      BY <1>1, <1>2, <2>1, <3>1
  <2>4. ASSUME NEW pinned \in BOOLEAN, Verified(c, pinned) PROVE choice'[d].model \in Reviewed'
    <3>1. choice'[d] \in {[provider |-> "llama_cpp", model |-> Default], choice[d]}
      BY <2>4 DEF Verified, SetupTypeOK
    <3> QED
      BY <1>1, <1>2, <2>1, <3>1
  <2>5. CASE Write(c) \/ Killed(c)
    <3>1. choice'[d] \in {Defaults, choice[d]}
      BY <2>5 DEF Write, Killed, SetupTypeOK
    <3> QED
      BY <1>1, <1>2, <2>1, <3>1
  <2>6. CASE choice' = choice
    BY <1>1, <2>1, <2>6
  <2> QED
    BY <2>2, <2>3, <2>4, <2>5, <2>6 DEF Command, CopyStarts, CopyEnds, InPlace, NotVerified, Truncate
<1> QED
  BY <1>0, <1>1, <1>3, <1>4 DEF ReviewedThroughout, YellowOnlyAccepted

-----------------------------------------------------------------------------
(* A worker that starts to build.                                          *)
LEMMA StartsInv ==
  ASSUME Inv, NEW w \in Workers, StartsBuilding(w), UNCHANGED scan
  PROVE  ServerTypeOK' /\ ServerStages' /\ ai' \in Reviewed /\ \A v \in Workers : read'[v] \in Reviewed
<1>0. ServerTypeOK /\ ServerStages
  BY DEF Inv, TypeOK
<1>1. AiProvider(config) \in Reviewed /\ AiProvider(config) \in {"none"} \cup Models
  BY DEF Inv, TypeOK, SetupTypeOK, Config, AiProvider, ReviewedThroughout, YellowOnlyAccepted, Reviewed
<1>2. raced' \in BOOLEAN /\ (~raced' => ~raced /\ building = {})
  BY <1>0 DEF StartsBuilding, ServerTypeOK
<1>3. app = 0 /\ building' = building \cup {w} /\ UNCHANGED <<app, ai, scan>>
  BY DEF StartsBuilding
<1>4. read' = [read EXCEPT ![w] = AiProvider(config)]
  BY DEF StartsBuilding
<1>5. ServerTypeOK'
  BY <1>0, <1>1, <1>2, <1>3, <1>4 DEF ServerTypeOK
<1>6. ServerStages'
  BY <1>0, <1>2, <1>3 DEF ServerStages
<1>7. ai' \in Reviewed /\ \A v \in Workers : read'[v] \in Reviewed
  BY <1>0, <1>1, <1>3, <1>4 DEF Inv, ReviewedThroughout, YellowOnlyAccepted, ServerTypeOK
<1> QED
  BY <1>5, <1>6, <1>7

(* A step of the server.                                                   *)
LEMMA ServerInv ==
  ASSUME Inv, ServerNext
  PROVE  Inv'
<1>0. ServerTypeOK /\ ServerStages
  BY DEF Inv, TypeOK
<1>1. UNCHANGED setupVars
  BY DEF ServerNext, GetEngines, Built, CreateScan, CreateFirstScan, Restart
<1>2. /\ SetupTypeOK' /\ SetupStages' /\ Reviewed' = Reviewed
      /\ config'.model \in Reviewed /\ \A c \in Commands : choice'[c].model \in Reviewed
  BY <1>1 DEF Inv, TypeOK, SetupTypeOK, SetupStages, Doing, setupVars, fileVars, modelVars,
              ReviewedThroughout, YellowOnlyAccepted, Reviewed
<1>3. ai \in Reviewed /\ \A v \in Workers : read[v] \in Reviewed
  BY DEF Inv, ReviewedThroughout, YellowOnlyAccepted
<1>4. SUFFICES ServerTypeOK' /\ ServerStages' /\ ai' \in Reviewed /\ \A v \in Workers : read'[v] \in Reviewed
  BY <1>2 DEF Inv, TypeOK, ReviewedThroughout, YellowOnlyAccepted
<1>5. ASSUME NEW w \in Workers, GetEngines(w) PROVE <1>4!1
  BY <1>5, StartsInv DEF GetEngines
<1>6. ASSUME NEW w \in Workers, Built(w) PROVE <1>4!1
  <2>0. "none" \in Reviewed /\ read[w] \in Reviewed
    BY <1>3 DEF Reviewed
  <2>1. /\ w \in building /\ app' = app + 1 /\ ai' = read[w] /\ building' = building \ {w}
        /\ read' = [read EXCEPT ![w] = "none"] /\ raced' = raced
    BY <1>6 DEF Built
  <2>2. scan' = scan \/ \E s \in Scans : scan' = [scan EXCEPT ![s] = app']
    BY <1>6 DEF Built, RunsOn
  <2>3. scan' \in [Scans -> Nat] /\ \A s \in Scans : scan'[s] \in {scan[s], app'}
    BY <1>0, <2>1, <2>2 DEF ServerTypeOK
  <2>4. ServerTypeOK'
    BY <1>0, <2>1, <2>3 DEF ServerTypeOK
  <2>5. ServerStages'
    <3> SUFFICES ASSUME ~raced'
                 PROVE  building' = {} /\ \A s \in Scans : scan'[s] \in {0, app'}
      BY DEF ServerStages
    <3>1. building = {w} /\ app = 0 /\ \A s \in Scans : scan[s] = 0
      BY <1>0, <2>1 DEF ServerStages
    <3> QED
      BY <2>1, <2>3, <3>1
  <2>6. \A v \in Workers : read'[v] \in Reviewed
    BY <1>0, <1>3, <2>0, <2>1 DEF ServerTypeOK
  <2> QED
    BY <2>0, <2>1, <2>4, <2>5, <2>6
<1>7. ASSUME NEW s \in Scans, CreateScan(s) PROVE <1>4!1
  <2>1. scan' = [scan EXCEPT ![s] = app] /\ UNCHANGED <<app, ai, building, read, raced>>
    BY <1>7 DEF CreateScan, RunsOn
  <2>2. ServerTypeOK'
    BY <1>0, <2>1 DEF ServerTypeOK
  <2>3. ServerStages'
    BY <1>0, <2>1 DEF ServerStages, ServerTypeOK
  <2> QED
    BY <1>3, <2>1, <2>2, <2>3
<1>8. CASE CreateFirstScan
  <2>1. Loop \in Workers /\ StartsBuilding(Loop) /\ UNCHANGED scan
    BY <1>8 DEF CreateFirstScan, Workers
  <2> QED
    BY <2>1, StartsInv
<1>9. CASE Restart
  <2>1. ServerTypeOK' /\ ServerStages'
    BY <1>9 DEF Restart, ServerTypeOK, ServerStages
  <2> QED
    BY <1>9, <2>1 DEF Restart, Reviewed
<1> QED
  BY <1>5, <1>6, <1>7, <1>8, <1>9 DEF ServerNext

(* Every step keeps the invariant.                                         *)
LEMMA NextInv == Inv /\ [Next]_vars => Inv'
<1> SUFFICES ASSUME Inv, [Next]_vars PROVE Inv'
  OBVIOUS
<1>1. ASSUME NEW c \in Commands, Command(c), UNCHANGED serverVars PROVE Inv'
  <2>1. SetupTypeOK' /\ SetupStages' /\ ReviewedThroughout'
    BY <1>1, CommandTypes, CommandStages, CommandReviewed DEF Inv, TypeOK
  <2>2. ServerTypeOK' /\ ServerStages'
    BY <1>1 DEF Inv, TypeOK, ServerTypeOK, ServerStages, serverVars
  <2> QED
    BY <2>1, <2>2 DEF Inv, TypeOK
<1>2. CASE ServerNext
  BY <1>2, ServerInv
<1>3. CASE UNCHANGED vars
  <2>1. TypeOK' /\ ReviewedThroughout'
    BY <1>3 DEF Inv, TypeOK, SetupTypeOK, ServerTypeOK, ReviewedThroughout, YellowOnlyAccepted,
                Reviewed, vars, setupVars, serverVars, fileVars, modelVars
  <2>2. SetupStages' /\ ServerStages'
    BY <1>3 DEF Inv, SetupStages, ServerStages, Doing, vars, setupVars, serverVars, fileVars, modelVars
  <2> QED
    BY <2>1, <2>2 DEF Inv
<1> QED
  BY <1>1, <1>2, <1>3 DEF Next, SetupNext

(* The invariant holds throughout.                                         *)
LEMMA InvHolds == Spec => []Inv
  BY InitInv, NextInv, PTL DEF Spec

(* The configuration never holds, and the server never uses, a YELLOW      *)
(* model that `ai select` did not get with --accept-yellow.                *)
THEOREM ReviewedHolds == Spec => []YellowOnlyAccepted
<1>1. Inv => YellowOnlyAccepted
  BY DEF Inv, ReviewedThroughout
<1> QED
  BY <1>1, InvHolds, PTL

(* What an undisturbed save wrote is what commands read, and the file      *)
(* whose pinned digest `ai install` checked is the one on disk.            *)
THEOREM SetupHolds == Spec => []SetupStands
<1>1. Inv => SetupStands
  BY DEF Inv, SetupStages, SetupStands, ChoiceStands, DigestVouches
<1> QED
  BY <1>1, InvHolds, PTL

(* The scans of a server run on one application, unless two requests were  *)
(* the first.                                                              *)
THEOREM OneAppHolds == Spec => []ScansShareTheApp
<1>1. Inv => ScansShareTheApp
  BY DEF Inv, ServerStages, ScansShareTheApp
<1> QED
  BY <1>1, InvHolds, PTL
=============================================================================
