------------------------------ MODULE MCEngine ------------------------------
(* Model-checking instance of what the engine does on request: submitting  *)
(* tasks, switching profiles, preparing launches, updating tools, trashing *)
(* games, and the options a launch ends up with.  They share no state in   *)
(* these models, so each behaviour is one of a single component, and       *)
(* `service' says which.                                                   *)
EXTENDS Submissions, Profiles, LaunchPlan, ToolUpdate, Trash

CONSTANT EngineServices

VARIABLE service

(* Configurations and profiles that differ in a few fields; the other      *)
(* toggles are treated as mangohud is.                                     *)
Tri == {Unset, "on", "off"}
OptionCases ==
    [cfg : {[NoOptions EXCEPT !.operating_mode = m, !.runner = r, !.wine_prefix = w,
                              !.mangohud = g, !.inhibit_sleep = "on"] :
              m \in {"loader", "standalone"}, r \in {Unset, "umu", "wine"},
              w \in {Unset, "shared"}, g \in {"on", "off"}},
     profile : {[NoOptions EXCEPT !.operating_mode = m, !.runner = r, !.platform = p,
                                  !.wine_prefix = w, !.mangohud = g, !.inhibit_sleep = i] :
              m \in {Unset, "loader", "none"}, r \in {Unset, "auto", "linux", "umu", "wine"},
              p \in {Unset, "linux"}, w \in {Unset, "shared"}, g \in Tri, i \in Tri},
     exe : {"linux", "win64"},
     found : {{"umu"}, {"wine", "mangohud", "gamemoderun", "systemd-inhibit"}}]
OneCase == CHOOSE c \in OptionCases : c.profile = NoOptions

(* Components other than the chosen one start in one state and stay in it. *)
(* Downloads and batches take slots of different pools and share nothing.  *)
Init ==
    /\ service \in EngineServices
    /\ SubmissionsInit
    /\ ProfilesInit
    /\ service # "profiles" => profiles[1] = "ann" /\ profiles[2] = "ann"
    /\ PlanInit
    /\ service # "launches" => planConfig.operating_mode = "loader" /\ planConfig.wine_prefix = Unset
    /\ ToolsInit
    /\ TrashInit
    /\ service # "tools" => tool = "gbe"
    /\ options \in IF service = "options" THEN Requests ELSE {OneCase}

Next ==
    \/ service = "downloads" /\ SubmissionsNext /\ life'["batch"] = life["batch"]
        /\ UNCHANGED <<service, options, profVars, planVars, toolVars, trashVars>>
    \/ service = "batches" /\ SubmissionsNext /\ \A t \in IOTasks : life'[t] = life[t]
        /\ UNCHANGED <<service, options, profVars, planVars, toolVars, trashVars>>
    \/ service = "profiles" /\ ProfilesNext /\ UNCHANGED <<service, options, subVars, planVars, toolVars, trashVars>>
    \/ service = "launches" /\ PlanNext /\ UNCHANGED <<service, options, subVars, profVars, toolVars, trashVars>>
    \/ service = "tools" /\ ToolsNext /\ UNCHANGED <<service, options, subVars, profVars, planVars, trashVars>>
    \/ service = "trash" /\ TrashNext /\ UNCHANGED <<service, options, subVars, profVars, planVars, toolVars>>

Spec == Init /\ [][Next]_<<service, options, subVars, profVars, planVars, toolVars, trashVars>>

EveryService == {"downloads", "batches", "profiles", "launches", "tools", "trash", "options"}
ToolsOnly == {"tools"}

(* Two downloads of one game and a batch over the library.                 *)
Jobs == [t \in Tasks |-> IF t = "batch" THEN [kind |-> "batch", app |-> ""]
                         ELSE [kind |-> "download", app |-> "a"]]
=============================================================================
