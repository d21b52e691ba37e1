----------------------------- MODULE LaunchPlan -----------------------------
(***************************************************************************)
(* How a launch is put together: the effective options (command line over  *)
(* the game's launch profile over the configuration), the runner and the   *)
(* wrappers, and the Wine prefix that BuildLaunchSpec prepares on the way: *)
(* which prefix, whether its Steam directory holds the emulator, with whose*)
(* settings, and whose saves its "GSE Saves" link leads to.                *)
(*                                                                         *)
(* Paths, names and addresses are abstracted to whose they are.            *)
(***************************************************************************)
EXTENDS Naturals, Sequences

CONSTANTS
    PlanGames,     \* game directories, each of a game of its own
    SteamGames,    \* those with a numeric Steam AppID
    NativeGames,   \* those whose executable is a Linux binary
    Players,       \* seats and profiles; "p1" is the user
    PrefixChoices, \* values of wine_prefix in a profile or the configuration
    MaxPlanEdits,  \* bound: changes of a profile or of the configuration
    PlanApart,     \* TRUE: no preview, edit or second launch reaches a prefix that is in use
    Requests       \* what a launch is asked with: a configuration, a profile, an executable, what is installed

ASSUME PlanAssumption ==
    /\ SteamGames \subseteq PlanGames /\ NativeGames \subseteq PlanGames /\ "p1" \in Players /\ PlanApart \in BOOLEAN
    /\ MaxPlanEdits \in Nat

VARIABLES
    planProfile,  \* the launch profile of each game
    planConfig,   \* operating_mode and wine_prefix of the configuration
    applied,      \* games whose directory has steam_settings
    steamDir,     \* <prefix>/drive_c/Program Files (x86)/Steam: whose emulator settings, if any
    gseLink,      \* <prefix>/.../GSE Saves: whose saves it leads to
    plays,        \* launches whose game is running
    planEdits,    \* history: changes so far
    options       \* what one launch is asked with; a command of its own, apart from the variables above

planVars == <<planProfile, planConfig, applied, steamDir, gseLink, plays, planEdits>>

Unset == "unset"
Toggles == {"mangohud", "gamescope", "inhibit_sleep", "prefer_sdl", "enable_wayland", "disable_overlay", "offline_mode"}
Options == Toggles \cup {"operating_mode", "runner", "wine_prefix", "proton_path", "platform", "force"}
NoOptions == [f \in Options |-> Unset]

ASSUME RequestsAssumption == \A r \in Requests : r.profile = [f \in Options |-> r.profile[f]]

-----------------------------------------------------------------------------
(* Effective options. *)

NormalizeOperatingMode(mode) == IF mode = "standalone" THEN "none" ELSE mode

(* MergeFrom: what is set stays, what is not is taken from the other. *)
MergeFrom(p, other) == [f \in Options |-> IF p[f] = Unset THEN other[f] ELSE p[f]]

OrElse(v, default) == IF v = Unset THEN default ELSE v

(* exe is what detectBinaryPlatform says of the executable. *)
ResolveEffectiveOptions(cfg, opts, profile, exe) ==
    LET m == MergeFrom(opts, profile)
        platform == OrElse(m.platform, exe)
        runner == IF m.runner \notin {Unset, "auto"} THEN m.runner
                  ELSE IF platform = "linux" THEN "linux" ELSE OrElse(cfg.runner, "umu")
    IN  [f \in Options |->
            CASE f = "platform" -> platform
              [] f = "runner" -> runner
              [] f = "operating_mode" -> OrElse(m[f], OrElse(cfg[f], "loader"))
              [] f = "wine_prefix" -> IF runner = "linux" THEN m[f] ELSE OrElse(m[f], cfg[f])
              [] f = "inhibit_sleep" -> OrElse(m[f], cfg[f])
              [] f \in Toggles \ {"inhibit_sleep"} -> IF m[f] = Unset /\ cfg[f] = "on" THEN "on" ELSE m[f]
              [] OTHER -> m[f]]

(* The fields the preview looks at: gamescope and the platform are not among them. *)
Previewed == Options \ {"gamescope", "platform", "force"}

(* Mutant of DetectOverrides: a toggle counts as overridden only when it is switched on. *)
OverridesSwitchedOn(p, cfg) ==
    {f \in Previewed :
        /\ p[f] # Unset
        /\ CASE f \in Toggles -> p[f] = "on" /\ cfg[f] # "on"
             [] f = "proton_path" -> TRUE
             [] f = "operating_mode" -> NormalizeOperatingMode(p[f]) # NormalizeOperatingMode(cfg[f])
             [] OTHER -> p[f] # cfg[f]}

(* The fields the launch preview names as overrides; a toggle that is not in the configuration is off. *)
DetectOverrides(p, cfg) ==
    {f \in Previewed :
        /\ p[f] # Unset
        /\ CASE f \in Toggles -> (p[f] = "on") # (cfg[f] = "on")
             [] f = "proton_path" -> TRUE
             [] f = "operating_mode" -> NormalizeOperatingMode(p[f]) # NormalizeOperatingMode(cfg[f])
             [] OTHER -> p[f] # cfg[f]}

(* ResolveRunner: the adapter for a runner and a platform. *)
ResolveRunner(name, platform) ==
    CASE name \in {"linux", "wine", "proton", "umu"} -> name
      [] OTHER -> IF platform = "linux" THEN "linux" ELSE "umu"

(* BuildArgs of the adapters: the runner's binary, which must be found (umu-run may be fetched), and the game's. *)
BuildArgs(runner, found) ==
    CASE runner = "linux" -> <<"exe">>
      [] runner \in {"umu", "wine", "proton"} /\ runner \in found -> <<runner, "exe">>
      [] OTHER -> <<>>

(* Mutant of UsesPrefix: only the platform is looked at. *)
UsesPrefixByPlatform(o) == o.platform # "linux"

(* Whether BuildLaunchSpec prepares a prefix. *)
UsesPrefix(o) == o.platform # "linux" \/ o.runner \in {"wine", "proton", "umu"}

(* The wrappers around the command, the outermost first; one that is not installed is left out. *)
Wrappers(o, found) ==
    LET windows == o.platform # "linux" \/ o.runner # "linux"
        if(cond, w) == IF cond /\ w \in found THEN <<w>> ELSE <<>>
    IN  if(windows /\ o.inhibit_sleep = "on", "systemd-inhibit") \o if(o.gamescope = "on", "gamescope")
            \o if(windows, "gamemoderun") \o if(windows /\ o.mangohud = "on", "mangohud")

(* The command line, empty when the runner cannot be had. *)
Command(o, found) ==
    LET args == BuildArgs(ResolveRunner(o.runner, o.platform), found)
    IN  IF args = <<>> THEN <<>> ELSE Wrappers(o, found) \o args

-----------------------------------------------------------------------------
(* The prefix. *)

ShouldEmulate(g, force) == IF force # Unset THEN force = "on" ELSE g \in SteamGames

(* DefaultPrefixesDirForSeat with ResolvePrefixIdentifier: a prefix of the seat and the game. *)
OwnPrefix(seat, g) == <<seat, g>>

(* "root" stands for a known directory of prefixes, ~/Games/umu: the game gets its own below it. *)
PrefixDir(g, seat, custom) ==
    CASE custom = "root" -> OwnPrefix("p1", g)
      [] custom \notin {"root", Unset} -> <<custom>>
      [] OTHER -> IF seat = "p1" /\ planConfig.wine_prefix # Unset
                    THEN <<planConfig.wine_prefix>> ELSE OwnPrefix(seat, g)

Prefixes == (Players \X PlanGames) \cup {<<c>> : c \in PrefixChoices}
Clean == "clean"

(* SetupWinePrefixSteamDir: the emulator's libraries, and the game's settings if it has been set up; else those there stay. *)
SetupWinePrefixSteamDir(dir, g, setUp) == IF g \in setUp THEN g ELSE IF dir = Clean THEN "nobody" ELSE dir

(* Mutant of EnsuredSteamDir: a game without emulation leaves the emulator where it is. *)
EnsuredNoScrub(dir, g, mode, force, setUp) ==
    IF mode = "loader" /\ ShouldEmulate(g, force) THEN SetupWinePrefixSteamDir(dir, g, setUp) ELSE dir

(* EnsureSeatPrefix on the prefix's Steam directory: the emulator goes in for loader mode and out (ScrubPrefixEmulation) *)
(* for a game that is not to be emulated; portable mode leaves it alone.                                                 *)
EnsuredSteamDir(dir, g, mode, force, setUp) ==
    CASE mode = "loader" /\ ShouldEmulate(g, force) -> SetupWinePrefixSteamDir(dir, g, setUp)
      [] mode = "loader" /\ ~ShouldEmulate(g, force) -> Clean
      [] mode \in {"none", "native"} -> Clean
      [] OTHER -> dir

-----------------------------------------------------------------------------
(* Launches. *)

Exe(g) == IF g \in NativeGames THEN "linux" ELSE "win64"

(* The part of the configuration this module changes; the toggles are OverridesComplete's business. *)
Config == [NoOptions EXCEPT !.operating_mode = planConfig.operating_mode, !.wine_prefix = planConfig.wine_prefix]

(* BuildLaunchSpec of a game with a profile, for a player: what the process is given and the prefix that is prepared. *)
LaunchSpec(g, player, profile) ==
    LET o == ResolveEffectiveOptions(Config, NoOptions, profile, Exe(g))
        mode == NormalizeOperatingMode(o.operating_mode)
    IN  [game |-> g, player |-> player, mode |-> mode, force |-> o.force,
         windows |-> UsesPrefix(o),
         prefix |-> PrefixDir(g, player, o.wine_prefix),
         \* WINEDLLOVERRIDES sends the Steam client libraries to the emulator's
         redirect |-> UsesPrefix(o) /\ mode = "loader" /\ ShouldEmulate(g, o.force)]

Prepared(dirs, s, setUp) ==
    IF s.windows THEN [dirs EXCEPT ![s.prefix] = EnsuredSteamDir(@, s.game, s.mode, s.force, setUp)] ELSE dirs

(* EnsurePrefixGSESymlink. *)
Linked(s) == IF s.windows THEN [gseLink EXCEPT ![s.prefix] = s.player] ELSE gseLink

(* ApplyGame, as far as prefixes go: the emulator's settings come into the game's directory, or go when it is not to be *)
(* emulated; the profile's own prefix is set up or scrubbed; the mode is pinned in the profile; and the launch script   *)
(* is made, for which the prefix is prepared.                                                                           *)
ApplyPrefix(g, profile, dirs) ==
    LET s == LaunchSpec(g, "p1", profile)
        emulate == ShouldEmulate(g, profile.force) /\ s.mode # "none"
        setUp == IF emulate THEN applied \cup {g} ELSE applied \ {g}
        own == profile.wine_prefix
        touched == IF own = Unset THEN dirs
                   ELSE [dirs EXCEPT ![<<own>>] =
                            IF ~emulate THEN Clean
                            ELSE IF s.mode = "loader" /\ Exe(g) # "linux" THEN SetupWinePrefixSteamDir(@, g, setUp) ELSE @]
    IN  [setUp |-> setUp,
         profile |-> [profile EXCEPT !.operating_mode = s.mode],
         dirs |-> IF emulate THEN Prepared(touched, s, setUp) ELSE touched]

InUse(path) == \E l \in plays : l.windows /\ l.prefix = path

(* What one at a time means: nothing of the game is running, and nothing else in the prefixes that are touched. *)
Undisturbed(s) ==
    PlanApart => /\ \A l \in plays : l.game # s.game
                 /\ ~InUse(s.prefix) /\ ~InUse(<<planProfile'[s.game].wine_prefix>>)

(* EnsureAndLaunchGame: a game that is not set up is set up first, then LaunchGame starts it for the player. *)
EnsureAndLaunchGame(g, player) ==
    LET made == IF g \in applied THEN [setUp |-> applied, profile |-> planProfile[g], dirs |-> steamDir]
                ELSE ApplyPrefix(g, planProfile[g], steamDir)
        s == LaunchSpec(g, player, made.profile)
    IN  /\ applied' = made.setUp
        /\ planProfile' = [planProfile EXCEPT ![g] = made.profile]
        /\ Undisturbed(s) /\ Undisturbed(LaunchSpec(g, "p1", made.profile))
        /\ steamDir' = Prepared(made.dirs, s, made.setUp)
        /\ gseLink' = Linked(s)
        /\ plays' = plays \cup {s}
        /\ UNCHANGED <<planConfig, planEdits>>

(* buildSeatCommand: ensureSeatPrefixPath prepares the seat's own prefix from the mode alone, without the profile's *)
(* force_emulation, and buildBaseLaunchSpec then prepares the same prefix again.                                    *)
buildSeatCommand(g, player) ==
    LET path == PrefixDir(g, player, Unset)
        s == [LaunchSpec(g, player, planProfile[g]) EXCEPT !.prefix = path]
        first == [steamDir EXCEPT ![path] = EnsuredSteamDir(@, g, s.mode, Unset, applied)]
    IN  /\ UNCHANGED <<planProfile, planConfig, applied, planEdits>>
        /\ s.redirect => g \in applied
        /\ Undisturbed(s)
        /\ steamDir' = Prepared(first, s, applied)
        /\ gseLink' = [gseLink EXCEPT ![path] = player]
        /\ plays' = plays \cup {s}

(* PreviewLaunch shows the specification, and prepares the prefix as a launch does. *)
PreviewLaunch(g) ==
    LET s == LaunchSpec(g, "p1", planProfile[g]) IN
    /\ UNCHANGED <<planProfile, planConfig, applied, plays, planEdits>>
    /\ Undisturbed(s)
    /\ steamDir' = Prepared(steamDir, s, applied)
    /\ gseLink' = Linked(s)

Edit == planEdits < MaxPlanEdits /\ planEdits' = planEdits + 1

(* SaveLaunchProfile: the profile, the launch script, for which the prefix is prepared, and when the mode changed *)
(* the rollback or the setup of the game.                                                                         *)
SaveLaunchProfile(g, mode, prefix, force) ==
    LET p == [planProfile[g] EXCEPT !.operating_mode = NormalizeOperatingMode(mode), !.wine_prefix = prefix, !.force = force]
        s == LaunchSpec(g, "p1", p)
        changed == mode # Unset /\ p.operating_mode # NormalizeOperatingMode(planProfile[g].operating_mode)
        dirs == Prepared(steamDir, s, applied)
        made == IF changed /\ s.mode # "none" THEN ApplyPrefix(g, p, dirs)
                ELSE [setUp |-> IF changed THEN applied \ {g} ELSE applied, profile |-> p, dirs |-> dirs]
    IN  /\ Edit
        /\ planProfile' = [planProfile EXCEPT ![g] = made.profile]
        /\ Undisturbed(s)
        /\ applied' = made.setUp
        /\ steamDir' = made.dirs
        /\ gseLink' = Linked(s)
        /\ UNCHANGED <<planConfig, plays>>

UpdatePlanConfig(mode, prefix) ==
    /\ Edit
    /\ planConfig' = [operating_mode |-> mode, wine_prefix |-> prefix]
    /\ UNCHANGED <<planProfile, applied, steamDir, gseLink, plays>>

GameExits(l) ==
    /\ plays' = plays \ {l}
    /\ UNCHANGED <<planProfile, planConfig, applied, steamDir, gseLink, planEdits>>

-----------------------------------------------------------------------------
Modes == {Unset, "loader", "portable", "standalone"}

PlanInit ==
    /\ planProfile = [g \in PlanGames |-> NoOptions]
    /\ planConfig \in [operating_mode : {"loader", "standalone"}, wine_prefix : PrefixChoices \cup {Unset}]
    /\ applied = {}
    /\ steamDir = [p \in Prefixes |-> Clean]
    /\ gseLink = [p \in Prefixes |-> Unset]
    /\ plays = {}
    /\ planEdits = 0

PlanNext ==
    \/ \E g \in PlanGames, p \in Players : EnsureAndLaunchGame(g, p) \/ buildSeatCommand(g, p)
    \/ \E g \in PlanGames : PreviewLaunch(g)
    \/ \E g \in PlanGames, m \in Modes, c \in PrefixChoices \cup {Unset}, f \in {Unset, "on", "off"} : SaveLaunchProfile(g, m, c, f)
    \/ \E m \in {"loader", "standalone"}, c \in PrefixChoices \cup {Unset} : UpdatePlanConfig(m, c)
    \/ \E l \in plays : GameExits(l)

PlanSpec == PlanInit /\ [][PlanNext]_planVars

(* While a Windows game runs, its prefix is what its command line was made for: libraries are redirected to the *)
(* emulator only where the emulator is, with the settings of this game; without redirection there is none left  *)
(* over from an earlier mode or another game (portable mode brings its own); and its saves are its player's.     *)
PrefixAsPlanned ==
    \A l \in plays : l.windows =>
        /\ l.redirect => steamDir[l.prefix] = l.game
        /\ l.mode = "none" \/ (l.mode = "loader" /\ ~l.redirect) => steamDir[l.prefix] = Clean
        /\ gseLink[l.prefix] = l.player

(* Whatever an option of the profile changes about a launch, the preview names as an override.  Not so gamescope and *)
(* the platform, which it does not look at, and the runner, which counts as an override only if it is not the         *)
(* configured one; and only a runner that takes a prefix reads the configured one.                                    *)
OverridesComplete(cfg, profile, exe) ==
    LET with == ResolveEffectiveOptions(cfg, NoOptions, profile, exe)
        without(f) == ResolveEffectiveOptions(cfg, NoOptions, [profile EXCEPT ![f] = Unset], exe)
        differ(f) == CASE f \in Toggles -> (with[f] = "on") # (without(f)[f] = "on")
                       [] f = "operating_mode" -> NormalizeOperatingMode(with[f]) # NormalizeOperatingMode(without(f)[f])
                       [] f = "wine_prefix" -> with.runner # "linux" /\ with[f] # without(f)[f]
                       [] OTHER -> with[f] # without(f)[f]
    IN  \A f \in (Toggles \ {"gamescope"}) \cup {"operating_mode", "wine_prefix", "proton_path"} :
            differ(f) => f \in DetectOverrides(profile, cfg)

(* A prefix is prepared exactly for the commands that run in one, though the two are decided apart (the platform     *)
(* and runner in BuildLaunchSpec, the adapter in ResolveRunner), unless the native runner was chosen for a Windows   *)
(* binary; and what is started is the game, inside every wrapper.                                                     *)
CommandHasPrefix(cfg, profile, exe, found) ==
    LET o == ResolveEffectiveOptions(cfg, NoOptions, profile, exe)
        c == Command(o, found)
        at(x) == \E i \in 1 .. Len(c) : c[i] = x
    IN  c # <<>> => /\ c[Len(c)] = "exe"
                    /\ o.runner = "linux" \/ UsesPrefix(o) = \E r \in {"umu", "wine", "proton"} : at(r)
                    /\ o.runner = "linux" /\ o.platform = "linux" => c \in {<<"exe">>, <<"gamescope", "exe">>}

(* What a launch is asked with does not change while it is put together. *)
OptionsSpec == options \in Requests /\ [][UNCHANGED options]_options

(* What the preview says of a launch is what the launch does (DetectOverrides against ResolveEffectiveOptions), and   *)
(* the command line and the prefix fit each other, whatever is configured, chosen and installed (BuildLaunchSpec      *)
(* against ResolveRunner).                                                                                            *)
LaunchExplained ==
    /\ OverridesComplete(options.cfg, options.profile, options.exe)
    /\ CommandHasPrefix(options.cfg, options.profile, options.exe, options.found)
=============================================================================
