------------------------------ MODULE Profiles ------------------------------
(***************************************************************************)
(* Player profiles (profiles.Manager): the list and the active profile, in *)
(* memory and in profiles.json, and the persona files that Materialize     *)
(* writes into the home of a profile.  Profile 1 is "main", whose home is  *)
(* the user's own; the others have a home of their own.                    *)
(*                                                                         *)
(* The list is changed under the lock; Materialize and the removal of a    *)
(* home happen after the unlock, so a call is a queue of steps.            *)
(***************************************************************************)
EXTENDS Naturals, Sequences, FiniteSetsExt

CONSTANTS
    Personas,             \* names, SteamIDs, languages: what is written into a home
    MaxProfile,           \* bound: the highest index a profile may get
    ProfileCallsOverlap,  \* TRUE: a call may start while another one is under way
    ExplicitLaunch        \* TRUE: launches may name a profile other than the active one

Unused == "unused"

ASSUME ProfilesAssumption ==
    /\ Unused \notin Personas
    /\ MaxProfile \in Nat \ {0} /\ ProfileCallsOverlap \in BOOLEAN /\ ExplicitLaunch \in BOOLEAN

VARIABLES
    profiles,    \* the list: persona of each profile, Unused where there is none
    activeID,
    profFile,    \* profiles.json
    homes,       \* the persona on disk in each home
    profCalls,   \* calls under way: what each has still to do
    launched     \* the last launch: the profile, its persona and the persona found in the home

profVars == <<profiles, activeID, profFile, homes, profCalls, launched>>

Ids == 1 .. MaxProfile
main == 1
Existing == {i \in Ids : profiles[i] # Unused}
NoLaunch == [id |-> main, want |-> Unused, found |-> Unused]

Step(do, id, with) == [do |-> do, id |-> id, with |-> with]

(* Materialize: the profile is read under the lock and its files are written without it. *)
Materialize(id) == <<Step("read", id, Unused), Step("write", id, Unused)>>

Free == ProfileCallsOverlap \/ profCalls = {}
Go(steps) == profCalls' = IF steps = <<>> THEN profCalls ELSE profCalls \cup {steps}

(* saveLocked: written to a temporary file and renamed.  When it fails the change in memory stays and the call returns. *)
saveLocked(rest) ==
    \/ /\ profFile' = [profiles |-> profiles', active |-> activeID']
       /\ Go(rest)
    \/ UNCHANGED <<profFile, profCalls>>

-----------------------------------------------------------------------------
SetActive(id) ==
    /\ Free
    /\ id \in Existing
    /\ activeID' = id
    /\ UNCHANGED <<profiles, homes, launched>>
    /\ saveLocked(Materialize(id))

Create(persona) ==
    /\ Free
    /\ LET id == Max(Existing) + 1 IN
         /\ id \in Ids
         /\ profiles' = [profiles EXCEPT ![id] = persona]
         /\ UNCHANGED <<activeID, homes, launched>>
         /\ saveLocked(Materialize(id))

(* Update writes the files of the active and of the main profile only. *)
Update(id, persona, rest) ==
    /\ id \in Existing
    /\ profiles' = [profiles EXCEPT ![id] = persona]
    /\ UNCHANGED <<activeID, homes, launched>>
    /\ saveLocked((IF id \in {activeID, main} THEN Materialize(id) ELSE <<>>) \o rest)

SaveProfile(id, persona) == Free /\ Update(id, persona, <<>>)

(* SaveGSEUserConfig: the active profile is updated, and then the user's own configs.user.ini is written. *)
SaveGSEUserConfig(persona) ==
    /\ Free
    /\ Update(activeID, persona, <<Step("host", main, persona)>>)

(* Delete: the active profile falls back to main; the home goes after the unlock. *)
DeleteProfile(id) ==
    /\ Free
    /\ id \in Existing \ {main}
    /\ profiles' = [profiles EXCEPT ![id] = Unused]
    /\ activeID' = IF activeID = id THEN main ELSE activeID
    /\ UNCHANGED <<homes, launched>>
    /\ saveLocked(<<Step("remove", id, Unused)>>)

(* Mutant of LaunchGame: the files are taken to be there since SetActive. *)
LaunchAsIs(id) ==
    /\ Free
    /\ id \in Existing /\ (ExplicitLaunch \/ id = activeID)
    /\ Go(<<Step("start", id, Unused)>>)
    /\ UNCHANGED <<profiles, activeID, profFile, homes, launched>>

(* LaunchGame: the active profile is materialized and the game is started in the home of the named profile, *)
(* the active one when none is named.                                                                       *)
LaunchGame(id) ==
    /\ Free
    /\ id \in Existing /\ (ExplicitLaunch \/ id = activeID)
    /\ Go(Materialize(activeID) \o <<Step("start", id, Unused)>>)
    /\ UNCHANGED <<profiles, activeID, profFile, homes, launched>>

-----------------------------------------------------------------------------
(* The persona in configs.user.ini is replaced; an empty field gets a default, and every persona here has them. *)
SaveGSEUserConfigToPath(id, persona) == [homes EXCEPT ![id] = persona]

(* One step of a call after the unlock.  Materialize of a profile that is gone fails and ends the call. *)
Advance(steps, rest) == profCalls' = (profCalls \ {steps}) \cup (IF rest = <<>> THEN {} ELSE {rest})

Perform(steps) ==
    LET s == Head(steps) IN
    /\ CASE s.do = "read" ->
              /\ IF s.id \in Existing
                   THEN Advance(steps, [Tail(steps) EXCEPT ![1].with = profiles[s.id]])
                   ELSE Advance(steps, SelectSeq(Tail(steps), LAMBDA t : t.do \in {"host", "start"}))
              /\ UNCHANGED <<homes, launched>>
         [] s.do \in {"write", "host"} ->
              /\ homes' = SaveGSEUserConfigToPath(s.id, s.with)
              /\ Advance(steps, Tail(steps))
              /\ UNCHANGED launched
         [] s.do = "remove" ->
              /\ homes' = [homes EXCEPT ![s.id] = Unused]
              /\ Advance(steps, Tail(steps))
              /\ UNCHANGED launched
         [] s.do = "start" ->
              /\ launched' = [id |-> s.id, want |-> profiles[s.id], found |-> homes[s.id]]
              /\ Advance(steps, Tail(steps))
              /\ UNCHANGED homes
    /\ UNCHANGED <<profiles, activeID, profFile>>

(* gamux is killed and started again: Load reads the file back, puts main into a list that lacks it and falls *)
(* back to main when the active profile is not in the list.                                                    *)
Load ==
    /\ profiles' = [profFile.profiles EXCEPT ![main] = IF @ = Unused THEN homes[main] ELSE @]
    /\ activeID' = IF profFile.profiles[profFile.active] = Unused THEN main ELSE profFile.active
    /\ profCalls' = {}
    /\ launched' = NoLaunch
    /\ UNCHANGED <<profFile, homes>>

(* The first start seeds main from the user's own Goldberg settings, and a second player. *)
ProfilesInit ==
    /\ \E p, q \in Personas :
         /\ profiles = [i \in Ids |-> CASE i = main -> p [] i = 2 -> q [] OTHER -> Unused]
         /\ homes = [i \in Ids |-> IF i = main THEN p ELSE Unused]
    /\ activeID = main
    /\ profFile = [profiles |-> profiles, active |-> main]
    /\ profCalls = {}
    /\ launched = NoLaunch

ProfilesNext ==
    \/ \E id \in Ids : SetActive(id) \/ DeleteProfile(id) \/ LaunchGame(id)
    \/ \E p \in Personas : Create(p) \/ SaveGSEUserConfig(p)
    \/ \E id \in Ids, p \in Personas : SaveProfile(id, p)
    \/ \E steps \in profCalls : Perform(steps)
    \/ Load

ProfilesSpec == ProfilesInit /\ [][ProfilesNext]_profVars

(* A game is started with the persona of the player it is started for: what the emulator finds in the home is what  *)
(* the list says, whatever was edited, created, deleted or restarted in between.                                     *)
LaunchPersona == launched.found = launched.want
=============================================================================
