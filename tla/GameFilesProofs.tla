--------------------------- MODULE GameFilesProofs ---------------------------
(***************************************************************************)
(* Proofs about the user's own files around a game: the libraries that the *)
(* emulator replaces, and the saves that are backed up.                    *)
(***************************************************************************)
EXTENDS Emulator, SaveBackups, FiniteSetTheorems, SequenceTheorems, WellFoundedInduction, TLAPS

-----------------------------------------------------------------------------
(* The emulator *)

(* Backups are sequences of contents, one more for each replacement that renamed the file. *)
LEMMA BackedUpType ==
  ASSUME NEW bs \in Seq(Contents), NEW old \in Contents, NEW outcome
  PROVE  BackedUp(bs, old, outcome) \in Seq(Contents)
BY DEF BackedUp

LEMMA ReplacedType ==
  ASSUME NEW old \in Contents \cup {Absent}, NEW outcome \in {"copied", "torn", "uncreated", "kept"},
         emu \in 1 .. MaxEmu
  PROVE  Replaced(old, outcome) \in Contents \cup {Absent}
BY DEF Replaced, Contents

LEMMA ContentsDiffer ==
  /\ Absent \notin Contents /\ Torn \in Contents /\ Link \in Contents
  /\ \A v : Game(v) # Absent /\ Game(v).by = "game" /\ Game(v) # Torn /\ Game(v) # Link
  /\ \A v, w : Game(v) # Emu(w) /\ Emu(v) # Absent
BY DEF Absent, Contents, Torn, Link, Game, Emu

LEMMA FaultsKnown ==
  ASSUME regime \in Regimes
  PROVE  /\ Faults \subseteq {"kept", "uncreated", "torn", "stuck"}
         /\ Outcomes \subseteq {"copied", "torn", "uncreated", "kept"}
         /\ Outcomes = {"copied"} \cup (Faults \ {"stuck"})
         /\ Ships \in SUBSET Files
         /\ Stuck \subseteq BOOLEAN
BY EmulatorAssumption DEF RegimeType, Faults, Outcomes, Ships, Files, Stuck

(* Whether a file is replaced, as ApplyPortable's walk decides it. *)
Exchanged(f, out) ==
  /\ CleanLoaderArtifacts(content)[f] # Absent
  /\ content'[f] = Replaced(CleanLoaderArtifacts(content)[f], out[f])
  /\ baks'[f] = BackedUp(baks[f], CleanLoaderArtifacts(content)[f], out[f])

LeftAlone(f) == content'[f] = CleanLoaderArtifacts(content)[f] /\ baks'[f] = baks[f]

(* What the walk of gbe.Apply does in portable mode: an outdated library is replaced; the   *)
(* interface names are read only where the library is the emulator's.                       *)
LEMMA PortableEffect ==
  ASSUME EmulatorTypeOK, NEW out \in [Files -> Outcomes], ApplyPortable(out)
  PROVE  /\ content' \in [Files -> Contents \cup {Absent}] /\ baks' \in [Files -> Seq(Contents)]
         /\ CleanLoaderArtifacts(content) \in [Files -> Contents \cup {Absent}]
         /\ CleanLoaderArtifacts(content)["lib"] = content["lib"]
         /\ IF content["lib"] \in {Absent, Emu(emu)} THEN LeftAlone("lib") ELSE Exchanged("lib", out)
         /\ LeftAlone("client") \/ Exchanged("client", out)
         /\ \/ ifaces' = ifaces
            \/ /\ content'["lib"] = Emu(emu)
               /\ ifaces' = GenerateAndSaveInterfaces(content', baks')
<1> DEFINE c0 == CleanLoaderArtifacts(content)
           outdated == TargetFound /\ content["lib"] # Emu(emu)
           failed == outdated /\ out["lib"] # "copied"
           replaced == {f \in Files :
                       \/ f = "lib" /\ outdated
                       \/ f = "client" /\ TargetFound /\ ~failed /\ c0["client"] # Absent}
<1>1. /\ Files = {"lib", "client"} /\ \A f \in Files : content[f] \in Contents \cup {Absent} /\ baks[f] \in Seq(Contents)
      /\ content \in [Files -> Contents \cup {Absent}] /\ emu \in 1 .. MaxEmu
  BY DEF Files, EmulatorTypeOK
<1>2. c0 \in [Files -> Contents \cup {Absent}] /\ c0["lib"] = content["lib"]
  BY <1>1 DEF CleanLoaderArtifacts
<1>3. content' = [f \in Files |-> IF f \in replaced THEN Replaced(c0[f], out[f]) ELSE c0[f]]
      /\ baks' = [f \in Files |-> IF f \in replaced THEN BackedUp(baks[f], c0[f], out[f]) ELSE baks[f]]
      /\ ifaces' = IF TargetFound /\ ~failed THEN GenerateAndSaveInterfaces(content', baks') ELSE ifaces
  BY DEF ApplyPortable
<1>4. "lib" \in replaced <=> content["lib"] \notin {Absent, Emu(emu)}
  BY <1>1 DEF TargetFound
<1>5. \A f \in replaced : c0[f] # Absent
  BY <1>1, <1>2, <1>4
<1> HIDE DEF c0, replaced
<1>6. \A f \in Files : Replaced(c0[f], out[f]) \in Contents \cup {Absent}
  BY <1>1, <1>2, ReplacedType, FaultsKnown DEF EmulatorTypeOK
<1>7. \A f \in replaced : BackedUp(baks[f], c0[f], out[f]) \in Seq(Contents)
  <2>1. replaced \subseteq Files
    BY DEF replaced
  <2> QED BY <1>1, <1>2, <1>5, <2>1, BackedUpType
<1>8. TargetFound /\ ~failed => content'["lib"] = Emu(emu)
  <2>1. CASE outdated
    BY <1>1, <1>3, <1>4, <2>1 DEF TargetFound, Replaced
  <2>2. CASE ~outdated
    BY <1>1, <1>2, <1>3, <1>4, <2>2
  <2> QED BY <2>1, <2>2
<1>9. IF content["lib"] \in {Absent, Emu(emu)} THEN LeftAlone("lib") ELSE Exchanged("lib", out)
  BY <1>1, <1>3, <1>4, <1>5 DEF LeftAlone, Exchanged, c0
<1>10. LeftAlone("client") \/ Exchanged("client", out)
  BY <1>1, <1>3, <1>5 DEF LeftAlone, Exchanged, c0
<1>11. content' \in [Files -> Contents \cup {Absent}] /\ baks' \in [Files -> Seq(Contents)]
  BY <1>1, <1>2, <1>3, <1>6, <1>7
<1> QED BY <1>2, <1>3, <1>8, <1>9, <1>10, <1>11 DEF c0

LEMMA EmulatorTypesInit == EmulatorInit => EmulatorTypeOK
<1> SUFFICES ASSUME EmulatorInit PROVE EmulatorTypeOK
  OBVIOUS
<1>1. Game(1) \in Contents /\ 1 \in 1 .. MaxGame /\ 1 \in 1 .. MaxEmu
  BY EmulatorAssumption DEF Contents
<1>2. baks \in [Files -> Seq(Contents)] /\ \A f \in Files : Len(baks[f]) <= MaxBaks
  BY EmulatorAssumption DEF EmulatorInit
<1> QED BY <1>1, <1>2 DEF EmulatorInit, EmulatorTypeOK, Files

LEMMA EmulatorTypesStep == EmulatorTypeOK /\ [EmulatorNext]_emuVars => EmulatorTypeOK'
<1> SUFFICES ASSUME EmulatorTypeOK, [EmulatorNext]_emuVars PROVE EmulatorTypeOK'
  OBVIOUS
<1>f. Files = {"lib", "client"} /\ \A f \in Files : content[f] \in Contents \cup {Absent} /\ baks[f] \in Seq(Contents)
  BY DEF Files, EmulatorTypeOK
<1>0. CASE UNCHANGED emuVars
  BY <1>0 DEF emuVars, EmulatorTypeOK
<1>1. ASSUME NEW out \in [Files -> Outcomes], ApplyPortable(out) PROVE EmulatorTypeOK'
  <2>1. content' \in [Files -> Contents \cup {Absent}] /\ baks' \in [Files -> Seq(Contents)]
    BY <1>1, PortableEffect
  <2>2. GenerateAndSaveInterfaces(content', baks') \in Contents \cup {Absent}
    BY <1>f, <2>1 DEF GenerateAndSaveInterfaces, InterfaceSource, EmulatorTypeOK
  <2>3. ifaces' \in Contents \cup {Absent}
    BY <1>1, <2>2, PortableEffect DEF EmulatorTypeOK
  <2>4. artifacts' \subseteq Kinds \X Dirs
    BY <1>1 DEF ApplyPortable, EmulatorTypeOK, SettingsEverywhere, Kinds
  <2>5. \A f \in Files : Len(baks'[f]) <= MaxBaks
    BY <1>1 DEF ApplyPortable
  <2> QED BY <1>1, <2>1, <2>3, <2>4, <2>5 DEF ApplyPortable, EmulatorTypeOK, AllModes
<1>2. ASSUME NEW stuck \in Stuck, ApplyLoader(stuck) PROVE EmulatorTypeOK'
  <2> DEFINE r == IF TargetFound THEN RestoreOriginalBackup(content, baks, stuck) ELSE [c |-> content, b |-> baks]
             c1 == IF TargetFound THEN SetupLoaderMode(r.c) ELSE r.c
  <2>0. content' = c1 /\ baks' = r.b /\ ifaces' = IF TargetFound THEN GenerateAndSaveInterfaces(c1, r.b) ELSE ifaces
    BY <1>2 DEF ApplyLoader
  <2>1. /\ r.c \in [Files -> Contents \cup {Absent}]
        /\ r.b \in [Files -> Seq(Contents)]
        /\ \A f \in Files : Len(r.b[f]) <= MaxBaks
    <3>1. CASE ~TargetFound \/ baks["lib"] = <<>>
      BY <3>1 DEF RestoreOriginalBackup, EmulatorTypeOK
    <3>2. CASE TargetFound /\ baks["lib"] # <<>>
      <4>1. baks["lib"][1] \in Contents /\ Tail(baks["lib"]) \in Seq(Contents) /\ Len(Tail(baks["lib"])) <= MaxBaks
        BY <1>f, <3>2, EmulatorAssumption DEF EmulatorTypeOK
      <4> QED BY <1>f, <3>2, <4>1 DEF RestoreOriginalBackup, EmulatorTypeOK
    <3> QED BY <3>1, <3>2
  <2> HIDE DEF r
  <2>2. c1 \in [Files -> Contents \cup {Absent}]
    BY <1>f, <2>1, ContentsDiffer DEF SetupLoaderMode
  <2>3. GenerateAndSaveInterfaces(c1, r.b) \in Contents \cup {Absent}
    BY <1>f, <2>1, <2>2 DEF GenerateAndSaveInterfaces, InterfaceSource, EmulatorTypeOK
  <2>4. artifacts' \subseteq Kinds \X Dirs
    BY <1>2 DEF ApplyLoader, EmulatorTypeOK, SettingsEverywhere, Kinds, Dirs
  <2> QED BY <1>2, <2>0, <2>1, <2>2, <2>3, <2>4 DEF ApplyLoader, EmulatorTypeOK, AllModes
<1>3. ASSUME NEW stuck \in [Files -> Stuck], Revert(stuck) PROVE EmulatorTypeOK'
  <2>1. \A f \in Files : baks[f] # <<>> => baks[f][Len(baks[f])] \in Contents
    BY <1>f
  <2>2. CleanLoaderArtifacts(content) \in [Files -> Contents \cup {Absent}]
    BY <1>f DEF CleanLoaderArtifacts, EmulatorTypeOK
  <2>3. content' \in [Files -> Contents \cup {Absent}]
    BY <1>3, <1>f, <2>1, <2>2 DEF Revert
  <2>4. baks' \in [Files -> Seq(Contents)] /\ \A f \in Files : Len(baks'[f]) <= MaxBaks
    BY <1>3, <1>f, EmulatorAssumption DEF Revert, EmulatorTypeOK
  <2> QED BY <1>3, <2>3, <2>4 DEF Revert, EmulatorTypeOK, AllModes
<1>4. CASE UpdateGame
  <2>1. Game(game + 1) \in Contents /\ game + 1 \in 1 .. MaxGame
    BY <1>4, EmulatorAssumption DEF UpdateGame, EmulatorTypeOK, Contents
  <2> QED BY <1>4, <1>f, <2>1 DEF UpdateGame, EmulatorTypeOK
<1>5. CASE UpdateGBE
  <2>1. emu + 1 \in 1 .. MaxEmu
    BY <1>5, EmulatorAssumption DEF UpdateGBE, EmulatorTypeOK
  <2> QED BY <1>5, <2>1 DEF UpdateGBE, EmulatorTypeOK
<1> QED BY <1>0, <1>1, <1>2, <1>3, <1>4, <1>5 DEF EmulatorNext

(* Every file keeps a known content and its backups are known contents too, in every regime *)
(* (BackupAndReplace, RestoreOriginalBackup, Revert).                                        *)
THEOREM EmulatorTypes == EmulatorSpec => []EmulatorTypeOK
BY EmulatorTypesInit, EmulatorTypesStep, PTL DEF EmulatorSpec

(* The game is updated only while it is unpatched, a copy that fails leaves nothing half     *)
(* written, and the client library is not the game's own.                                    *)
Careful(r) == ~r.client /\ ~r.patched /\ "torn" \notin r.faults

(* Portable mode only, over and over, whatever is updated and however copies fail; a game    *)
(* that ships the client library is not for Windows, where that is a loader's name.          *)
PortableOnly(r) == r.modes \subseteq {"portable"} /\ (r.client => r.platforms \subseteq {"linux"})

(* Used carefully, the one library is the game's own, or its only backup is.                 *)
CarefulInv ==
  Careful(regime) =>
    \/ baks["lib"] = <<>> /\ content["lib"] = Official
    \/ baks["lib"] = <<Official>> /\ content["lib"] \in {Emu(emu), Absent}

(* The oldest backup of the library, or else the library, is the game's.                     *)
OldestOfGame ==
  IF baks["lib"] = <<>> THEN content["lib"].by = "game" ELSE baks["lib"][1].by = "game"

EmulatorInv ==
  /\ EmulatorTypeOK /\ CarefulInv
  /\ OldestOfGame /\ InterfacesOfGame /\ NeverLost /\ OriginalsRestored

LEMMA EmulatorInvInit == EmulatorInit => EmulatorInv
<1> SUFFICES ASSUME EmulatorInit PROVE EmulatorInv
  OBVIOUS
<1>1. Ships \subseteq Files /\ "lib" \in Ships /\ Files = {"lib", "client"}
  BY DEF Ships, Files
<1> QED BY <1>1, EmulatorTypesInit, ContentsDiffer
        DEF EmulatorInit, EmulatorInv, CarefulInv, OldestOfGame, InterfacesOfGame, NeverLost, OriginalsRestored,
            RevertRestores, LoaderPristine, Official

LEMMA CarefulShips ==
  ASSUME regime \in Regimes, Careful(regime)
  PROVE  Ships = {"lib"} /\ "torn" \notin Outcomes /\ ~regime.patched
BY DEF Careful, Ships, Outcomes, Faults

(* What is in the file or in one of its backups. *)
Held(c, bs, x) == c = x \/ \E i \in 1 .. Len(bs) : bs[i] = x

(* A backup that is there stays, and what a replacement moves away becomes one. *)
LEMMA BackedUpKeeps ==
  ASSUME NEW bs \in Seq(Contents), NEW old \in Contents, NEW outcome \in Outcomes,
         regime \in Regimes, emu \in 1 .. MaxEmu, NEW x,
         Held(old, bs, x)
  PROVE  Held(Replaced(old, outcome), BackedUp(bs, old, outcome), x)
<1>1. CASE outcome = "kept"
  BY <1>1, FaultsKnown DEF BackedUp, Replaced, Held
<1>2. CASE outcome # "kept"
  <2>1. /\ Append(bs, old) \in Seq(Contents) /\ Len(Append(bs, old)) = Len(bs) + 1 /\ Len(bs) \in Nat
        /\ Append(bs, old)[Len(bs) + 1] = old /\ \A i \in 1 .. Len(bs) : Append(bs, old)[i] = bs[i]
    OBVIOUS
  <2>2. \E i \in 1 .. Len(bs) + 1 : Append(bs, old)[i] = x
    <3>1. CASE x = old
      BY <2>1, <3>1
    <3>2. CASE \E i \in 1 .. Len(bs) : bs[i] = x
      BY <2>1, <3>2
    <3> QED BY <3>1, <3>2 DEF Held
  <2> QED BY <1>2, <2>1, <2>2 DEF BackedUp, Held
<1> QED BY <1>1, <1>2

LEMMA EmulatorInvStep ==
  ASSUME \A r \in Regimes : Careful(r) \/ PortableOnly(r),
         EmulatorInv, [EmulatorNext]_emuVars
  PROVE  EmulatorInv'
<1>t. EmulatorTypeOK /\ EmulatorTypeOK' /\ regime \in Regimes /\ emu \in 1 .. MaxEmu
  BY EmulatorTypesStep DEF EmulatorInv, EmulatorTypeOK
<1>f. /\ Files = {"lib", "client"} /\ "lib" \in Ships /\ Ships \subseteq Files
      /\ \A f \in Files : content[f] \in Contents \cup {Absent} /\ baks[f] \in Seq(Contents)
  BY <1>t DEF Files, Ships, EmulatorTypeOK
<1>r. Careful(regime) \/ PortableOnly(regime)
  BY <1>t
<1>0. CASE UNCHANGED emuVars
  BY <1>0, <1>t DEF emuVars, EmulatorInv, CarefulInv, OldestOfGame, InterfacesOfGame, NeverLost, OriginalsRestored,
     RevertRestores, LoaderPristine, Official, Ships
<1>1. ASSUME NEW out \in [Files -> Outcomes], ApplyPortable(out) PROVE EmulatorInv'
  <2>0. UNCHANGED <<regime, platform, game, emu>> /\ op' = "portable" /\ Ships' = Ships /\ Official' = Official
    BY <1>1 DEF ApplyPortable, Ships, Official
  <2>1. /\ CleanLoaderArtifacts(content) \in [Files -> Contents \cup {Absent}]
        /\ CleanLoaderArtifacts(content)["lib"] = content["lib"]
        /\ LeftAlone("client") \/ Exchanged("client", out)
        /\ out["lib"] \in Outcomes /\ out["client"] \in Outcomes
    BY <1>1, <1>t, <1>f, PortableEffect
  <2>2. CarefulInv' /\ OldestOfGame' /\ Held(content'["lib"], baks'["lib"], Official)
    <3>1. CASE content["lib"] \in {Absent, Emu(emu)}
      <4>1. content'["lib"] = content["lib"] /\ baks'["lib"] = baks["lib"]
        BY <1>1, <1>t, <2>1, <3>1, PortableEffect DEF LeftAlone
      <4> QED BY <1>f, <2>0, <4>1 DEF EmulatorInv, CarefulInv, OldestOfGame, Careful, NeverLost, Held
    <3>2. CASE content["lib"] \notin {Absent, Emu(emu)}
      <4>1. /\ content'["lib"] = Replaced(content["lib"], out["lib"])
            /\ baks'["lib"] = BackedUp(baks["lib"], content["lib"], out["lib"]) /\ content["lib"] \in Contents
        BY <1>1, <1>t, <1>f, <2>1, <3>2, PortableEffect DEF Exchanged
      <4>2. Held(content'["lib"], baks'["lib"], Official)
        <5>1. Held(content["lib"], baks["lib"], Official)
          BY <1>f DEF EmulatorInv, NeverLost, Held
        <5> QED BY <1>t, <1>f, <2>1, <4>1, <5>1, BackedUpKeeps
      <4>3. OldestOfGame'
        <5>1. CASE out["lib"] = "kept"
          BY <4>1, <5>1 DEF EmulatorInv, OldestOfGame, Replaced, BackedUp
        <5>2. CASE out["lib"] # "kept"
          <6>1. baks'["lib"] = Append(baks["lib"], content["lib"]) /\ baks'["lib"] # <<>>
            BY <1>f, <4>1, <5>2 DEF BackedUp
          <6>2. baks'["lib"][1] = IF baks["lib"] = <<>> THEN content["lib"] ELSE baks["lib"][1]
            BY <1>f, <6>1
          <6> QED BY <6>1, <6>2 DEF EmulatorInv, OldestOfGame
        <5> QED BY <5>1, <5>2
      <4>4. CarefulInv'
        <5> SUFFICES ASSUME Careful(regime) PROVE CarefulInv'
          BY <2>0 DEF CarefulInv
        <5>1. baks["lib"] = <<>> /\ content["lib"] = Official
          BY <3>2 DEF EmulatorInv, CarefulInv
        <5>2. out["lib"] \in {"copied", "uncreated", "kept"}
          BY <1>t, <2>1, CarefulShips, FaultsKnown
        <5>3. Append(<<>>, Official) = <<Official>>
          OBVIOUS
        <5> QED BY <2>0, <4>1, <5>1, <5>2, <5>3 DEF CarefulInv, Replaced, BackedUp
      <4> QED BY <4>2, <4>3, <4>4
    <3> QED BY <3>1, <3>2
  <2>3. ASSUME "client" \in Ships
        PROVE  Held(content'["client"], baks'["client"], Official)
    <3>1. regime.client /\ platform = "linux"
      BY <1>r, <1>t, <2>3 DEF Ships, Careful, PortableOnly, EmulatorTypeOK
    <3>2. CleanLoaderArtifacts(content) = content
      BY <3>1 DEF CleanLoaderArtifacts, Windows
    <3>3. Held(content["client"], baks["client"], Official)
      BY <2>3 DEF EmulatorInv, NeverLost, Held
    <3>4. CASE LeftAlone("client")
      BY <3>2, <3>3, <3>4 DEF LeftAlone
    <3>5. CASE Exchanged("client", out)
      <4>1. /\ content["client"] \in Contents /\ content'["client"] = Replaced(content["client"], out["client"])
            /\ baks'["client"] = BackedUp(baks["client"], content["client"], out["client"])
        BY <1>f, <3>2, <3>5 DEF Exchanged
      <4> QED BY <1>t, <1>f, <2>1, <3>3, <4>1, BackedUpKeeps
    <3> QED BY <2>1, <3>4, <3>5
  <2>4. NeverLost'
    BY <1>f, <2>0, <2>2, <2>3 DEF NeverLost, Held
  <2>5. InterfacesOfGame'
    <3>1. CASE ifaces' = ifaces
      BY <3>1 DEF EmulatorInv, InterfacesOfGame
    <3>2. CASE content'["lib"] = Emu(emu) /\ ifaces' = GenerateAndSaveInterfaces(content', baks')
      <4>1. baks'["lib"] # <<>> /\ baks'["lib"][1].by = "game"
        BY <2>2, <3>2 DEF OldestOfGame, Emu
      <4> QED BY <3>2, <4>1 DEF GenerateAndSaveInterfaces, InterfaceSource, InterfacesOfGame, EmulatorInv
    <3> QED BY <1>1, <1>t, <3>1, <3>2, PortableEffect
  <2> QED BY <1>t, <2>0, <2>2, <2>4, <2>5 DEF EmulatorInv, OriginalsRestored, RevertRestores, LoaderPristine
<1>2. ASSUME NEW stuck \in Stuck, ApplyLoader(stuck) PROVE EmulatorInv'
  <2>0. UNCHANGED <<regime, platform, game, emu>> /\ op' = "loader" /\ Ships' = Ships /\ Official' = Official
    BY <1>2 DEF ApplyLoader, Ships, Official
  <2>1. Careful(regime) /\ Ships = {"lib"}
    BY <1>2, <1>r, <1>t, CarefulShips DEF ApplyLoader, PortableOnly, Modes
  <2> DEFINE r == IF TargetFound THEN RestoreOriginalBackup(content, baks, stuck) ELSE [c |-> content, b |-> baks]
             c1 == IF TargetFound THEN SetupLoaderMode(r.c) ELSE r.c
  <2>2. content' = c1 /\ baks' = r.b /\ ifaces' = IF TargetFound THEN GenerateAndSaveInterfaces(c1, r.b) ELSE ifaces
    BY <1>2 DEF ApplyLoader
  <2>3. r.c \in [Files -> Contents \cup {Absent}] /\ c1["lib"] = r.c["lib"]
    <3>1. Official \in Contents
      BY <1>t DEF Official, Contents, EmulatorTypeOK
    <3>2. r.c \in [Files -> Contents \cup {Absent}]
      BY <1>t, <1>f, <2>1, <3>1 DEF RestoreOriginalBackup, EmulatorInv, CarefulInv, EmulatorTypeOK
    <3> QED BY <1>f, <3>2 DEF SetupLoaderMode
  <2>4. \/ content'["lib"] = Official /\ baks'["lib"] = <<>>
        \/ content'["lib"] = Absent /\ baks'["lib"] = <<Official>>
    <3>1. CASE baks["lib"] = <<>> /\ content["lib"] = Official
      BY <2>2, <2>3, <3>1 DEF RestoreOriginalBackup
    <3>2. CASE baks["lib"] = <<Official>> /\ content["lib"] \in {Emu(emu), Absent}
      <4>1. CASE ~TargetFound
        BY <2>2, <3>2, <4>1 DEF TargetFound
      <4>2. CASE TargetFound /\ stuck
        BY <1>t, <1>f, <2>2, <2>3, <3>2, <4>2 DEF RestoreOriginalBackup, EmulatorTypeOK
      <4>3. CASE TargetFound /\ ~stuck
        <5>1. Tail(<<Official>>) = <<>> /\ <<Official>>[1] = Official /\ <<Official>> # <<>>
          OBVIOUS
        <5>2. r.c = [content EXCEPT !["lib"] = Official] /\ r.b = [baks EXCEPT !["lib"] = <<>>]
          BY <3>2, <4>3, <5>1 DEF RestoreOriginalBackup
        <5> QED BY <1>t, <1>f, <2>2, <2>3, <5>2 DEF EmulatorTypeOK
      <4> QED BY <4>1, <4>2, <4>3
    <3> QED BY <2>1, <3>1, <3>2 DEF EmulatorInv, CarefulInv
  <2>5. Official' # Absent /\ Official'.by = "game" /\ <<Official>>[1] = Official /\ Len(<<Official>>) = 1 /\ <<Official>> # <<>>
    BY ContentsDiffer DEF Official
  <2>6. CarefulInv' /\ OldestOfGame' /\ NeverLost' /\ OriginalsRestored'
    BY <2>0, <2>1, <2>4, <2>5 DEF CarefulInv, OldestOfGame, NeverLost, OriginalsRestored, RevertRestores, LoaderPristine
  <2>7. InterfacesOfGame'
    <3>1. content'["lib"] = Official \/ baks'["lib"] # <<>>
      BY <2>4, <2>5
    <3>2. InterfaceSource(content', baks') = Official
      BY <2>4, <2>5 DEF InterfaceSource
    <3> QED BY <2>0, <2>2, <2>5, <3>2 DEF GenerateAndSaveInterfaces, InterfacesOfGame, EmulatorInv
  <2> QED BY <1>t, <2>6, <2>7 DEF EmulatorInv
<1>3. ASSUME NEW stuck \in [Files -> Stuck], Revert(stuck) PROVE EmulatorInv'
  <2>0. UNCHANGED <<regime, platform, game, emu>> /\ Ships' = Ships /\ Official' = Official /\ ifaces' = Absent
    BY <1>3 DEF Revert, Ships, Official
  <2>1. Careful(regime) /\ Ships = {"lib"}
    BY <1>3, <1>r, <1>t, CarefulShips DEF Revert, PortableOnly, Modes
  <2>2. CleanLoaderArtifacts(content)["lib"] = content["lib"] /\ stuck["lib"] \in BOOLEAN
    BY <1>t, <1>f, FaultsKnown DEF CleanLoaderArtifacts, EmulatorTypeOK
  <2>3. Len(<<Official>>) = 1 /\ <<Official>>[1] = Official /\ <<Official>> # <<>>
    OBVIOUS
  <2>4. CASE baks["lib"] # <<>> /\ ~stuck["lib"]
    <3>1. content'["lib"] = baks["lib"][Len(baks["lib"])] /\ baks'["lib"] = <<>>
      BY <1>3, <1>f, <2>4 DEF Revert
    <3>2. content'["lib"] = Official
      BY <2>1, <2>3, <2>4, <3>1 DEF EmulatorInv, CarefulInv
    <3> QED BY <1>t, <2>0, <2>1, <3>1, <3>2, ContentsDiffer
         DEF EmulatorInv, CarefulInv, OldestOfGame, InterfacesOfGame, NeverLost, OriginalsRestored, RevertRestores,
             LoaderPristine, Official
  <2>5. CASE baks["lib"] = <<>> \/ stuck["lib"]
    <3>1. content'["lib"] = content["lib"] /\ baks'["lib"] = baks["lib"]
      BY <1>3, <1>f, <2>2, <2>5 DEF Revert
    <3>2. op' \in {"revert", "stuck"} /\ (op' = "revert" => ~stuck["lib"])
      BY <1>3, <1>f DEF Revert
    <3>3. RevertRestores' /\ LoaderPristine'
      BY <2>0, <2>1, <2>5, <3>1, <3>2 DEF EmulatorInv, CarefulInv, RevertRestores, LoaderPristine
    <3> QED BY <1>t, <2>0, <2>1, <3>1, <3>3
         DEF EmulatorInv, CarefulInv, OldestOfGame, InterfacesOfGame, NeverLost, OriginalsRestored
  <2> QED BY <2>2, <2>4, <2>5
<1>4. CASE UpdateGame
  <2>0. /\ UNCHANGED <<regime, platform, baks, ifaces, emu>> /\ op' = "update" /\ Ships' = Ships /\ game' = game + 1
        /\ Official' = Game(game + 1) /\ \A f \in Ships : content'[f] = Official'
    BY <1>4, <1>f DEF UpdateGame, Ships, Official
  <2>1. Careful(regime) => baks["lib"] = <<>>
    BY <1>4, <1>f DEF UpdateGame, Careful, Unpatched
  <2>2. CarefulInv'
    BY <2>0, <2>1, <1>f DEF CarefulInv, Careful
  <2>3. OldestOfGame' /\ InterfacesOfGame' /\ NeverLost' /\ OriginalsRestored'
    BY <2>0, <1>f, ContentsDiffer DEF EmulatorInv, OldestOfGame, InterfacesOfGame, NeverLost, OriginalsRestored,
       RevertRestores, LoaderPristine
  <2> QED BY <1>t, <2>2, <2>3 DEF EmulatorInv
<1>5. CASE UpdateGBE
  <2>0. /\ UNCHANGED <<regime, platform, content, baks, ifaces, game>> /\ op' = "upgrade" /\ Ships' = Ships
        /\ Official' = Official
    BY <1>5 DEF UpdateGBE, Ships, Official
  <2>1. Careful(regime) => baks["lib"] = <<>>
    BY <1>5, <1>f DEF UpdateGBE, Careful, Unpatched
  <2>2. CarefulInv'
    BY <2>0, <2>1 DEF EmulatorInv, CarefulInv, Careful
  <2>3. OldestOfGame' /\ InterfacesOfGame' /\ NeverLost' /\ OriginalsRestored'
    BY <2>0, <1>f DEF EmulatorInv, OldestOfGame, InterfacesOfGame, NeverLost, OriginalsRestored,
       RevertRestores, LoaderPristine
  <2> QED BY <1>t, <2>2, <2>3 DEF EmulatorInv
<1> QED BY <1>0, <1>1, <1>2, <1>3, <1>4, <1>5 DEF EmulatorNext

(* Used carefully, in any order of portable mode, loader mode and reverting, a game that     *)
(* leaves a mode has its own library again (gbe.Revert, RestoreOriginalBackup).              *)
THEOREM LibrariesComeBack ==
  ASSUME \A r \in Regimes : Careful(r) \/ PortableOnly(r)
  PROVE  EmulatorSpec => []OriginalsRestored
<1>1. EmulatorInv /\ [EmulatorNext]_emuVars => EmulatorInv'
  BY EmulatorInvStep
<1>2. EmulatorInv => OriginalsRestored
  BY DEF EmulatorInv
<1> QED BY <1>1, <1>2, EmulatorInvInit, PTL DEF EmulatorSpec

(* The game's own library is never lost, and the emulator is configured from it: used        *)
(* carefully, or in portable mode over and over whatever is updated and however copies fail  *)
(* (BackupAndReplace, GenerateAndSaveInterfaces).                                            *)
THEOREM LibrariesKept ==
  ASSUME \A r \in Regimes : Careful(r) \/ PortableOnly(r)
  PROVE  EmulatorSpec => []OriginalKept
<1>1. EmulatorInv /\ [EmulatorNext]_emuVars => EmulatorInv'
  BY EmulatorInvStep
<1>2. EmulatorInv => OriginalKept
  BY DEF EmulatorInv, OriginalKept
<1> QED BY <1>1, <1>2, EmulatorInvInit, PTL DEF EmulatorSpec
-----------------------------------------------------------------------------
(* Numbers and finite sets *)

LEMMA LeastOf ==
  ASSUME NEW S, S \subseteq Nat, S # {}
  PROVE  \E x \in S : \A y \in S : x <= y
<1>1. PICK x \in S : \A y \in S : ~(<<y, x>> \in OpToRel(<, Nat))
  BY WFMin, NatLessThanWellFounded
<1>2. \A y \in S : ~(y < x)
  BY <1>1 DEF OpToRel
<1> QED BY <1>2

(* A bounded set of numbers has a largest one, which is what Max returns. *)
LEMMA MaxOf ==
  ASSUME NEW S, S \subseteq Nat, S # {}, NEW b \in Nat, \A x \in S : x <= b
  PROVE  Max(S) \in S /\ \A y \in S : y <= Max(S)
<1>1. PICK gap \in {b - x : x \in S} : \A g \in {b - x : x \in S} : gap <= g
  <2>1. \A x \in S : b - x \in Nat
    <3>1. ASSUME NEW x \in S PROVE b - x \in Nat
      <4>1. x \in Nat /\ x <= b
        OBVIOUS
      <4> QED BY <4>1
    <3> QED BY <3>1
  <2>2. {b - x : x \in S} \subseteq Nat /\ {b - x : x \in S} # {}
    BY <2>1
  <2> QED BY <2>2, LeastOf
<1>2. PICK m \in S : gap = b - m
  BY <1>1
<1>3. ASSUME NEW y \in S PROVE m >= y
  <2>1. b - m <= b - y
    BY <1>1, <1>2
  <2>2. m \in Nat /\ y \in Nat
    OBVIOUS
  <2> QED BY <2>1, <2>2
<1>4. \E x \in S : \A y \in S : x >= y
  BY <1>3
<1> DEFINE max == CHOOSE x \in S : \A y \in S : x >= y
<1>5. max \in S /\ \A y \in S : max >= y
  BY <1>4
<1>6. max = Max(S)
  BY DEF Max
<1> HIDE DEF max
<1>7. \A y \in S : y <= max
  BY <1>5
<1> QED BY <1>5, <1>6, <1>7

(* Of a finite set whose members have different ages, the k oldest can be named. *)
LEMMA OldestOf ==
  ASSUME NEW A, IsFiniteSet(A), NEW age \in [A -> Nat], \A t, u \in A : age[t] = age[u] => t = u,
         NEW k \in 0 .. Cardinality(A)
  PROVE  \E v \in SUBSET A : Cardinality(v) = k /\ \A t \in v, u \in A \ v : age[t] < age[u]
<1> DEFINE Bad == {n \in 0 .. Cardinality(A) :
                     ~ \E v \in SUBSET A : Cardinality(v) = n /\ \A t \in v, u \in A \ v : age[t] < age[u]}
<1>0. Cardinality(A) \in Nat
  BY FS_CardinalityType
<1>1. SUFFICES ASSUME Bad # {} PROVE FALSE
  BY <1>1
<1>2. PICK n \in Bad : \A m \in Bad : n <= m
  <2>1. Bad \subseteq Nat
    BY <1>0
  <2> HIDE DEF Bad
  <2> QED BY <1>1, <2>1, LeastOf
<1>3. n # 0
  <2>1. {} \in SUBSET A /\ Cardinality({}) = 0 /\ \A t \in {}, u \in A \ {} : age[t] < age[u]
    BY FS_EmptySet
  <2> QED BY <1>2, <2>1
<1>4. n - 1 \in 0 .. Cardinality(A) /\ n - 1 \notin Bad
  BY <1>0, <1>2, <1>3
<1>5. PICK v \in SUBSET A : Cardinality(v) = n - 1 /\ \A t \in v, u \in A \ v : age[t] < age[u]
  BY <1>4
<1>6. IsFiniteSet(v) /\ A \ v # {}
  <2>1. IsFiniteSet(v)
    BY FS_Subset
  <2>2. v # A
    BY <1>0, <1>2, <1>5
  <2> QED BY <2>1, <2>2
<1>7. PICK least \in {age[u] : u \in A \ v} : \A a \in {age[u] : u \in A \ v} : least <= a
  <2>1. {age[u] : u \in A \ v} \subseteq Nat /\ {age[u] : u \in A \ v} # {}
    BY <1>6
  <2> QED BY <2>1, LeastOf
<1>8. PICK m \in A \ v : age[m] = least
  BY <1>7
<1>9. Cardinality(v \cup {m}) = n
  <2>1. Cardinality(v \cup {m}) = Cardinality(v) + 1
    BY <1>6, <1>8, FS_AddElement
  <2>2. n \in Nat
    BY <1>0, <1>2
  <2> QED BY <1>5, <2>1, <2>2
<1>10. ASSUME NEW t \in v \cup {m}, NEW u \in A \ (v \cup {m}) PROVE age[t] < age[u]
  <2>1. age[m] <= age[u] /\ age[m] # age[u] /\ age[m] \in Nat /\ age[u] \in Nat
    BY <1>7, <1>8, <1>10
  <2>2. CASE t \in v
    BY <1>5, <1>10, <2>2
  <2>3. CASE t = m
    BY <2>1, <2>3
  <2> QED BY <2>2, <2>3
<1>11. v \cup {m} \in SUBSET A
  BY <1>8
<1> QED BY <1>2, <1>9, <1>10, <1>11

-----------------------------------------------------------------------------
(* Save backups *)

Writing == {"adding", "pruning", "removing"}

FileShape ==
  /\ DOMAIN file = FileNos
  /\ \A n \in FileNos :
       file[n] \in [data : {file[n].data}, hash : {file[n].hash}, writers : SUBSET Callers, closed : Nat]

SaveShape ==
  /\ DOMAIN disk = Locations /\ FileShape
  /\ calls \in 0..MaxBackups
  /\ tmp \in [Times -> {0} \cup Times] /\ zip \in [Times -> {0} \cup Times]
  /\ pc \in [Callers -> Writing \cup {"idle", "restoring"}]
  /\ id \in [Callers -> {0} \cup Times] /\ handle \in [Callers -> {0} \cup FileNos]
  /\ DOMAIN todo = Callers
  /\ success \subseteq FileNos

(* Calls that begin in different seconds have a name and a file of their own, named by the number  *)
(* of the call.                                                                                     *)
NameInv ==
  /\ \A t \in Times : tmp[t] \in {0, t} /\ zip[t] \in {0, t}
  /\ \A t \in Times : t > calls => tmp[t] = 0 /\ zip[t] = 0 /\ file[t].writers = {} /\ file[t].closed = 0
  /\ \A c \in Callers : pc[c] \in Writing => id[c] = handle[c] /\ id[c] \in 1..calls
  /\ \A c, d \in Callers : pc[c] \in Writing /\ pc[d] \in Writing /\ id[c] = id[d] => c = d

(* A file that is being written is at its temporary name only, and one writer has it. *)
AddingInv ==
  \A c \in Callers : pc[c] = "adding" =>
    tmp[id[c]] = id[c] /\ zip[id[c]] = 0 /\ file[id[c]].closed = 0 /\ file[id[c]].writers = {c}

(* What has an archive's name, is being restored or was reported is closed. *)
NamedInv == \A t \in Times : zip[t] # 0 => file[t].closed # 0 /\ \E c \in Callers : file[t].writers = {c}
ReadingInv == \A c \in Callers : pc[c] = "restoring" => handle[c] \in 1..calls /\ file[handle[c]].closed # 0
ReportedInv == \A n \in success : file[n].closed # 0

OpenFileInv == AddingInv /\ NamedInv /\ ReadingInv /\ ReportedInv

(* No two archives are of the same age. *)
AgeInv ==
  /\ \E b \in Nat : \A n \in FileNos : file[n].closed <= b
  /\ \A m, n \in FileNos : file[m].closed = file[n].closed /\ file[m].closed # 0 => m = n

Younger(n) == {m \in FileNos : file[m].closed > file[n].closed}
Outlived(n) == Cardinality(Younger(n)) >= Retention

(* An archive that a call is about to remove has enough younger ones, and so has one that is gone. *)
RemovingInv ==
  \A c \in Callers : pc[c] = "removing" => \A t \in todo[c] : t \in FileNos /\ file[t].closed # 0 /\ Outlived(t)
KeptInv == \A n \in success : zip[n] = n \/ Outlived(n)
PruneInv == RemovingInv /\ KeptInv

(* The bytes under a location's name are the ones its hash was taken of. *)
DataInv ==
  \A n \in FileNos : \A l \in DOMAIN file[n].hash :
    l \in Locations /\ l.base \in DOMAIN file[n].data /\ file[n].data[l.base] = file[n].hash[l]

(* What an undisturbed restoring has dealt with is as recorded. *)
RestoreInv ==
  \A c \in Callers : pc[c] = "restoring" /\ c \in intact =>
    \A l \in DOMAIN file[handle[c]].hash \ todo[c] : disk[l] = file[handle[c]].hash[l]

SaveInv == SaveShape /\ NameInv /\ OpenFileInv /\ AgeInv /\ PruneInv

(* What a device and its database say: every location has a name of its own, and all there is of *)
(* the emulator is the directory that its tag stands for.                                         *)
NamesDistinct == \A k, l \in Locations : k.base = l.base => k = l
EmulatorPlace == \A l \in Locations : l.area = "gse" => l.dir = "" /\ l.base = "remote"

LEMMA SaveNumbers ==
  /\ MaxBackups \in Nat /\ Times = 1..MaxBackups /\ FileNos = 1..MaxBackups /\ 0 \notin Times
  /\ IsFiniteSet(FileNos) /\ Retention \in Nat \ {0}
<1>1. MaxBackups \in Nat /\ Retention \in Nat \ {0}
  BY SaveSets
<1>2. IsFiniteSet(1..MaxBackups)
  BY <1>1, FS_Interval
<1> QED BY <1>1, <1>2 DEF Times, FileNos

(* One file changes, and how. *)
Becomes(n, data, hash, writers, closed) ==
  /\ DOMAIN file' = FileNos
  /\ \A m \in FileNos \ {n} : file'[m] = file[m]
  /\ file'[n] \in [data : {data}, hash : {hash}, writers : {writers}, closed : {closed}]

(* Open, when no two calls begin in one second: a name and a file that nobody has used. *)
LEMMA OpenEffect ==
  ASSUME ~SameSecond, SaveShape, NameInv, NEW c \in Callers, Open(c)
  PROVE  LET n == calls + 1
         IN /\ n \in FileNos /\ n \in Times /\ calls' = n /\ pc[c] = "idle"
            /\ id' = [id EXCEPT ![c] = n] /\ handle' = [handle EXCEPT ![c] = n]
            /\ tmp' = [tmp EXCEPT ![n] = n]
            /\ Becomes(n, <<>>, <<>>, {c}, 0)
            /\ pc' = [pc EXCEPT ![c] = "adding"] /\ todo' = [todo EXCEPT ![c] = Found]
            /\ UNCHANGED <<disk, zip, success, intact>>
<1> DEFINE n == calls + 1
<1>1. n \in Nat /\ n \in 1..MaxBackups /\ n > calls /\ calls \in Nat /\ calls' = n
  BY SaveNumbers DEF Open, SaveShape
<1>2. time' = n
  BY <1>1 DEF Open
<1>3. tmp[n] = 0 /\ file[n].writers = {}
  BY <1>1, SaveNumbers DEF NameInv
<1>4. handle' = [handle EXCEPT ![c] = n]
  BY <1>1, <1>2, <1>3 DEF Open
<1>5. handle'[c] = n
  BY <1>4 DEF SaveShape, FileShape
<1>6. tmp' = [tmp EXCEPT ![n] = n]
  BY <1>2, <1>5 DEF Open
<1>7. [Empty EXCEPT !.writers = {c} \cup file[n].writers] \in [data : {<<>>}, hash : {<<>>}, writers : {{c}}, closed : {0}]
  BY <1>3 DEF Empty
<1>8. Becomes(n, <<>>, <<>>, {c}, 0)
  <2>1. file' = [file EXCEPT ![handle'[c]] = [Empty EXCEPT !.writers = {c} \cup file[handle'[c]].writers]]
    BY DEF Open
  <2>2. file' = [file EXCEPT ![n] = [Empty EXCEPT !.writers = {c} \cup file[n].writers]]
    BY <1>5, <2>1
  <2>3. n \in DOMAIN file
    BY <1>1, SaveNumbers DEF SaveShape, FileShape
  <2> HIDE DEF n
  <2> QED BY <1>7, <2>2, <2>3 DEF Becomes, SaveShape, FileShape
<1> QED BY <1>1, <1>2, <1>4, <1>6, <1>8, SaveNumbers DEF Open

(* Add: the bytes and the hash of one location enter the file, or nothing does. *)
LEMMA AddEffect ==
  ASSUME SaveShape, NameInv, NEW c \in Callers, NEW l \in Locations, Add(c, l)
  PROVE  LET n == id[c]
         IN /\ pc[c] = "adding" /\ n = handle[c] /\ n \in FileNos /\ n \in Times
            /\ todo' = [todo EXCEPT ![c] = todo[c] \ {l}]
            /\ \/ UNCHANGED file
               \/ Becomes(n, Put(file[n].data, l.base, disk[l]), Put(file[n].hash, l, disk[l]),
                          file[n].writers, file[n].closed)
            /\ UNCHANGED <<disk, calls, tmp, zip, pc, id, handle, success, intact>>
<1>1. pc[c] = "adding" /\ id[c] = handle[c] /\ id[c] \in FileNos /\ id[c] \in Times
  BY SaveNumbers DEF Add, NameInv, Writing, SaveShape
<1>2. ASSUME file' = [file EXCEPT ![handle[c]].data = Put(@, l.base, disk[l]), ![handle[c]].hash = Put(@, l, disk[l])]
      PROVE  Becomes(id[c], Put(file[id[c]].data, l.base, disk[l]), Put(file[id[c]].hash, l, disk[l]),
                     file[id[c]].writers, file[id[c]].closed)
  <2> DEFINE n == id[c]
             d == Put(file[n].data, l.base, disk[l])
             h == Put(file[n].hash, l, disk[l])
  <2>1. n \in DOMAIN file /\ DOMAIN file = FileNos
        /\ file[n] \in [data : {file[n].data}, hash : {file[n].hash}, writers : {file[n].writers}, closed : {file[n].closed}]
    BY <1>1 DEF SaveShape, FileShape
  <2>2. DOMAIN file' = FileNos /\ \A m \in FileNos \ {n} : file'[m] = file[m]
    BY <1>1, <1>2, <2>1
  <2>3. file'[n] = [[file[n] EXCEPT !.data = d] EXCEPT !.hash = Put([file[n] EXCEPT !.data = d].hash, l, disk[l])]
    BY <1>1, <1>2, <2>1
  <2> HIDE DEF n, d
  <2>4. [file[n] EXCEPT !.data = d] \in [data : {d}, hash : {file[n].hash}, writers : {file[n].writers}, closed : {file[n].closed}]
    BY <2>1
  <2>5. Put([file[n] EXCEPT !.data = d].hash, l, disk[l]) = h
    BY <2>4
  <2>6. file'[n] = [[file[n] EXCEPT !.data = d] EXCEPT !.hash = h]
    BY <2>3, <2>5
  <2> HIDE DEF h
  <2>7. file'[n] \in [data : {d}, hash : {h}, writers : {file[n].writers}, closed : {file[n].closed}]
    BY <2>4, <2>6
  <2>8. Becomes(n, d, h, file[n].writers, file[n].closed)
    BY <2>2, <2>7 DEF Becomes
  <2> QED BY <2>8 DEF n, d, h
<1> QED BY <1>1, <1>2 DEF Add

(* Finalize: the file is closed, younger than all others, and gets its name. *)
LEMMA FinalizeEffect ==
  ASSUME SaveShape, NameInv, OpenFileInv, AgeInv, NEW c \in Callers, Finalize(c)
  PROVE  LET n == id[c]
         IN /\ pc[c] = "adding" /\ n = handle[c] /\ n \in FileNos /\ n \in Times
            /\ \E top \in Nat \ {0} :
                 /\ \A m \in FileNos : file[m].closed < top
                 /\ Becomes(n, file[n].data, file[n].hash, file[n].writers, top)
            /\ zip' = [zip EXCEPT ![n] = n] /\ tmp' = [tmp EXCEPT ![n] = 0]
            /\ pc' = [pc EXCEPT ![c] = "pruning"] /\ success' = success \cup {n}
            /\ UNCHANGED <<disk, calls, id, handle, todo, intact>>
<1> DEFINE ages == {file[m].closed : m \in FileNos}
           top == Max(ages) + 1
<1>1. pc[c] = "adding" /\ id[c] = handle[c] /\ id[c] \in FileNos /\ id[c] \in Times
  BY SaveNumbers DEF Finalize, NameInv, Writing, SaveShape
<1>2. tmp[id[c]] = id[c] /\ id[c] # 0
  BY <1>1, SaveNumbers DEF OpenFileInv, AddingInv
<1>3. PICK b \in Nat : \A a \in ages : a <= b
  BY DEF AgeInv
<1>4. ages \subseteq Nat /\ ages # {}
  BY <1>1 DEF SaveShape, FileShape
<1>5. Max(ages) \in ages /\ \A a \in ages : a <= Max(ages)
  <2> HIDE DEF ages
  <2> QED BY <1>3, <1>4, MaxOf
<1>6. file' = [file EXCEPT ![handle[c]].closed = top]
  BY DEF Finalize
<1> HIDE DEF top
<1>7. Becomes(id[c], file[id[c]].data, file[id[c]].hash, file[id[c]].writers, top)
  BY <1>1, <1>6 DEF SaveShape, FileShape, Becomes
<1>8. top \in Nat \ {0} /\ \A a \in ages : a < top
  <2> HIDE DEF ages
  <2>1. \A a \in ages : a \in Nat
    BY <1>4
  <2>2. Max(ages) \in Nat
    BY <1>5, <2>1
  <2> QED BY <1>5, <2>1, <2>2 DEF top
<1>9. \A m \in FileNos : file[m].closed < top
  BY <1>8
<1> QED BY <1>1, <1>2, <1>7, <1>8, <1>9 DEF Finalize

(* The same, field by field. *)
Writers(n, w, a) ==
  \A m \in FileNos : /\ file'[m].writers = IF m = n THEN w ELSE file[m].writers
                     /\ file'[m].closed = IF m = n THEN a ELSE file[m].closed

LEMMA BecomesFields ==
  ASSUME NEW n \in FileNos, NEW d, NEW h, NEW w, NEW a, Becomes(n, d, h, w, a)
  PROVE  Writers(n, w, a)
<1>1. file'[n] \in [data : {d}, hash : {h}, writers : {w}, closed : {a}]
  BY DEF Becomes
<1>2. file'[n].writers = w /\ file'[n].closed = a
  BY <1>1
<1> QED BY <1>2 DEF Becomes, Writers

LEMMA OpenPlain ==
  ASSUME ~SameSecond, SaveShape, NameInv, NEW c \in Callers, Open(c)
  PROVE  LET n == calls + 1
         IN /\ n \in Times /\ calls' = n /\ pc[c] = "idle"
            /\ id' = [id EXCEPT ![c] = n] /\ handle' = [handle EXCEPT ![c] = n]
            /\ tmp' = [tmp EXCEPT ![n] = n] /\ Writers(n, {c}, 0)
            /\ pc' = [pc EXCEPT ![c] = "adding"] /\ todo' = [todo EXCEPT ![c] = Found]
            /\ UNCHANGED <<disk, zip, success, intact>>
BY OpenEffect, BecomesFields

LEMMA AddPlain ==
  ASSUME SaveShape, NameInv, NEW c \in Callers, NEW l \in Locations, Add(c, l)
  PROVE  /\ pc[c] = "adding" /\ todo' = [todo EXCEPT ![c] = todo[c] \ {l}]
         /\ \A m \in FileNos : file'[m].writers = file[m].writers /\ file'[m].closed = file[m].closed
         /\ UNCHANGED <<disk, calls, tmp, zip, pc, id, handle, success, intact>>
<1>1. CASE UNCHANGED file
  BY <1>1, AddEffect
<1>2. CASE Becomes(id[c], Put(file[id[c]].data, l.base, disk[l]), Put(file[id[c]].hash, l, disk[l]),
                   file[id[c]].writers, file[id[c]].closed)
  <2>1. Writers(id[c], file[id[c]].writers, file[id[c]].closed)
    BY <1>2, AddEffect, BecomesFields
  <2> QED BY <2>1, AddEffect DEF Writers
<1> QED BY <1>1, <1>2, AddEffect

LEMMA FinalizePlain ==
  ASSUME SaveShape, NameInv, OpenFileInv, AgeInv, NEW c \in Callers, Finalize(c)
  PROVE  LET n == id[c]
         IN /\ pc[c] = "adding" /\ n = handle[c] /\ n \in Times
            /\ \E top \in Nat \ {0} : (\A m \in FileNos : file[m].closed < top) /\ Writers(n, file[n].writers, top)
            /\ zip' = [zip EXCEPT ![n] = n] /\ tmp' = [tmp EXCEPT ![n] = 0]
            /\ pc' = [pc EXCEPT ![c] = "pruning"] /\ success' = success \cup {n}
            /\ UNCHANGED <<disk, calls, id, handle, todo, intact>>
BY FinalizeEffect, BecomesFields

(* What is closed is never changed. *)
LEMMA ClosedStays ==
  ASSUME ~SameSecond, SaveInv, [SavesNext]_saveVars
  PROVE  \A n \in FileNos : file[n].closed # 0 => file'[n] = file[n]
<1>i. SaveShape /\ NameInv /\ OpenFileInv /\ AgeInv /\ PruneInv
  BY DEF SaveInv
<1>0. CASE UNCHANGED saveVars
  BY <1>i, <1>0 DEF saveVars, OpenFileInv, AddingInv
<1>1. CASE Load
  BY <1>i, <1>1 DEF Load, OpenFileInv, AddingInv
<1>2. CASE Crash
  BY <1>i, <1>2 DEF Crash, OpenFileInv, AddingInv
<1>3. ASSUME NEW l \in Locations, Play(l) PROVE \A n \in FileNos : file[n].closed # 0 => file'[n] = file[n]
  BY <1>i, <1>3 DEF Play, OpenFileInv, AddingInv
<1>4. ASSUME NEW t \in Times, Delete(t) PROVE \A n \in FileNos : file[n].closed # 0 => file'[n] = file[n]
  BY <1>i, <1>4 DEF Delete, OpenFileInv, AddingInv
<1>5. ASSUME NEW c \in Callers, Open(c) PROVE \A n \in FileNos : file[n].closed # 0 => file'[n] = file[n]
  BY <1>i, <1>5, OpenEffect DEF Becomes, OpenFileInv, AddingInv, NameInv, SaveShape
<1>6. ASSUME NEW c \in Callers, GiveUp(c) PROVE \A n \in FileNos : file[n].closed # 0 => file'[n] = file[n]
  BY <1>i, <1>6 DEF GiveUp, Idle, OpenFileInv, AddingInv
<1>7. ASSUME NEW c \in Callers, Finalize(c) PROVE \A n \in FileNos : file[n].closed # 0 => file'[n] = file[n]
  BY <1>i, <1>7, FinalizeEffect DEF Becomes, OpenFileInv, AddingInv
<1>8. ASSUME NEW c \in Callers, PruneList(c) PROVE \A n \in FileNos : file[n].closed # 0 => file'[n] = file[n]
  BY <1>i, <1>8 DEF PruneList, OpenFileInv, AddingInv
<1>9. ASSUME NEW c \in Callers, PruneRemove(c) PROVE \A n \in FileNos : file[n].closed # 0 => file'[n] = file[n]
  BY <1>i, <1>9 DEF PruneRemove, OpenFileInv, AddingInv
<1>10. ASSUME NEW c \in Callers, Return(c) PROVE \A n \in FileNos : file[n].closed # 0 => file'[n] = file[n]
  BY <1>i, <1>10 DEF Return, Idle, OpenFileInv, AddingInv
<1>11. ASSUME NEW c \in Callers, Restored(c) PROVE \A n \in FileNos : file[n].closed # 0 => file'[n] = file[n]
  BY <1>i, <1>11 DEF Restored, Idle, OpenFileInv, AddingInv
<1>12. ASSUME NEW c \in Callers, NEW l \in Locations, Add(c, l) PROVE \A n \in FileNos : file[n].closed # 0 => file'[n] = file[n]
  BY <1>i, <1>12, AddEffect DEF Becomes, OpenFileInv, AddingInv
<1>13. ASSUME NEW c \in Callers, NEW l \in Locations, Extract(c, l) PROVE \A n \in FileNos : file[n].closed # 0 => file'[n] = file[n]
  BY <1>i, <1>13 DEF Extract, OpenFileInv, AddingInv
<1>14. ASSUME NEW c \in Callers, NEW t \in Times, Restore(c, t) PROVE \A n \in FileNos : file[n].closed # 0 => file'[n] = file[n]
  BY <1>i, <1>14 DEF Restore, Readable, OpenFileInv, AddingInv
<1> QED BY <1>0, <1>1, <1>2, <1>3, <1>4, <1>5, <1>6, <1>7, <1>8, <1>9, <1>10, <1>11, <1>12, <1>13, <1>14 DEF SavesNext

(* A file that becomes another keeps the shape of files. *)
LEMMA ShapeBecomes ==
  ASSUME FileShape, NEW n \in FileNos, NEW d, NEW h, NEW w \in SUBSET Callers, NEW a \in Nat, Becomes(n, d, h, w, a)
  PROVE  FileShape'
<1>1. ASSUME NEW m \in FileNos
      PROVE  file'[m] \in [data : {file'[m].data}, hash : {file'[m].hash}, writers : SUBSET Callers, closed : Nat]
  <2>1. CASE m # n
    BY <2>1 DEF Becomes, FileShape
  <2>2. CASE m = n
    <3>1. file'[n] \in [data : {d}, hash : {h}, writers : {w}, closed : {a}]
      BY DEF Becomes
    <3>2. file'[n].data = d /\ file'[n].hash = h /\ file'[n].writers = w /\ file'[n].closed = a
      BY <3>1
    <3> QED BY <2>2, <3>1, <3>2
  <2> QED BY <2>1, <2>2
<1> QED BY <1>1 DEF FileShape, Becomes

LEMMA FileShapeStep ==
  ASSUME ~SameSecond, SaveInv, [SavesNext]_saveVars
  PROVE  FileShape'
<1>i. SaveShape /\ NameInv /\ OpenFileInv /\ AgeInv /\ PruneInv
  BY DEF SaveInv
<1>0. CASE UNCHANGED saveVars
  BY <1>i, <1>0, SaveNumbers DEF saveVars, FileShape, SaveShape
<1>1. CASE Load
  BY <1>i, <1>1, SaveNumbers DEF Load, FileShape, SaveShape
<1>2. CASE Crash
  BY <1>i, <1>2, SaveNumbers DEF Crash, FileShape, SaveShape
<1>3. ASSUME NEW l \in Locations, Play(l) PROVE FileShape'
  BY <1>i, <1>3, SaveNumbers DEF Play, FileShape, SaveShape
<1>4. ASSUME NEW t \in Times, Delete(t) PROVE FileShape'
  BY <1>i, <1>4, SaveNumbers DEF Delete, FileShape, SaveShape
<1>5. ASSUME NEW c \in Callers, Open(c) PROVE FileShape'
  <2>1. calls + 1 \in FileNos /\ Becomes(calls + 1, <<>>, <<>>, {c}, 0)
    BY <1>i, <1>5, OpenEffect
  <2>2. FileShape
    BY <1>i DEF SaveShape
  <2> QED BY <2>1, <2>2, ShapeBecomes, SaveNumbers
<1>6. ASSUME NEW c \in Callers, GiveUp(c) PROVE FileShape'
  BY <1>i, <1>6, SaveNumbers DEF GiveUp, Idle, FileShape, SaveShape
<1>7. ASSUME NEW c \in Callers, Finalize(c) PROVE FileShape'
  <2>1. PICK top \in Nat \ {0} : Becomes(id[c], file[id[c]].data, file[id[c]].hash, file[id[c]].writers, top)
    BY <1>i, <1>7, FinalizeEffect
  <2>2. id[c] \in FileNos /\ FileShape
    BY <1>i, <1>7, FinalizeEffect DEF SaveShape
  <2>3. file[id[c]].writers \in SUBSET Callers
    BY <2>2 DEF FileShape
  <2> QED BY <2>1, <2>2, <2>3, ShapeBecomes
<1>8. ASSUME NEW c \in Callers, PruneList(c) PROVE FileShape'
  BY <1>i, <1>8, SaveNumbers DEF PruneList, FileShape, SaveShape
<1>9. ASSUME NEW c \in Callers, PruneRemove(c) PROVE FileShape'
  BY <1>i, <1>9, SaveNumbers DEF PruneRemove, FileShape, SaveShape
<1>10. ASSUME NEW c \in Callers, Return(c) PROVE FileShape'
  BY <1>i, <1>10, SaveNumbers DEF Return, Idle, FileShape, SaveShape
<1>11. ASSUME NEW c \in Callers, Restored(c) PROVE FileShape'
  BY <1>i, <1>11, SaveNumbers DEF Restored, Idle, FileShape, SaveShape
<1>12. ASSUME NEW c \in Callers, NEW l \in Locations, Add(c, l) PROVE FileShape'
  <2>1. id[c] \in FileNos /\ FileShape
    BY <1>i, <1>12, AddEffect DEF SaveShape
  <2>2. file[id[c]].writers \in SUBSET Callers /\ file[id[c]].closed \in Nat
    BY <2>1 DEF FileShape
  <2>3. CASE UNCHANGED file
    BY <2>1, <2>3 DEF FileShape
  <2>4. CASE Becomes(id[c], Put(file[id[c]].data, l.base, disk[l]), Put(file[id[c]].hash, l, disk[l]),
                     file[id[c]].writers, file[id[c]].closed)
    BY <2>1, <2>2, <2>4, ShapeBecomes
  <2> QED BY <1>i, <1>12, <2>3, <2>4, AddEffect
<1>13. ASSUME NEW c \in Callers, NEW l \in Locations, Extract(c, l) PROVE FileShape'
  BY <1>i, <1>13, SaveNumbers DEF Extract, FileShape, SaveShape
<1>14. ASSUME NEW c \in Callers, NEW t \in Times, Restore(c, t) PROVE FileShape'
  BY <1>i, <1>14, SaveNumbers DEF Restore, Readable, FileShape, SaveShape
<1> QED BY <1>0, <1>1, <1>2, <1>3, <1>4, <1>5, <1>6, <1>7, <1>8, <1>9, <1>10, <1>11, <1>12, <1>13, <1>14 DEF SavesNext

LEMMA ShapeStep ==
  ASSUME ~SameSecond, SaveInv, [SavesNext]_saveVars
  PROVE  SaveShape'
<1>i. SaveShape /\ NameInv /\ OpenFileInv /\ AgeInv /\ PruneInv
  BY DEF SaveInv
<1>0. CASE UNCHANGED saveVars
  BY <1>i, <1>0, SaveNumbers, FileShapeStep DEF saveVars, SaveShape
<1>1. CASE Load
  BY <1>i, <1>1, SaveNumbers, FileShapeStep DEF Load, SaveShape
<1>2. CASE Crash
  BY <1>i, <1>2, SaveNumbers, FileShapeStep DEF Crash, SaveShape
<1>3. ASSUME NEW l \in Locations, Play(l) PROVE SaveShape'
  BY <1>i, <1>3, SaveNumbers, FileShapeStep DEF Play, SaveShape
<1>4. ASSUME NEW t \in Times, Delete(t) PROVE SaveShape'
  BY <1>i, <1>4, SaveNumbers, FileShapeStep DEF Delete, SaveShape
<1>5. ASSUME NEW c \in Callers, Open(c) PROVE SaveShape'
  <2>1. calls + 1 \in Times /\ FileNos = Times /\ calls' = calls + 1
        /\ id' = [id EXCEPT ![c] = calls + 1] /\ handle' = [handle EXCEPT ![c] = calls + 1]
        /\ tmp' = [tmp EXCEPT ![calls + 1] = calls + 1] /\ pc' = [pc EXCEPT ![c] = "adding"]
        /\ todo' = [todo EXCEPT ![c] = Found] /\ UNCHANGED <<disk, zip, success>>
    BY <1>i, <1>5, OpenEffect DEF Times, FileNos
  <2>2. FileShape' /\ calls' \in 0..MaxBackups
    BY <2>1, FileShapeStep, SaveNumbers
  <2> QED BY <1>i, <2>1, <2>2 DEF SaveShape, Writing
<1>6. ASSUME NEW c \in Callers, GiveUp(c) PROVE SaveShape'
  BY <1>i, <1>6, SaveNumbers, FileShapeStep DEF GiveUp, Idle, SaveShape
<1>7. ASSUME NEW c \in Callers, Finalize(c) PROVE SaveShape'
  <2>1. id[c] \in Times /\ FileNos = Times
        /\ zip' = [zip EXCEPT ![id[c]] = id[c]] /\ tmp' = [tmp EXCEPT ![id[c]] = 0]
        /\ pc' = [pc EXCEPT ![c] = "pruning"] /\ success' = success \cup {id[c]}
        /\ UNCHANGED <<disk, calls, id, handle, todo>>
    BY <1>i, <1>7, FinalizeEffect DEF Times, FileNos
  <2>2. FileShape'
    BY FileShapeStep
  <2> QED BY <1>i, <2>1, <2>2 DEF SaveShape, Writing
<1>8. ASSUME NEW c \in Callers, PruneList(c) PROVE SaveShape'
  BY <1>i, <1>8, SaveNumbers, FileShapeStep DEF PruneList, SaveShape, Writing
<1>9. ASSUME NEW c \in Callers, PruneRemove(c) PROVE SaveShape'
  BY <1>i, <1>9, SaveNumbers, FileShapeStep DEF PruneRemove, SaveShape
<1>10. ASSUME NEW c \in Callers, Return(c) PROVE SaveShape'
  BY <1>i, <1>10, SaveNumbers, FileShapeStep DEF Return, Idle, SaveShape
<1>11. ASSUME NEW c \in Callers, Restored(c) PROVE SaveShape'
  BY <1>i, <1>11, SaveNumbers, FileShapeStep DEF Restored, Idle, SaveShape
<1>12. ASSUME NEW c \in Callers, NEW l \in Locations, Add(c, l) PROVE SaveShape'
  BY <1>i, <1>12, AddEffect, SaveNumbers, FileShapeStep DEF Becomes, SaveShape
<1>13. ASSUME NEW c \in Callers, NEW l \in Locations, Extract(c, l) PROVE SaveShape'
  BY <1>i, <1>13, SaveNumbers, FileShapeStep DEF Extract, SaveShape
<1>14. ASSUME NEW c \in Callers, NEW t \in Times, Restore(c, t) PROVE SaveShape'
  BY <1>i, <1>14, SaveNumbers, FileShapeStep DEF Restore, Readable, SaveShape
<1> QED BY <1>0, <1>1, <1>2, <1>3, <1>4, <1>5, <1>6, <1>7, <1>8, <1>9, <1>10, <1>11, <1>12, <1>13, <1>14 DEF SavesNext

LEMMA NameStep ==
  ASSUME ~SameSecond, SaveInv, [SavesNext]_saveVars
  PROVE  NameInv'
<1>i. SaveShape /\ NameInv /\ OpenFileInv /\ AgeInv /\ PruneInv
  BY DEF SaveInv
<1>0. CASE UNCHANGED saveVars
  BY <1>i, <1>0, SaveNumbers, ShapeStep DEF saveVars, NameInv, SaveShape, Writing
<1>1. CASE Load
  BY <1>i, <1>1, SaveNumbers, ShapeStep DEF Load, NameInv, SaveShape, Writing
<1>2. CASE Crash
  BY <1>i, <1>2, SaveNumbers, ShapeStep DEF Crash, NameInv, SaveShape, Writing
<1>3. ASSUME NEW l \in Locations, Play(l) PROVE NameInv'
  BY <1>i, <1>3, SaveNumbers, ShapeStep DEF Play, NameInv, SaveShape, Writing
<1>4. ASSUME NEW t \in Times, Delete(t) PROVE NameInv'
  BY <1>i, <1>4, SaveNumbers, ShapeStep DEF Delete, NameInv, SaveShape, Writing
<1>5. ASSUME NEW c \in Callers, Open(c) PROVE NameInv'
  <2>1. PICK n \in Times : n = calls + 1 /\ calls' = n /\ pc[c] = "idle"
            /\ id' = [id EXCEPT ![c] = n] /\ handle' = [handle EXCEPT ![c] = n]
            /\ tmp' = [tmp EXCEPT ![n] = n] /\ Writers(n, {c}, 0)
            /\ pc' = [pc EXCEPT ![c] = "adding"] /\ todo' = [todo EXCEPT ![c] = Found]
            /\ UNCHANGED <<disk, zip, success, intact>>
    BY <1>i, <1>5, OpenPlain
  <2> QED BY <1>i, <2>1, SaveNumbers, ShapeStep DEF Writers, NameInv, SaveShape, Writing
<1>6. ASSUME NEW c \in Callers, GiveUp(c) PROVE NameInv'
  BY <1>i, <1>6, SaveNumbers, ShapeStep DEF GiveUp, Idle, NameInv, SaveShape, Writing
<1>7. ASSUME NEW c \in Callers, Finalize(c) PROVE NameInv'
  <2>1. PICK n \in Times, top \in Nat \ {0} :
            /\ n = id[c] /\ pc[c] = "adding" /\ n = handle[c]
            /\ (\A m \in FileNos : file[m].closed < top) /\ Writers(n, file[n].writers, top)
            /\ zip' = [zip EXCEPT ![n] = n] /\ tmp' = [tmp EXCEPT ![n] = 0]
            /\ pc' = [pc EXCEPT ![c] = "pruning"] /\ success' = success \cup {n}
            /\ UNCHANGED <<disk, calls, id, handle, todo, intact>>
    BY <1>i, <1>7, FinalizePlain
  <2> QED BY <1>i, <2>1, SaveNumbers, ShapeStep DEF Writers, NameInv, SaveShape, Writing
<1>8. ASSUME NEW c \in Callers, PruneList(c) PROVE NameInv'
  BY <1>i, <1>8, SaveNumbers, ShapeStep DEF PruneList, NameInv, SaveShape, Writing
<1>9. ASSUME NEW c \in Callers, PruneRemove(c) PROVE NameInv'
  BY <1>i, <1>9, SaveNumbers, ShapeStep DEF PruneRemove, NameInv, SaveShape, Writing
<1>10. ASSUME NEW c \in Callers, Return(c) PROVE NameInv'
  BY <1>i, <1>10, SaveNumbers, ShapeStep DEF Return, Idle, NameInv, SaveShape, Writing
<1>11. ASSUME NEW c \in Callers, Restored(c) PROVE NameInv'
  BY <1>i, <1>11, SaveNumbers, ShapeStep DEF Restored, Idle, NameInv, SaveShape, Writing
<1>12. ASSUME NEW c \in Callers, NEW l \in Locations, Add(c, l) PROVE NameInv'
  <2>1. /\ pc[c] = "adding" /\ todo' = [todo EXCEPT ![c] = todo[c] \ {l}]
        /\ \A m \in FileNos : file'[m].writers = file[m].writers /\ file'[m].closed = file[m].closed
        /\ UNCHANGED <<disk, calls, tmp, zip, pc, id, handle, success, intact>>
    BY <1>i, <1>12, AddPlain
  <2> QED BY <1>i, <2>1, SaveNumbers, ShapeStep DEF Writers, NameInv, SaveShape, Writing
<1>13. ASSUME NEW c \in Callers, NEW l \in Locations, Extract(c, l) PROVE NameInv'
  BY <1>i, <1>13, SaveNumbers, ShapeStep DEF Extract, NameInv, SaveShape, Writing
<1>14. ASSUME NEW c \in Callers, NEW t \in Times, Restore(c, t) PROVE NameInv'
  BY <1>i, <1>14, SaveNumbers, ShapeStep DEF Restore, Readable, NameInv, SaveShape, Writing
<1> QED BY <1>0, <1>1, <1>2, <1>3, <1>4, <1>5, <1>6, <1>7, <1>8, <1>9, <1>10, <1>11, <1>12, <1>13, <1>14 DEF SavesNext

LEMMA AddingStep ==
  ASSUME ~SameSecond, SaveInv, [SavesNext]_saveVars
  PROVE  AddingInv'
<1>i. SaveShape /\ NameInv /\ OpenFileInv /\ AgeInv /\ PruneInv
  BY DEF SaveInv
<1>0. CASE UNCHANGED saveVars
  BY <1>i, <1>0, SaveNumbers, ShapeStep DEF saveVars, AddingInv, OpenFileInv, NameInv, SaveShape, Writing
<1>1. CASE Load
  BY <1>i, <1>1, SaveNumbers, ShapeStep DEF Load, AddingInv, OpenFileInv, NameInv, SaveShape, Writing
<1>2. CASE Crash
  BY <1>i, <1>2, SaveNumbers, ShapeStep DEF Crash, AddingInv, OpenFileInv, NameInv, SaveShape, Writing
<1>3. ASSUME NEW l \in Locations, Play(l) PROVE AddingInv'
  BY <1>i, <1>3, SaveNumbers, ShapeStep DEF Play, AddingInv, OpenFileInv, NameInv, SaveShape, Writing
<1>4. ASSUME NEW t \in Times, Delete(t) PROVE AddingInv'
  BY <1>i, <1>4, SaveNumbers, ShapeStep DEF Delete, AddingInv, OpenFileInv, NameInv, SaveShape, Writing
<1>5. ASSUME NEW c \in Callers, Open(c) PROVE AddingInv'
  <2>1. PICK n \in Times : n = calls + 1 /\ calls' = n /\ pc[c] = "idle"
            /\ id' = [id EXCEPT ![c] = n] /\ handle' = [handle EXCEPT ![c] = n]
            /\ tmp' = [tmp EXCEPT ![n] = n] /\ Writers(n, {c}, 0)
            /\ pc' = [pc EXCEPT ![c] = "adding"] /\ todo' = [todo EXCEPT ![c] = Found]
            /\ UNCHANGED <<disk, zip, success, intact>>
    BY <1>i, <1>5, OpenPlain
  <2> QED BY <1>i, <2>1, SaveNumbers, ShapeStep DEF Writers, AddingInv, OpenFileInv, NameInv, SaveShape, Writing
<1>6. ASSUME NEW c \in Callers, GiveUp(c) PROVE AddingInv'
  BY <1>i, <1>6, SaveNumbers, ShapeStep DEF GiveUp, Idle, AddingInv, OpenFileInv, NameInv, SaveShape, Writing
<1>7. ASSUME NEW c \in Callers, Finalize(c) PROVE AddingInv'
  <2>1. PICK n \in Times, top \in Nat \ {0} :
            /\ n = id[c] /\ pc[c] = "adding" /\ n = handle[c]
            /\ (\A m \in FileNos : file[m].closed < top) /\ Writers(n, file[n].writers, top)
            /\ zip' = [zip EXCEPT ![n] = n] /\ tmp' = [tmp EXCEPT ![n] = 0]
            /\ pc' = [pc EXCEPT ![c] = "pruning"] /\ success' = success \cup {n}
            /\ UNCHANGED <<disk, calls, id, handle, todo, intact>>
    BY <1>i, <1>7, FinalizePlain
  <2> QED BY <1>i, <2>1, SaveNumbers, ShapeStep DEF Writers, AddingInv, OpenFileInv, NameInv, SaveShape, Writing
<1>8. ASSUME NEW c \in Callers, PruneList(c) PROVE AddingInv'
  BY <1>i, <1>8, SaveNumbers, ShapeStep DEF PruneList, AddingInv, OpenFileInv, NameInv, SaveShape, Writing
<1>9. ASSUME NEW c \in Callers, PruneRemove(c) PROVE AddingInv'
  BY <1>i, <1>9, SaveNumbers, ShapeStep DEF PruneRemove, AddingInv, OpenFileInv, NameInv, SaveShape, Writing
<1>10. ASSUME NEW c \in Callers, Return(c) PROVE AddingInv'
  BY <1>i, <1>10, SaveNumbers, ShapeStep DEF Return, Idle, AddingInv, OpenFileInv, NameInv, SaveShape, Writing
<1>11. ASSUME NEW c \in Callers, Restored(c) PROVE AddingInv'
  BY <1>i, <1>11, SaveNumbers, ShapeStep DEF Restored, Idle, AddingInv, OpenFileInv, NameInv, SaveShape, Writing
<1>12. ASSUME NEW c \in Callers, NEW l \in Locations, Add(c, l) PROVE AddingInv'
  <2>1. /\ pc[c] = "adding" /\ todo' = [todo EXCEPT ![c] = todo[c] \ {l}]
        /\ \A m \in FileNos : file'[m].writers = file[m].writers /\ file'[m].closed = file[m].closed
        /\ UNCHANGED <<disk, calls, tmp, zip, pc, id, handle, success, intact>>
    BY <1>i, <1>12, AddPlain
  <2> QED BY <1>i, <2>1, SaveNumbers, ShapeStep DEF Writers, AddingInv, OpenFileInv, NameInv, SaveShape, Writing
<1>13. ASSUME NEW c \in Callers, NEW l \in Locations, Extract(c, l) PROVE AddingInv'
  BY <1>i, <1>13, SaveNumbers, ShapeStep DEF Extract, AddingInv, OpenFileInv, NameInv, SaveShape, Writing
<1>14. ASSUME NEW c \in Callers, NEW t \in Times, Restore(c, t) PROVE AddingInv'
  BY <1>i, <1>14, SaveNumbers, ShapeStep DEF Restore, Readable, AddingInv, OpenFileInv, NameInv, SaveShape, Writing
<1> QED BY <1>0, <1>1, <1>2, <1>3, <1>4, <1>5, <1>6, <1>7, <1>8, <1>9, <1>10, <1>11, <1>12, <1>13, <1>14 DEF SavesNext

LEMMA NamedStep ==
  ASSUME ~SameSecond, SaveInv, [SavesNext]_saveVars
  PROVE  NamedInv'
<1>i. SaveShape /\ NameInv /\ OpenFileInv /\ AgeInv /\ PruneInv
  BY DEF SaveInv
<1>0. CASE UNCHANGED saveVars
  BY <1>i, <1>0, SaveNumbers, ShapeStep DEF saveVars, NamedInv, OpenFileInv, NameInv, SaveShape, Writing
<1>1. CASE Load
  BY <1>i, <1>1, SaveNumbers, ShapeStep DEF Load, NamedInv, OpenFileInv, NameInv, SaveShape, Writing
<1>2. CASE Crash
  BY <1>i, <1>2, SaveNumbers, ShapeStep DEF Crash, NamedInv, OpenFileInv, NameInv, SaveShape, Writing
<1>3. ASSUME NEW l \in Locations, Play(l) PROVE NamedInv'
  BY <1>i, <1>3, SaveNumbers, ShapeStep DEF Play, NamedInv, OpenFileInv, NameInv, SaveShape, Writing
<1>4. ASSUME NEW t \in Times, Delete(t) PROVE NamedInv'
  BY <1>i, <1>4, SaveNumbers, ShapeStep DEF Delete, NamedInv, OpenFileInv, NameInv, SaveShape, Writing
<1>5. ASSUME NEW c \in Callers, Open(c) PROVE NamedInv'
  <2>1. PICK n \in Times : n = calls + 1 /\ calls' = n /\ pc[c] = "idle"
            /\ id' = [id EXCEPT ![c] = n] /\ handle' = [handle EXCEPT ![c] = n]
            /\ tmp' = [tmp EXCEPT ![n] = n] /\ Writers(n, {c}, 0)
            /\ pc' = [pc EXCEPT ![c] = "adding"] /\ todo' = [todo EXCEPT ![c] = Found]
            /\ UNCHANGED <<disk, zip, success, intact>>
    BY <1>i, <1>5, OpenPlain
  <2>2. ASSUME NEW t \in Times, zip'[t] # 0 PROVE file'[t].closed # 0 /\ \E d \in Callers : file'[t].writers = {d}
    <3>1. zip[t] # 0 /\ t # n /\ t \in FileNos
      BY <1>i, <2>1, <2>2, SaveNumbers DEF NameInv, SaveShape
    <3>2. file[t].closed # 0 /\ \E d \in Callers : file[t].writers = {d}
      BY <1>i, <3>1 DEF OpenFileInv, NamedInv
    <3> QED BY <2>1, <3>1, <3>2 DEF Writers
  <2> QED BY <2>2 DEF NamedInv
<1>6. ASSUME NEW c \in Callers, GiveUp(c) PROVE NamedInv'
  BY <1>i, <1>6, SaveNumbers, ShapeStep DEF GiveUp, Idle, NamedInv, OpenFileInv, NameInv, SaveShape, Writing
<1>7. ASSUME NEW c \in Callers, Finalize(c) PROVE NamedInv'
  <2>1. PICK n \in Times, top \in Nat \ {0} :
            /\ n = id[c] /\ pc[c] = "adding" /\ n = handle[c]
            /\ (\A m \in FileNos : file[m].closed < top) /\ Writers(n, file[n].writers, top)
            /\ zip' = [zip EXCEPT ![n] = n] /\ tmp' = [tmp EXCEPT ![n] = 0]
            /\ pc' = [pc EXCEPT ![c] = "pruning"] /\ success' = success \cup {n}
            /\ UNCHANGED <<disk, calls, id, handle, todo, intact>>
    BY <1>i, <1>7, FinalizePlain
  <2>2. ASSUME NEW t \in Times, zip'[t] # 0 PROVE file'[t].closed # 0 /\ \E d \in Callers : file'[t].writers = {d}
    <3>0. t \in FileNos
      BY SaveNumbers
    <3>1. CASE t = n
      <4>1. file[t].writers = {c}
        BY <1>i, <2>1, <3>1 DEF OpenFileInv, AddingInv
      <4> QED BY <2>1, <3>0, <3>1, <4>1 DEF Writers
    <3>2. CASE t # n
      <4>1. zip[t] # 0
        BY <1>i, <2>1, <2>2, <3>2 DEF SaveShape
      <4>2. file[t].closed # 0 /\ \E d \in Callers : file[t].writers = {d}
        BY <1>i, <4>1 DEF OpenFileInv, NamedInv
      <4> QED BY <2>1, <3>0, <3>2, <4>2 DEF Writers
    <3> QED BY <3>1, <3>2
  <2> QED BY <2>2 DEF NamedInv
<1>8. ASSUME NEW c \in Callers, PruneList(c) PROVE NamedInv'
  BY <1>i, <1>8, SaveNumbers, ShapeStep DEF PruneList, NamedInv, OpenFileInv, NameInv, SaveShape, Writing
<1>9. ASSUME NEW c \in Callers, PruneRemove(c) PROVE NamedInv'
  BY <1>i, <1>9, SaveNumbers, ShapeStep DEF PruneRemove, NamedInv, OpenFileInv, NameInv, SaveShape, Writing
<1>10. ASSUME NEW c \in Callers, Return(c) PROVE NamedInv'
  BY <1>i, <1>10, SaveNumbers, ShapeStep DEF Return, Idle, NamedInv, OpenFileInv, NameInv, SaveShape, Writing
<1>11. ASSUME NEW c \in Callers, Restored(c) PROVE NamedInv'
  BY <1>i, <1>11, SaveNumbers, ShapeStep DEF Restored, Idle, NamedInv, OpenFileInv, NameInv, SaveShape, Writing
<1>12. ASSUME NEW c \in Callers, NEW l \in Locations, Add(c, l) PROVE NamedInv'
  <2>1. /\ pc[c] = "adding" /\ todo' = [todo EXCEPT ![c] = todo[c] \ {l}]
        /\ \A m \in FileNos : file'[m].writers = file[m].writers /\ file'[m].closed = file[m].closed
        /\ UNCHANGED <<disk, calls, tmp, zip, pc, id, handle, success, intact>>
    BY <1>i, <1>12, AddPlain
  <2> QED BY <1>i, <2>1, SaveNumbers, ShapeStep DEF Writers, NamedInv, OpenFileInv, NameInv, SaveShape, Writing
<1>13. ASSUME NEW c \in Callers, NEW l \in Locations, Extract(c, l) PROVE NamedInv'
  BY <1>i, <1>13, SaveNumbers, ShapeStep DEF Extract, NamedInv, OpenFileInv, NameInv, SaveShape, Writing
<1>14. ASSUME NEW c \in Callers, NEW t \in Times, Restore(c, t) PROVE NamedInv'
  BY <1>i, <1>14 DEF Restore, NamedInv, OpenFileInv
<1> QED BY <1>0, <1>1, <1>2, <1>3, <1>4, <1>5, <1>6, <1>7, <1>8, <1>9, <1>10, <1>11, <1>12, <1>13, <1>14 DEF SavesNext

LEMMA ReadingStep ==
  ASSUME ~SameSecond, SaveInv, [SavesNext]_saveVars
  PROVE  ReadingInv'
<1>i. SaveShape /\ NameInv /\ OpenFileInv /\ AgeInv /\ PruneInv
  BY DEF SaveInv
<1>0. CASE UNCHANGED saveVars
  BY <1>i, <1>0, SaveNumbers, ShapeStep DEF saveVars, ReadingInv, OpenFileInv, NameInv, SaveShape, Writing
<1>1. CASE Load
  BY <1>i, <1>1, SaveNumbers, ShapeStep DEF Load, ReadingInv, OpenFileInv, NameInv, SaveShape, Writing
<1>2. CASE Crash
  BY <1>i, <1>2, SaveNumbers, ShapeStep DEF Crash, ReadingInv, OpenFileInv, NameInv, SaveShape, Writing
<1>3. ASSUME NEW l \in Locations, Play(l) PROVE ReadingInv'
  BY <1>i, <1>3, SaveNumbers, ShapeStep DEF Play, ReadingInv, OpenFileInv, NameInv, SaveShape, Writing
<1>4. ASSUME NEW t \in Times, Delete(t) PROVE ReadingInv'
  BY <1>i, <1>4, SaveNumbers, ShapeStep DEF Delete, ReadingInv, OpenFileInv, NameInv, SaveShape, Writing
<1>5. ASSUME NEW c \in Callers, Open(c) PROVE ReadingInv'
  <2>1. PICK n \in Times : n = calls + 1 /\ calls' = n /\ pc[c] = "idle"
            /\ id' = [id EXCEPT ![c] = n] /\ handle' = [handle EXCEPT ![c] = n]
            /\ tmp' = [tmp EXCEPT ![n] = n] /\ Writers(n, {c}, 0)
            /\ pc' = [pc EXCEPT ![c] = "adding"] /\ todo' = [todo EXCEPT ![c] = Found]
            /\ UNCHANGED <<disk, zip, success, intact>>
    BY <1>i, <1>5, OpenPlain
  <2> QED BY <1>i, <2>1, SaveNumbers, ShapeStep DEF Writers, ReadingInv, OpenFileInv, NameInv, SaveShape, Writing
<1>6. ASSUME NEW c \in Callers, GiveUp(c) PROVE ReadingInv'
  BY <1>i, <1>6, SaveNumbers, ShapeStep DEF GiveUp, Idle, ReadingInv, OpenFileInv, NameInv, SaveShape, Writing
<1>7. ASSUME NEW c \in Callers, Finalize(c) PROVE ReadingInv'
  <2>1. PICK n \in Times, top \in Nat \ {0} :
            /\ n = id[c] /\ pc[c] = "adding" /\ n = handle[c]
            /\ (\A m \in FileNos : file[m].closed < top) /\ Writers(n, file[n].writers, top)
            /\ zip' = [zip EXCEPT ![n] = n] /\ tmp' = [tmp EXCEPT ![n] = 0]
            /\ pc' = [pc EXCEPT ![c] = "pruning"] /\ success' = success \cup {n}
            /\ UNCHANGED <<disk, calls, id, handle, todo, intact>>
    BY <1>i, <1>7, FinalizePlain
  <2>2. ASSUME NEW d \in Callers, pc'[d] = "restoring" PROVE handle'[d] \in 1..calls' /\ file'[handle'[d]].closed # 0
    <3>1. pc[d] = "restoring"
      BY <1>i, <2>1, <2>2 DEF SaveShape
    <3>2. handle[d] \in 1..calls /\ file[handle[d]].closed # 0 /\ handle[d] \in FileNos
      BY <1>i, <3>1, SaveNumbers DEF OpenFileInv, ReadingInv, SaveShape
    <3> QED BY <2>1, <3>2 DEF Writers
  <2> QED BY <2>2 DEF ReadingInv
<1>8. ASSUME NEW c \in Callers, PruneList(c) PROVE ReadingInv'
  BY <1>i, <1>8, SaveNumbers, ShapeStep DEF PruneList, ReadingInv, OpenFileInv, NameInv, SaveShape, Writing
<1>9. ASSUME NEW c \in Callers, PruneRemove(c) PROVE ReadingInv'
  BY <1>i, <1>9, SaveNumbers, ShapeStep DEF PruneRemove, ReadingInv, OpenFileInv, NameInv, SaveShape, Writing
<1>10. ASSUME NEW c \in Callers, Return(c) PROVE ReadingInv'
  BY <1>i, <1>10, SaveNumbers, ShapeStep DEF Return, Idle, ReadingInv, OpenFileInv, NameInv, SaveShape, Writing
<1>11. ASSUME NEW c \in Callers, Restored(c) PROVE ReadingInv'
  BY <1>i, <1>11, SaveNumbers, ShapeStep DEF Restored, Idle, ReadingInv, OpenFileInv, NameInv, SaveShape, Writing
<1>12. ASSUME NEW c \in Callers, NEW l \in Locations, Add(c, l) PROVE ReadingInv'
  <2>1. /\ pc[c] = "adding" /\ todo' = [todo EXCEPT ![c] = todo[c] \ {l}]
        /\ \A m \in FileNos : file'[m].writers = file[m].writers /\ file'[m].closed = file[m].closed
        /\ UNCHANGED <<disk, calls, tmp, zip, pc, id, handle, success, intact>>
    BY <1>i, <1>12, AddPlain
  <2> QED BY <1>i, <2>1, SaveNumbers, ShapeStep DEF Writers, ReadingInv, OpenFileInv, NameInv, SaveShape, Writing
<1>13. ASSUME NEW c \in Callers, NEW l \in Locations, Extract(c, l) PROVE ReadingInv'
  BY <1>i, <1>13, SaveNumbers, ShapeStep DEF Extract, ReadingInv, OpenFileInv, NameInv, SaveShape, Writing
<1>14. ASSUME NEW c \in Callers, NEW t \in Times, Restore(c, t) PROVE ReadingInv'
  BY <1>i, <1>14, SaveNumbers, ShapeStep DEF Restore, Readable, ReadingInv, OpenFileInv, NameInv, SaveShape, Writing
<1> QED BY <1>0, <1>1, <1>2, <1>3, <1>4, <1>5, <1>6, <1>7, <1>8, <1>9, <1>10, <1>11, <1>12, <1>13, <1>14 DEF SavesNext

LEMMA ReportedStep ==
  ASSUME ~SameSecond, SaveInv, [SavesNext]_saveVars
  PROVE  ReportedInv'
<1>i. SaveShape /\ NameInv /\ OpenFileInv /\ AgeInv /\ PruneInv
  BY DEF SaveInv
<1>0. CASE UNCHANGED saveVars
  BY <1>i, <1>0, SaveNumbers, ShapeStep DEF saveVars, ReportedInv, OpenFileInv, NameInv, SaveShape, Writing
<1>1. CASE Load
  BY <1>i, <1>1, SaveNumbers, ShapeStep DEF Load, ReportedInv, OpenFileInv, NameInv, SaveShape, Writing
<1>2. CASE Crash
  BY <1>i, <1>2, SaveNumbers, ShapeStep DEF Crash, ReportedInv, OpenFileInv, NameInv, SaveShape, Writing
<1>3. ASSUME NEW l \in Locations, Play(l) PROVE ReportedInv'
  BY <1>i, <1>3, SaveNumbers, ShapeStep DEF Play, ReportedInv, OpenFileInv, NameInv, SaveShape, Writing
<1>4. ASSUME NEW t \in Times, Delete(t) PROVE ReportedInv'
  BY <1>i, <1>4, SaveNumbers, ShapeStep DEF Delete, ReportedInv, OpenFileInv, NameInv, SaveShape, Writing
<1>5. ASSUME NEW c \in Callers, Open(c) PROVE ReportedInv'
  <2>1. PICK n \in Times : n = calls + 1 /\ calls' = n /\ pc[c] = "idle"
            /\ id' = [id EXCEPT ![c] = n] /\ handle' = [handle EXCEPT ![c] = n]
            /\ tmp' = [tmp EXCEPT ![n] = n] /\ Writers(n, {c}, 0)
            /\ pc' = [pc EXCEPT ![c] = "adding"] /\ todo' = [todo EXCEPT ![c] = Found]
            /\ UNCHANGED <<disk, zip, success, intact>>
    BY <1>i, <1>5, OpenPlain
  <2> QED BY <1>i, <2>1, SaveNumbers, ShapeStep DEF Writers, ReportedInv, OpenFileInv, NameInv, SaveShape, Writing
<1>6. ASSUME NEW c \in Callers, GiveUp(c) PROVE ReportedInv'
  BY <1>i, <1>6, SaveNumbers, ShapeStep DEF GiveUp, Idle, ReportedInv, OpenFileInv, NameInv, SaveShape, Writing
<1>7. ASSUME NEW c \in Callers, Finalize(c) PROVE ReportedInv'
  <2>1. PICK n \in Times, top \in Nat \ {0} :
            /\ n = id[c] /\ pc[c] = "adding" /\ n = handle[c]
            /\ (\A m \in FileNos : file[m].closed < top) /\ Writers(n, file[n].writers, top)
            /\ zip' = [zip EXCEPT ![n] = n] /\ tmp' = [tmp EXCEPT ![n] = 0]
            /\ pc' = [pc EXCEPT ![c] = "pruning"] /\ success' = success \cup {n}
            /\ UNCHANGED <<disk, calls, id, handle, todo, intact>>
    BY <1>i, <1>7, FinalizePlain
  <2> QED BY <1>i, <2>1, SaveNumbers, ShapeStep DEF Writers, ReportedInv, OpenFileInv, NameInv, SaveShape, Writing
<1>8. ASSUME NEW c \in Callers, PruneList(c) PROVE ReportedInv'
  BY <1>i, <1>8, SaveNumbers, ShapeStep DEF PruneList, ReportedInv, OpenFileInv, NameInv, SaveShape, Writing
<1>9. ASSUME NEW c \in Callers, PruneRemove(c) PROVE ReportedInv'
  BY <1>i, <1>9, SaveNumbers, ShapeStep DEF PruneRemove, ReportedInv, OpenFileInv, NameInv, SaveShape, Writing
<1>10. ASSUME NEW c \in Callers, Return(c) PROVE ReportedInv'
  BY <1>i, <1>10, SaveNumbers, ShapeStep DEF Return, Idle, ReportedInv, OpenFileInv, NameInv, SaveShape, Writing
<1>11. ASSUME NEW c \in Callers, Restored(c) PROVE ReportedInv'
  BY <1>i, <1>11, SaveNumbers, ShapeStep DEF Restored, Idle, ReportedInv, OpenFileInv, NameInv, SaveShape, Writing
<1>12. ASSUME NEW c \in Callers, NEW l \in Locations, Add(c, l) PROVE ReportedInv'
  <2>1. /\ pc[c] = "adding" /\ todo' = [todo EXCEPT ![c] = todo[c] \ {l}]
        /\ \A m \in FileNos : file'[m].writers = file[m].writers /\ file'[m].closed = file[m].closed
        /\ UNCHANGED <<disk, calls, tmp, zip, pc, id, handle, success, intact>>
    BY <1>i, <1>12, AddPlain
  <2> QED BY <1>i, <2>1, SaveNumbers, ShapeStep DEF Writers, ReportedInv, OpenFileInv, NameInv, SaveShape, Writing
<1>13. ASSUME NEW c \in Callers, NEW l \in Locations, Extract(c, l) PROVE ReportedInv'
  BY <1>i, <1>13, SaveNumbers, ShapeStep DEF Extract, ReportedInv, OpenFileInv, NameInv, SaveShape, Writing
<1>14. ASSUME NEW c \in Callers, NEW t \in Times, Restore(c, t) PROVE ReportedInv'
  BY <1>i, <1>14, SaveNumbers, ShapeStep DEF Restore, Readable, ReportedInv, OpenFileInv, NameInv, SaveShape, Writing
<1> QED BY <1>0, <1>1, <1>2, <1>3, <1>4, <1>5, <1>6, <1>7, <1>8, <1>9, <1>10, <1>11, <1>12, <1>13, <1>14 DEF SavesNext

LEMMA AgeStep ==
  ASSUME ~SameSecond, SaveInv, [SavesNext]_saveVars
  PROVE  AgeInv'
<1>i. SaveShape /\ NameInv /\ OpenFileInv /\ AgeInv /\ PruneInv
  BY DEF SaveInv
<1>0. CASE UNCHANGED saveVars
  BY <1>i, <1>0, SaveNumbers, ShapeStep DEF saveVars, AgeInv, SaveShape, FileShape
<1>1. CASE Load
  BY <1>i, <1>1, SaveNumbers, ShapeStep DEF Load, AgeInv, SaveShape, FileShape
<1>2. CASE Crash
  BY <1>i, <1>2, SaveNumbers, ShapeStep DEF Crash, AgeInv, SaveShape, FileShape
<1>3. ASSUME NEW l \in Locations, Play(l) PROVE AgeInv'
  BY <1>i, <1>3, SaveNumbers, ShapeStep DEF Play, AgeInv, SaveShape, FileShape
<1>4. ASSUME NEW t \in Times, Delete(t) PROVE AgeInv'
  BY <1>i, <1>4, SaveNumbers, ShapeStep DEF Delete, AgeInv, SaveShape, FileShape
<1>5. ASSUME NEW c \in Callers, Open(c) PROVE AgeInv'
  <2>1. PICK n \in Times : n = calls + 1 /\ calls' = n /\ pc[c] = "idle"
            /\ id' = [id EXCEPT ![c] = n] /\ handle' = [handle EXCEPT ![c] = n]
            /\ tmp' = [tmp EXCEPT ![n] = n] /\ Writers(n, {c}, 0)
            /\ pc' = [pc EXCEPT ![c] = "adding"] /\ todo' = [todo EXCEPT ![c] = Found]
            /\ UNCHANGED <<disk, zip, success, intact>>
    BY <1>i, <1>5, OpenPlain
  <2>2. n \in FileNos /\ file[n].closed = 0 /\ \A m \in FileNos : file[m].closed \in Nat
    BY <1>i, <2>1, SaveNumbers DEF NameInv, SaveShape, FileShape
  <2>3. \A m \in FileNos : file'[m].closed = file[m].closed
    BY <2>1, <2>2 DEF Writers
  <2> QED BY <1>i, <2>3 DEF AgeInv
<1>6. ASSUME NEW c \in Callers, GiveUp(c) PROVE AgeInv'
  BY <1>i, <1>6, SaveNumbers, ShapeStep DEF GiveUp, Idle, AgeInv, SaveShape, FileShape
<1>7. ASSUME NEW c \in Callers, Finalize(c) PROVE AgeInv'
  <2>1. PICK n \in Times, top \in Nat \ {0} :
            /\ n = id[c] /\ pc[c] = "adding" /\ n = handle[c]
            /\ (\A m \in FileNos : file[m].closed < top) /\ Writers(n, file[n].writers, top)
            /\ zip' = [zip EXCEPT ![n] = n] /\ tmp' = [tmp EXCEPT ![n] = 0]
            /\ pc' = [pc EXCEPT ![c] = "pruning"] /\ success' = success \cup {n}
            /\ UNCHANGED <<disk, calls, id, handle, todo, intact>>
    BY <1>i, <1>7, FinalizePlain
  <2>2. n \in FileNos /\ \A m \in FileNos : file[m].closed \in Nat
    BY <1>i, <2>1, SaveNumbers DEF SaveShape, FileShape
  <2>3. \A m \in FileNos : file'[m].closed = IF m = n THEN top ELSE file[m].closed
    BY <2>1 DEF Writers
  <2>4. \A m \in FileNos : file'[m].closed <= top
    BY <2>1, <2>2, <2>3
  <2>5. \A l, m \in FileNos : file'[l].closed = file'[m].closed /\ file'[l].closed # 0 => l = m
    BY <1>i, <2>1, <2>2, <2>3 DEF AgeInv
  <2> QED BY <2>4, <2>5 DEF AgeInv
<1>8. ASSUME NEW c \in Callers, PruneList(c) PROVE AgeInv'
  BY <1>i, <1>8, SaveNumbers, ShapeStep DEF PruneList, AgeInv, SaveShape, FileShape
<1>9. ASSUME NEW c \in Callers, PruneRemove(c) PROVE AgeInv'
  BY <1>i, <1>9, SaveNumbers, ShapeStep DEF PruneRemove, AgeInv, SaveShape, FileShape
<1>10. ASSUME NEW c \in Callers, Return(c) PROVE AgeInv'
  BY <1>i, <1>10, SaveNumbers, ShapeStep DEF Return, Idle, AgeInv, SaveShape, FileShape
<1>11. ASSUME NEW c \in Callers, Restored(c) PROVE AgeInv'
  BY <1>i, <1>11, SaveNumbers, ShapeStep DEF Restored, Idle, AgeInv, SaveShape, FileShape
<1>12. ASSUME NEW c \in Callers, NEW l \in Locations, Add(c, l) PROVE AgeInv'
  <2>1. /\ pc[c] = "adding" /\ todo' = [todo EXCEPT ![c] = todo[c] \ {l}]
        /\ \A m \in FileNos : file'[m].writers = file[m].writers /\ file'[m].closed = file[m].closed
        /\ UNCHANGED <<disk, calls, tmp, zip, pc, id, handle, success, intact>>
    BY <1>i, <1>12, AddPlain
  <2> QED BY <1>i, <2>1, SaveNumbers, ShapeStep DEF Writers, AgeInv, SaveShape, FileShape
<1>13. ASSUME NEW c \in Callers, NEW l \in Locations, Extract(c, l) PROVE AgeInv'
  BY <1>i, <1>13, SaveNumbers, ShapeStep DEF Extract, AgeInv, SaveShape, FileShape
<1>14. ASSUME NEW c \in Callers, NEW t \in Times, Restore(c, t) PROVE AgeInv'
  BY <1>i, <1>14, SaveNumbers, ShapeStep DEF Restore, Readable, AgeInv, SaveShape, FileShape
<1> QED BY <1>0, <1>1, <1>2, <1>3, <1>4, <1>5, <1>6, <1>7, <1>8, <1>9, <1>10, <1>11, <1>12, <1>13, <1>14 DEF SavesNext

(* Nothing makes an archive younger again. *)
LEMMA OutlivedStays ==
  ASSUME ~SameSecond, SaveInv, [SavesNext]_saveVars, NEW n \in FileNos, file[n].closed # 0, Outlived(n)
  PROVE  Outlived(n)'
<1>1. \A m \in FileNos : file[m].closed \in Nat
  BY DEF SaveInv, SaveShape, FileShape
<1>2. \A m \in FileNos : file[m].closed # 0 => file'[m] = file[m]
  BY ClosedStays
<1>3. Younger(n) \subseteq Younger(n)'
  BY <1>1, <1>2 DEF Younger
<1>4. IsFiniteSet(Younger(n)')
  BY SaveNumbers, FS_Subset DEF Younger
<1>5. Cardinality(Younger(n)) <= Cardinality(Younger(n)') /\ Cardinality(Younger(n)) \in Nat /\ Cardinality(Younger(n)') \in Nat
  BY <1>3, <1>4, FS_Subset, FS_CardinalityType
<1> QED BY <1>5, SaveNumbers DEF Outlived

(* What PruneList chooses has enough younger ones. *)
LEMMA VictimsOutlived ==
  ASSUME SaveInv
  PROVE  \A t \in Victims : t \in FileNos /\ file[t].closed # 0 /\ Outlived(t)
<1> DEFINE age == [t \in Archives |-> file[t].closed]
<1>1. /\ SaveShape /\ NamedInv /\ AgeInv
      /\ \A t \in Archives : t \in FileNos /\ zip[t] = t /\ file[t].closed # 0 /\ file[t].closed \in Nat
  BY SaveNumbers DEF SaveInv, SaveShape, FileShape, NameInv, OpenFileInv, NamedInv, Archives
<1>2. IsFiniteSet(Archives) /\ Cardinality(Archives) \in Nat
  BY SaveNumbers, FS_Subset, FS_CardinalityType DEF Archives
<1>3. Excess \in 0..Cardinality(Archives)
  BY <1>2, SaveNumbers DEF Excess
<1>4. age \in [Archives -> Nat] /\ \A t, u \in Archives : age[t] = age[u] => t = u
  BY <1>1 DEF AgeInv
<1>5. \E v \in SUBSET Archives : Cardinality(v) = Excess /\ \A t \in v, u \in Archives \ v : age[t] < age[u]
  <2> HIDE DEF age
  <2> QED BY <1>2, <1>3, <1>4, OldestOf
<1>6. \E v \in SUBSET Archives : Cardinality(v) = Excess /\ \A t \in v, u \in Archives \ v : Before(t, u)
  <2>1. \A t, u \in Archives : age[t] < age[u] <=> Before(t, u)
    BY <1>1 DEF Before
  <2> HIDE DEF age
  <2> QED BY <1>5, <2>1
<1>7. Victims \in SUBSET Archives /\ Cardinality(Victims) = Excess
      /\ \A t \in Victims, u \in Archives \ Victims : Before(t, u)
  BY <1>6 DEF Victims
<1>8. ASSUME NEW t \in Victims PROVE Outlived(t)
  <2>1. t \in Archives /\ Excess # 0
    BY <1>7, <1>8, <1>2, FS_Subset, FS_EmptySet
  <2>2. Cardinality(Archives \ Victims) = Retention
    <3>1. Cardinality(Archives \ Victims) = Cardinality(Archives) - Cardinality(Victims)
      <4>1. Archives \cap Victims = Victims
        BY <1>7
      <4> QED BY <1>2, <4>1, FS_Difference
    <3> QED BY <1>2, <1>7, <2>1, <3>1, SaveNumbers DEF Excess
  <2>3. Archives \ Victims \subseteq Younger(t)
    BY <1>1, <1>7, <1>8, <2>1 DEF Younger, Before
  <2>4. IsFiniteSet(Younger(t))
    BY SaveNumbers, FS_Subset DEF Younger
  <2> QED BY <2>2, <2>3, <2>4, SaveNumbers, FS_Subset, FS_CardinalityType DEF Outlived
<1> QED BY <1>1, <1>7, <1>8

LEMMA RemovingStep ==
  ASSUME ~SameSecond, SaveInv, [SavesNext]_saveVars
  PROVE  RemovingInv'
<1>i. SaveShape /\ NameInv /\ OpenFileInv /\ AgeInv /\ PruneInv
  BY DEF SaveInv
<1>s. \A n \in FileNos : file[n].closed # 0 => file'[n] = file[n] /\ (Outlived(n) => Outlived(n)')
  BY ClosedStays, OutlivedStays
<1>0. CASE UNCHANGED saveVars
  BY <1>i, <1>0, <1>s DEF saveVars, RemovingInv, PruneInv, SaveShape, Writing
<1>1. CASE Load
  BY <1>i, <1>1, <1>s DEF Load, RemovingInv, PruneInv, SaveShape, Writing
<1>2. CASE Crash
  BY <1>i, <1>2, <1>s DEF Crash, RemovingInv, PruneInv, SaveShape, Writing
<1>3. ASSUME NEW l \in Locations, Play(l) PROVE RemovingInv'
  BY <1>i, <1>3, <1>s DEF Play, RemovingInv, PruneInv, SaveShape, Writing
<1>4. ASSUME NEW t \in Times, Delete(t) PROVE RemovingInv'
  BY <1>i, <1>4, <1>s DEF Delete, RemovingInv, PruneInv, SaveShape, Writing
<1>5. ASSUME NEW c \in Callers, Open(c) PROVE RemovingInv'
  <2>1. PICK n \in Times : n = calls + 1 /\ calls' = n /\ pc[c] = "idle"
            /\ id' = [id EXCEPT ![c] = n] /\ handle' = [handle EXCEPT ![c] = n]
            /\ tmp' = [tmp EXCEPT ![n] = n] /\ Writers(n, {c}, 0)
            /\ pc' = [pc EXCEPT ![c] = "adding"] /\ todo' = [todo EXCEPT ![c] = Found]
            /\ UNCHANGED <<disk, zip, success, intact>>
    BY <1>i, <1>5, OpenPlain
  <2> QED BY <1>i, <2>1, <1>s DEF Writers, RemovingInv, PruneInv, SaveShape, Writing
<1>6. ASSUME NEW c \in Callers, GiveUp(c) PROVE RemovingInv'
  BY <1>i, <1>6, <1>s DEF GiveUp, Idle, RemovingInv, PruneInv, SaveShape, Writing
<1>7. ASSUME NEW c \in Callers, Finalize(c) PROVE RemovingInv'
  <2>1. PICK n \in Times, top \in Nat \ {0} :
            /\ n = id[c] /\ pc[c] = "adding" /\ n = handle[c]
            /\ (\A m \in FileNos : file[m].closed < top) /\ Writers(n, file[n].writers, top)
            /\ zip' = [zip EXCEPT ![n] = n] /\ tmp' = [tmp EXCEPT ![n] = 0]
            /\ pc' = [pc EXCEPT ![c] = "pruning"] /\ success' = success \cup {n}
            /\ UNCHANGED <<disk, calls, id, handle, todo, intact>>
    BY <1>i, <1>7, FinalizePlain
  <2> QED BY <1>i, <2>1, <1>s DEF Writers, RemovingInv, PruneInv, SaveShape, Writing
<1>8. ASSUME NEW c \in Callers, PruneList(c) PROVE RemovingInv'
  <2>1. \A t \in Victims : t \in FileNos /\ file[t].closed # 0 /\ Outlived(t)
    BY VictimsOutlived
  <2>2. \A t \in Victims : t \in FileNos /\ file'[t].closed # 0 /\ Outlived(t)'
    BY <1>s, <2>1
  <2>3. todo' = [todo EXCEPT ![c] = Victims] /\ pc' = [pc EXCEPT ![c] = "removing"]
    BY <1>8 DEF PruneList
  <2> HIDE DEF Victims
  <2> QED BY <1>i, <1>s, <2>2, <2>3 DEF RemovingInv, PruneInv, SaveShape
<1>9. ASSUME NEW c \in Callers, PruneRemove(c) PROVE RemovingInv'
  BY <1>i, <1>9, <1>s DEF PruneRemove, RemovingInv, PruneInv, SaveShape, Writing
<1>10. ASSUME NEW c \in Callers, Return(c) PROVE RemovingInv'
  BY <1>i, <1>10, <1>s DEF Return, Idle, RemovingInv, PruneInv, SaveShape, Writing
<1>11. ASSUME NEW c \in Callers, Restored(c) PROVE RemovingInv'
  BY <1>i, <1>11, <1>s DEF Restored, Idle, RemovingInv, PruneInv, SaveShape, Writing
<1>12. ASSUME NEW c \in Callers, NEW l \in Locations, Add(c, l) PROVE RemovingInv'
  <2>1. /\ pc[c] = "adding" /\ todo' = [todo EXCEPT ![c] = todo[c] \ {l}]
        /\ \A m \in FileNos : file'[m].writers = file[m].writers /\ file'[m].closed = file[m].closed
        /\ UNCHANGED <<disk, calls, tmp, zip, pc, id, handle, success, intact>>
    BY <1>i, <1>12, AddPlain
  <2> QED BY <1>i, <2>1, <1>s DEF Writers, RemovingInv, PruneInv, SaveShape, Writing
<1>13. ASSUME NEW c \in Callers, NEW l \in Locations, Extract(c, l) PROVE RemovingInv'
  BY <1>i, <1>13, <1>s DEF Extract, RemovingInv, PruneInv, SaveShape, Writing
<1>14. ASSUME NEW c \in Callers, NEW t \in Times, Restore(c, t) PROVE RemovingInv'
  BY <1>i, <1>14, <1>s DEF Restore, Readable, RemovingInv, PruneInv, SaveShape, Writing
<1> QED BY <1>0, <1>1, <1>2, <1>3, <1>4, <1>5, <1>6, <1>7, <1>8, <1>9, <1>10, <1>11, <1>12, <1>13, <1>14 DEF SavesNext

LEMMA KeptStep ==
  ASSUME ~SameSecond, SaveInv, [SavesNext]_saveVars
  PROVE  KeptInv'
<1>i. SaveShape /\ NameInv /\ OpenFileInv /\ AgeInv /\ PruneInv
  BY DEF SaveInv
<1>s. \A n \in FileNos : file[n].closed # 0 => file'[n] = file[n] /\ (Outlived(n) => Outlived(n)')
  BY ClosedStays, OutlivedStays
<1>0. CASE UNCHANGED saveVars
  BY <1>i, <1>0, <1>s, SaveNumbers DEF saveVars, KeptInv, PruneInv, OpenFileInv, ReportedInv, NameInv, SaveShape, Writing
<1>1. CASE Load
  BY <1>i, <1>1, <1>s, SaveNumbers DEF Load, KeptInv, PruneInv, OpenFileInv, ReportedInv, NameInv, SaveShape, Writing
<1>2. CASE Crash
  BY <1>i, <1>2, <1>s, SaveNumbers DEF Crash, KeptInv, PruneInv, OpenFileInv, ReportedInv, NameInv, SaveShape, Writing
<1>3. ASSUME NEW l \in Locations, Play(l) PROVE KeptInv'
  BY <1>i, <1>3, <1>s, SaveNumbers DEF Play, KeptInv, PruneInv, OpenFileInv, ReportedInv, NameInv, SaveShape, Writing
<1>4. ASSUME NEW t \in Times, Delete(t) PROVE KeptInv'
  BY <1>i, <1>4, <1>s, SaveNumbers DEF Delete, KeptInv, PruneInv, OpenFileInv, ReportedInv, NameInv, SaveShape, Writing
<1>5. ASSUME NEW c \in Callers, Open(c) PROVE KeptInv'
  <2>1. PICK n \in Times : n = calls + 1 /\ calls' = n /\ pc[c] = "idle"
            /\ id' = [id EXCEPT ![c] = n] /\ handle' = [handle EXCEPT ![c] = n]
            /\ tmp' = [tmp EXCEPT ![n] = n] /\ Writers(n, {c}, 0)
            /\ pc' = [pc EXCEPT ![c] = "adding"] /\ todo' = [todo EXCEPT ![c] = Found]
            /\ UNCHANGED <<disk, zip, success, intact>>
    BY <1>i, <1>5, OpenPlain
  <2> QED BY <1>i, <2>1, <1>s, SaveNumbers DEF Writers, KeptInv, PruneInv, OpenFileInv, ReportedInv, NameInv, SaveShape, Writing
<1>6. ASSUME NEW c \in Callers, GiveUp(c) PROVE KeptInv'
  BY <1>i, <1>6, <1>s, SaveNumbers DEF GiveUp, Idle, KeptInv, PruneInv, OpenFileInv, ReportedInv, NameInv, SaveShape, Writing
<1>7. ASSUME NEW c \in Callers, Finalize(c) PROVE KeptInv'
  <2>1. PICK n \in Times, top \in Nat \ {0} :
            /\ n = id[c] /\ pc[c] = "adding" /\ n = handle[c]
            /\ (\A m \in FileNos : file[m].closed < top) /\ Writers(n, file[n].writers, top)
            /\ zip' = [zip EXCEPT ![n] = n] /\ tmp' = [tmp EXCEPT ![n] = 0]
            /\ pc' = [pc EXCEPT ![c] = "pruning"] /\ success' = success \cup {n}
            /\ UNCHANGED <<disk, calls, id, handle, todo, intact>>
    BY <1>i, <1>7, FinalizePlain
  <2> QED BY <1>i, <2>1, <1>s, SaveNumbers DEF Writers, KeptInv, PruneInv, OpenFileInv, ReportedInv, NameInv, SaveShape, Writing
<1>8. ASSUME NEW c \in Callers, PruneList(c) PROVE KeptInv'
  BY <1>i, <1>8, <1>s, SaveNumbers DEF PruneList, KeptInv, PruneInv, OpenFileInv, ReportedInv, NameInv, SaveShape, Writing
<1>9. ASSUME NEW c \in Callers, PruneRemove(c) PROVE KeptInv'
  BY <1>i, <1>9, <1>s, SaveNumbers DEF PruneRemove, KeptInv, PruneInv, OpenFileInv, ReportedInv, NameInv, SaveShape, Writing, RemovingInv
<1>10. ASSUME NEW c \in Callers, Return(c) PROVE KeptInv'
  BY <1>i, <1>10, <1>s, SaveNumbers DEF Return, Idle, KeptInv, PruneInv, OpenFileInv, ReportedInv, NameInv, SaveShape, Writing
<1>11. ASSUME NEW c \in Callers, Restored(c) PROVE KeptInv'
  BY <1>i, <1>11, <1>s, SaveNumbers DEF Restored, Idle, KeptInv, PruneInv, OpenFileInv, ReportedInv, NameInv, SaveShape, Writing
<1>12. ASSUME NEW c \in Callers, NEW l \in Locations, Add(c, l) PROVE KeptInv'
  <2>1. /\ pc[c] = "adding" /\ todo' = [todo EXCEPT ![c] = todo[c] \ {l}]
        /\ \A m \in FileNos : file'[m].writers = file[m].writers /\ file'[m].closed = file[m].closed
        /\ UNCHANGED <<disk, calls, tmp, zip, pc, id, handle, success, intact>>
    BY <1>i, <1>12, AddPlain
  <2> QED BY <1>i, <2>1, <1>s, SaveNumbers DEF Writers, KeptInv, PruneInv, OpenFileInv, ReportedInv, NameInv, SaveShape, Writing
<1>13. ASSUME NEW c \in Callers, NEW l \in Locations, Extract(c, l) PROVE KeptInv'
  BY <1>i, <1>13, <1>s, SaveNumbers DEF Extract, KeptInv, PruneInv, OpenFileInv, ReportedInv, NameInv, SaveShape, Writing
<1>14. ASSUME NEW c \in Callers, NEW t \in Times, Restore(c, t) PROVE KeptInv'
  BY <1>i, <1>14, <1>s, SaveNumbers DEF Restore, Readable, KeptInv, PruneInv, OpenFileInv, ReportedInv, NameInv, SaveShape, Writing
<1> QED BY <1>0, <1>1, <1>2, <1>3, <1>4, <1>5, <1>6, <1>7, <1>8, <1>9, <1>10, <1>11, <1>12, <1>13, <1>14 DEF SavesNext

LEMMA SaveInitial == SavesInit => SaveInv
<1> SUFFICES ASSUME SavesInit PROVE SaveInv
  OBVIOUS
<1>1. \A n \in FileNos : file[n] = Empty
  BY DEF SavesInit
<1>2. FileShape
  BY <1>1 DEF FileShape, Empty, SavesInit
<1>3. SaveShape /\ NameInv
  BY <1>1, <1>2, SaveNumbers DEF SaveShape, NameInv, SavesInit, Empty, Writing
<1>4. OpenFileInv /\ PruneInv
  BY <1>1 DEF OpenFileInv, AddingInv, NamedInv, ReadingInv, ReportedInv, PruneInv, RemovingInv, KeptInv, SavesInit
<1>5. AgeInv
  BY <1>1 DEF AgeInv, Empty
<1> QED BY <1>3, <1>4, <1>5 DEF SaveInv

LEMMA SaveStep ==
  ASSUME ~SameSecond, SaveInv, [SavesNext]_saveVars PROVE SaveInv'
BY ShapeStep, NameStep, AddingStep, NamedStep, ReadingStep, ReportedStep, AgeStep, RemovingStep, KeptStep
   DEF SaveInv, OpenFileInv, PruneInv

LEMMA SaveInvHolds == ASSUME ~SameSecond PROVE SavesSpec => []SaveInv
BY SaveInitial, SaveStep, PTL DEF SavesSpec

LEMMA DataStep ==
  ASSUME ~SameSecond, SaveInv, NamesDistinct, DataInv, [SavesNext]_saveVars
  PROVE  DataInv'
<1>i. SaveShape /\ NameInv /\ OpenFileInv /\ AgeInv /\ PruneInv
  BY DEF SaveInv
<1>0. CASE UNCHANGED saveVars
  BY <1>i, <1>0 DEF saveVars, DataInv
<1>1. CASE Load
  BY <1>i, <1>1 DEF Load, DataInv
<1>2. CASE Crash
  BY <1>i, <1>2 DEF Crash, DataInv
<1>3. ASSUME NEW l \in Locations, Play(l) PROVE DataInv'
  BY <1>i, <1>3 DEF Play, DataInv
<1>4. ASSUME NEW t \in Times, Delete(t) PROVE DataInv'
  BY <1>i, <1>4 DEF Delete, DataInv
<1>5. ASSUME NEW c \in Callers, Open(c) PROVE DataInv'
  <2>1. calls + 1 \in FileNos /\ Becomes(calls + 1, <<>>, <<>>, {c}, 0)
    BY <1>i, <1>5, OpenEffect
  <2>2. file'[calls + 1].hash = <<>>
    BY <2>1 DEF Becomes
  <2> QED BY <2>1, <2>2 DEF Becomes, DataInv
<1>6. ASSUME NEW c \in Callers, GiveUp(c) PROVE DataInv'
  BY <1>i, <1>6 DEF GiveUp, Idle, DataInv
<1>7. ASSUME NEW c \in Callers, Finalize(c) PROVE DataInv'
  <2> DEFINE n == id[c]
  <2>1. PICK top \in Nat \ {0} : n \in FileNos /\ Becomes(n, file[n].data, file[n].hash, file[n].writers, top)
    BY <1>i, <1>7, FinalizeEffect
  <2>2. file'[n].hash = file[n].hash /\ file'[n].data = file[n].data
    BY <2>1 DEF Becomes
  <2> HIDE DEF n
  <2> QED BY <2>1, <2>2 DEF Becomes, DataInv
<1>8. ASSUME NEW c \in Callers, PruneList(c) PROVE DataInv'
  BY <1>i, <1>8 DEF PruneList, DataInv
<1>9. ASSUME NEW c \in Callers, PruneRemove(c) PROVE DataInv'
  BY <1>i, <1>9 DEF PruneRemove, DataInv
<1>10. ASSUME NEW c \in Callers, Return(c) PROVE DataInv'
  BY <1>i, <1>10 DEF Return, Idle, DataInv
<1>11. ASSUME NEW c \in Callers, Restored(c) PROVE DataInv'
  BY <1>i, <1>11 DEF Restored, Idle, DataInv
<1>12. ASSUME NEW c \in Callers, NEW l \in Locations, Add(c, l) PROVE DataInv'
  <2> DEFINE n == id[c]
             d == Put(file[n].data, l.base, disk[l])
             h == Put(file[n].hash, l, disk[l])
  <2>1. n \in FileNos /\ (UNCHANGED file \/ Becomes(n, d, h, file[n].writers, file[n].closed))
    BY <1>i, <1>12, AddEffect
  <2>2. CASE UNCHANGED file
    BY <2>2 DEF DataInv
  <2>3. CASE Becomes(n, d, h, file[n].writers, file[n].closed)
    <3>1. DOMAIN d = DOMAIN file[n].data \cup {l.base} /\ d[l.base] = disk[l]
          /\ \A x \in DOMAIN file[n].data : x # l.base => d[x] = file[n].data[x]
      BY DEF Put
    <3>2. DOMAIN h = DOMAIN file[n].hash \cup {l} /\ h[l] = disk[l]
          /\ \A k \in DOMAIN file[n].hash : k # l => h[k] = file[n].hash[k]
      BY DEF Put
    <3> HIDE DEF n, d, h
    <3>3. file'[n].hash = h /\ file'[n].data = d
      BY <2>3 DEF Becomes
    <3>4. \A k \in DOMAIN h : k \in Locations /\ k.base \in DOMAIN d /\ d[k.base] = h[k]
      BY <2>1, <3>1, <3>2 DEF DataInv, NamesDistinct
    <3> QED BY <2>1, <2>3, <3>3, <3>4 DEF DataInv, Becomes
  <2> QED BY <2>1, <2>2, <2>3
<1>13. ASSUME NEW c \in Callers, NEW l \in Locations, Extract(c, l) PROVE DataInv'
  BY <1>i, <1>13 DEF Extract, DataInv
<1>14. ASSUME NEW c \in Callers, NEW t \in Times, Restore(c, t) PROVE DataInv'
  BY <1>i, <1>14 DEF Restore, Readable, DataInv
<1> QED BY <1>0, <1>1, <1>2, <1>3, <1>4, <1>5, <1>6, <1>7, <1>8, <1>9, <1>10, <1>11, <1>12, <1>13, <1>14 DEF SavesNext

LEMMA RestoreStep ==
  ASSUME ~SameSecond, SaveInv, NamesDistinct, EmulatorPlace, DataInv, RestoreInv, [SavesNext]_saveVars
  PROVE  RestoreInv'
<1>i. SaveShape /\ NameInv /\ OpenFileInv /\ AgeInv /\ PruneInv
  BY DEF SaveInv
<1>s. \A n \in FileNos : file[n].closed # 0 => file'[n] = file[n]
  BY ClosedStays
<1>r. \A d \in Callers : pc[d] = "restoring" => handle[d] \in FileNos /\ file'[handle[d]] = file[handle[d]]
  BY <1>i, <1>s, SaveNumbers DEF OpenFileInv, ReadingInv, SaveShape
<1>0. CASE UNCHANGED saveVars
  BY <1>i, <1>0, <1>r DEF saveVars, RestoreInv, SaveShape, Writing
<1>1. CASE Load
  BY <1>i, <1>1, <1>r DEF Load, RestoreInv, SaveShape, Writing
<1>2. CASE Crash
  BY <1>i, <1>2, <1>r DEF Crash, RestoreInv, SaveShape, Writing
<1>3. ASSUME NEW l \in Locations, Play(l) PROVE RestoreInv'
  BY <1>i, <1>3, <1>r DEF Play, RestoreInv, SaveShape, Writing
<1>4. ASSUME NEW t \in Times, Delete(t) PROVE RestoreInv'
  BY <1>i, <1>4, <1>r DEF Delete, RestoreInv, SaveShape, Writing
<1>5. ASSUME NEW c \in Callers, Open(c) PROVE RestoreInv'
  <2>1. PICK n \in Times : n = calls + 1 /\ calls' = n /\ pc[c] = "idle"
            /\ id' = [id EXCEPT ![c] = n] /\ handle' = [handle EXCEPT ![c] = n]
            /\ tmp' = [tmp EXCEPT ![n] = n] /\ Writers(n, {c}, 0)
            /\ pc' = [pc EXCEPT ![c] = "adding"] /\ todo' = [todo EXCEPT ![c] = Found]
            /\ UNCHANGED <<disk, zip, success, intact>>
    BY <1>i, <1>5, OpenPlain
  <2> QED BY <1>i, <2>1, <1>r DEF Writers, RestoreInv, SaveShape, Writing
<1>6. ASSUME NEW c \in Callers, GiveUp(c) PROVE RestoreInv'
  BY <1>i, <1>6, <1>r DEF GiveUp, Idle, RestoreInv, SaveShape, Writing
<1>7. ASSUME NEW c \in Callers, Finalize(c) PROVE RestoreInv'
  <2>1. PICK n \in Times, top \in Nat \ {0} :
            /\ n = id[c] /\ pc[c] = "adding" /\ n = handle[c]
            /\ (\A m \in FileNos : file[m].closed < top) /\ Writers(n, file[n].writers, top)
            /\ zip' = [zip EXCEPT ![n] = n] /\ tmp' = [tmp EXCEPT ![n] = 0]
            /\ pc' = [pc EXCEPT ![c] = "pruning"] /\ success' = success \cup {n}
            /\ UNCHANGED <<disk, calls, id, handle, todo, intact>>
    BY <1>i, <1>7, FinalizePlain
  <2> QED BY <1>i, <2>1, <1>r DEF Writers, RestoreInv, SaveShape, Writing
<1>8. ASSUME NEW c \in Callers, PruneList(c) PROVE RestoreInv'
  BY <1>i, <1>8, <1>r DEF PruneList, RestoreInv, SaveShape, Writing
<1>9. ASSUME NEW c \in Callers, PruneRemove(c) PROVE RestoreInv'
  BY <1>i, <1>9, <1>r DEF PruneRemove, RestoreInv, SaveShape, Writing
<1>10. ASSUME NEW c \in Callers, Return(c) PROVE RestoreInv'
  BY <1>i, <1>10, <1>r DEF Return, Idle, RestoreInv, SaveShape, Writing
<1>11. ASSUME NEW c \in Callers, Restored(c) PROVE RestoreInv'
  BY <1>i, <1>11, <1>r DEF Restored, Idle, RestoreInv, SaveShape, Writing
<1>12. ASSUME NEW c \in Callers, NEW l \in Locations, Add(c, l) PROVE RestoreInv'
  <2>1. /\ pc[c] = "adding" /\ todo' = [todo EXCEPT ![c] = todo[c] \ {l}]
        /\ \A m \in FileNos : file'[m].writers = file[m].writers /\ file'[m].closed = file[m].closed
        /\ UNCHANGED <<disk, calls, tmp, zip, pc, id, handle, success, intact>>
    BY <1>i, <1>12, AddPlain
  <2> QED BY <1>i, <2>1, <1>r DEF Writers, RestoreInv, SaveShape, Writing
<1>13. ASSUME NEW c \in Callers, NEW l \in Locations, Extract(c, l) PROVE RestoreInv'
  <2>1. pc[c] = "restoring" /\ todo' = [todo EXCEPT ![c] = todo[c] \ {l}] /\ UNCHANGED <<pc, handle>>
    BY <1>13 DEF Extract
  <2>2. CASE UNCHANGED disk /\ intact' = intact \ {c}
    BY <1>i, <1>r, <2>1, <2>2 DEF RestoreInv, SaveShape
  <2>3. CASE /\ disk' = [k \in Locations |-> IF Path(k) = TargetPath(deriveSemanticPrefix(l))
                                            THEN file[handle[c]].data[l.base] ELSE disk[k]]
             /\ intact' = intact \cap {c}
    <3>1. TargetPath(deriveSemanticPrefix(l)) = Path(l)
      BY DEF TargetPath, deriveSemanticPrefix, Path, EmulatorPlace
    <3>2. \A k \in Locations : Path(k) = Path(l) <=> k = l
      BY DEF Path, NamesDistinct
    <3>3. \A k \in Locations : disk'[k] = IF k = l THEN file[handle[c]].data[l.base] ELSE disk[k]
      BY <2>3, <3>1, <3>2
    <3>4. ASSUME NEW d \in Callers, pc'[d] = "restoring" /\ d \in intact', NEW k \in DOMAIN file'[handle'[d]].hash \ todo'[d]
          PROVE  disk'[k] = file'[handle'[d]].hash[k]
      <4>1. d = c /\ c \in intact
        BY <2>3, <3>4
      <4>2. k \in DOMAIN file[handle[c]].hash /\ handle[c] \in FileNos /\ file'[handle[c]] = file[handle[c]]
        BY <1>r, <2>1, <3>4, <4>1
      <4>3. k \in Locations /\ file[handle[c]].data[k.base] = file[handle[c]].hash[k]
        BY <4>2 DEF DataInv
      <4>4. CASE k = l
        BY <2>1, <3>3, <4>1, <4>2, <4>3, <4>4
      <4>5. CASE k # l
        <5>1. k \notin todo[c]
          BY <1>i, <2>1, <3>4, <4>1, <4>5 DEF SaveShape
        <5> QED BY <2>1, <3>3, <4>1, <4>2, <4>3, <4>5, <5>1 DEF RestoreInv
      <4> QED BY <4>4, <4>5
    <3> QED BY <3>4 DEF RestoreInv
  <2> QED BY <1>13, <2>2, <2>3 DEF Extract
<1>14. ASSUME NEW c \in Callers, NEW t \in Times, Restore(c, t) PROVE RestoreInv'
  <2>1. /\ intact' = {c} /\ handle' = [handle EXCEPT ![c] = zip[t]] /\ todo' = [todo EXCEPT ![c] = DOMAIN file[zip[t]].hash]
        /\ UNCHANGED <<file, disk>>
    BY <1>14 DEF Restore
  <2>2. handle'[c] = zip[t] /\ todo'[c] = DOMAIN file[zip[t]].hash
    BY <1>i, <2>1 DEF SaveShape
  <2> QED BY <2>1, <2>2 DEF RestoreInv
<1> QED BY <1>0, <1>1, <1>2, <1>3, <1>4, <1>5, <1>6, <1>7, <1>8, <1>9, <1>10, <1>11, <1>12, <1>13, <1>14 DEF SavesNext

(* When no two calls of CreateBackup begin in one second: what a directory of backups holds is     *)
(* whole, and what CreateBackup reported stays until Retention newer ones are there or the user     *)
(* deletes it (CreateBackup, pruneOldBackups, DeleteBackup), however many callers there are and     *)
(* wherever gamux is killed.                                                                        *)
THEOREM SnapshotsStay == ASSUME ~SameSecond PROVE SavesSpec => []SnapshotsKept
<1>1. SaveInv => SnapshotsKept
  <2> SUFFICES ASSUME SaveInv PROVE SnapshotsKept
    OBVIOUS
  <2>1. ASSUME NEW t \in Archives PROVE Readable(zip[t])
    <3>1. zip[t] = t /\ t \in FileNos /\ file[t].closed # 0
      BY SaveNumbers DEF SaveInv, NameInv, OpenFileInv, NamedInv, Archives
    <3>2. PICK c \in Callers : file[t].writers = {c}
      BY <3>1, SaveNumbers DEF SaveInv, OpenFileInv, NamedInv, Archives
    <3>3. Cardinality(file[t].writers) = 1
      BY <3>2, FS_Singleton
    <3> QED BY <3>1, <3>3 DEF Readable
  <2>2. RetentionKeepsNewest
    BY SaveNumbers DEF SaveInv, SaveShape, PruneInv, KeptInv, Outlived, Younger, RetentionKeepsNewest
  <2> QED BY <2>1, <2>2 DEF SnapshotsKept, ArchivesWhole
<1> QED BY <1>1, SaveInvHolds, PTL

(* Restoring a snapshot gives every location that was recorded the content it had then              *)
(* (CreateBackup's deriveSemanticPrefix and the replacements of RestoreBackup are inverse to each    *)
(* other), when the locations have names of their own and no two calls begin in one second.          *)
THEOREM RestoringGivesBack == ASSUME ~SameSecond, NamesDistinct, EmulatorPlace PROVE SavesSpec => []RoundTrip
<1>1. SavesInit => DataInv /\ RestoreInv
  BY DEF SavesInit, Empty, DataInv, RestoreInv
<1>2. SaveInv /\ DataInv /\ RestoreInv /\ [SavesNext]_saveVars => DataInv' /\ RestoreInv'
  BY DataStep, RestoreStep
<1>3. RestoreInv => RoundTrip
  BY DEF RestoreInv, RoundTrip
<1> QED BY <1>1, <1>2, <1>3, SaveInvHolds, PTL DEF SavesSpec
=============================================================================
