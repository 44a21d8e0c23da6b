-------------------------- MODULE ConfigLoadProofs --------------------------
(***************************************************************************)
(* Proofs about ConfigLoad, for any files, feature names and registered    *)
(* collectors.  Lookup by name takes the first device of that name, so     *)
(* what it relies on is that positions have a least element: that follows  *)
(* from the well-foundedness of < on Nat.                                  *)
(***************************************************************************)
EXTENDS ConfigLoad, WellFoundedInduction, TLAPS

\* Devices are at positions of the file.
Positions == DOMAIN devices \subseteq Nat

Less == {p \in Nat \X Nat : p[1] < p[2]}

\* The order on the naturals is well founded.
LEMMA LessWellFounded == IsWellFoundedOn(Less, Nat)
BY NatLessThanWellFounded, Zenon DEF OpToRel, Less

\* A set of positions has a least one.
LEMMA Least ==
    ASSUME NEW S, S \subseteq Nat, S # {}
    PROVE  \E i \in S : \A j \in S : i <= j
<1>1. PICK x \in S : \A y \in S : <<y, x>> \notin Less
  BY LessWellFounded, WFMin, Zenon
<1>2. SUFFICES ASSUME NEW y \in S, ~ (x <= y) PROVE FALSE
  OBVIOUS
<1>3. y < x /\ x \in Nat /\ y \in Nat
  BY <1>2
<1>4. <<y, x>> \in Less
  BY <1>3 DEF Less
<1> QED
  BY <1>1, <1>4

\* The device DeviceFeatures finds is one of that name.
LEMMA FirstNamed ==
    ASSUME Positions, NEW i \in DOMAIN devices
    PROVE  First(devices[i].name) \in DOMAIN devices
           /\ devices[First(devices[i].name)].name = devices[i].name
<1> DEFINE N == Named(devices[i].name)
<1>1. N \subseteq Nat /\ N # {}
  BY DEF Named, Positions
<1>2. \E k \in N : \A j \in N : k <= j
  BY <1>1, Least, Zenon
<1>3. First(devices[i].name) \in N
  BY <1>2, Zenon DEF First
<1> QED
  BY <1>3 DEF Named

----------------------------------------------------------------------------
\* At first there are no devices.
LEMMA PositionsInitial == Init => Positions
BY DEF Init, Positions

\* ReadFile and ReadFlags bring a sequence of devices, and nothing moves one.
LEMMA PositionsStep == Positions /\ file \in Files \cup {NoFile} /\ [Next]_vars => Positions'
<1> SUFFICES ASSUME Positions, file \in Files \cup {NoFile}, [Next]_vars PROVE Positions'
  OBVIOUS
<1>1. CASE ReadFile
  <2>1. file \in Files
    BY <1>1 DEF ReadFile
  <2>2. file.devices \in Seq({file.devices[i] : i \in DOMAIN file.devices})
    BY <2>1, FilesAssumption
  <2>3. DOMAIN file.devices = 1..Len(file.devices) /\ Len(file.devices) \in Nat
    BY <2>2
  <2> QED
    BY <1>1, <2>3 DEF ReadFile, Positions
<1>2. CASE ReadFlags
  <2>1. DOMAIN <<Single>> = 1..1
    OBVIOUS
  <2> QED
    BY <1>2, <2>1 DEF ReadFlags, Positions
<1>3. CASE CheckFeatures
  BY <1>3 DEF CheckFeatures, Kept, Positions
<1>4. CASE MissingParam \/ RejectFeatures \/ RejectProfiles \/ NilProfile \/ RejectDevices
  BY <1>4 DEF MissingParam, RejectFeatures, RejectProfiles, NilProfile, RejectDevices, cfg,
              Positions
<1>5. CASE CheckProfiles \/ CheckDevices \/ ApplyFlags \/ NewCollector \/ UNCHANGED vars
  BY <1>5 DEF CheckProfiles, CheckDevices, ApplyFlags, NewCollector, cfg, vars, Positions
<1> QED
  BY <1>1, <1>2, <1>3, <1>4, <1>5 DEF Next

\* The configuration is one of Files, or there is none.
LEMMA FileKept == Spec => [](file \in Files \cup {NoFile})
<1>1. Init => file \in Files \cup {NoFile}
  BY DEF Init
<1>2. file \in Files \cup {NoFile} /\ [Next]_vars => (file \in Files \cup {NoFile})'
  BY DEF Next, ReadFile, ReadFlags, MissingParam, CheckFeatures, RejectFeatures, CheckProfiles,
         RejectProfiles, NilProfile, CheckDevices, RejectDevices, ApplyFlags, NewCollector,
         commandLine, vars
<1> QED
  BY <1>1, <1>2, PTL DEF Spec

----------------------------------------------------------------------------
\* What AllEnabledFeatures collects covers what any device asks for, also a device that
\* DeviceFeatures takes for another one of the same name.
LEMMA AllCovered ==
    ASSUME Positions, NEW i \in DOMAIN devices
    PROVE  FeatureNames(DeviceFeatures(devices[i].name)) \subseteq AllEnabledFeatures
<1> DEFINE f == First(devices[i].name)
<1>1. f \in DOMAIN devices /\ devices[f].name = devices[i].name
  BY FirstNamed
<1>2. FeatureNames(IF devices[f].profile = "" THEN features ELSE DeviceFeatures(devices[f].name))
        \subseteq AllEnabledFeatures
  BY <1>1, Zenon DEF AllEnabledFeatures
<1>3. DeviceFeatures(devices[i].name)
        = IF devices[f].profile = "" THEN features ELSE DeviceFeatures(devices[f].name)
  BY <1>1 DEF DeviceFeatures
<1> QED
  BY <1>2, <1>3

\* Every step keeps the instances complete.
LEMMA InstancesStep == Positions /\ InstancesComplete /\ [Next]_vars => InstancesComplete'
<1> SUFFICES ASSUME Positions, InstancesComplete, [Next]_vars PROVE InstancesComplete'
  OBVIOUS
<1>1. CASE NewCollector
  <2> SUFFICES ASSUME NEW i \in DOMAIN devices', NEW n \in collectors'[i]
               PROVE  (n \in instances <=> n \in Known)'
    BY DEF InstancesComplete
  <2>1. i \in DOMAIN devices /\ devices' = devices
    BY <1>1 DEF NewCollector, cfg
  <2>2. collectors'[i] = FeatureNames(DeviceFeatures(devices[i].name))
    BY <1>1, <2>1 DEF NewCollector
  <2>3. n \in AllEnabledFeatures
    BY <2>1, <2>2, AllCovered
  <2> QED
    BY <1>1, <2>3 DEF NewCollector
<1>2. CASE UNCHANGED vars
  BY <1>2 DEF vars, InstancesComplete
<1>3. CASE Next /\ ~NewCollector
  BY <1>3 DEF Next, ReadFile, ReadFlags, MissingParam, CheckFeatures, RejectFeatures,
              CheckProfiles, RejectProfiles, NilProfile, CheckDevices, RejectDevices, ApplyFlags,
              InstancesComplete
<1> QED
  BY <1>1, <1>2, <1>3

\* Whatever the file, the names and the flags: a device's collector lacks an instance only
\* if nothing is registered under its name.
THEOREM KnownCollectorsExist == Spec => []InstancesComplete
<1>1. Init => InstancesComplete
  BY DEF Init, InstancesComplete
<1>2. Positions /\ InstancesComplete /\ [Next]_vars => InstancesComplete'
  BY InstancesStep
<1> QED
  BY <1>1, <1>2, PositionsInitial, PositionsStep, FileKept, PTL DEF Spec

----------------------------------------------------------------------------
\* What start-up has made of a file, by how far it has come.
Started == {"loaded", "configured", "built"}
FileInv ==
    file # NoFile =>
        /\ pc = "features" => /\ features = file.features /\ profiles = file.profiles
                              /\ devices = file.devices
        /\ pc = "profiles" => features = WithResource(file.features) /\ profiles = file.profiles
        /\ pc = "devices" => /\ features = WithResource(file.features)
                             /\ profiles = [p \in DOMAIN file.profiles |-> WithResource(file.profiles[p])]
        /\ pc = "loaded" => features = Fixed(WithResource(file.features))
        /\ pc \in {"configured", "built"} => features = Put(Fixed(WithResource(file.features)), flags, "on")
        /\ pc \in Started =>
               profiles = [p \in DOMAIN file.profiles |-> Fixed(WithResource(file.profiles[p]))]
        /\ pc \in {"profiles", "devices"} => Valid(file.features)
        /\ pc = "devices" => \A p \in DOMAIN file.profiles : Valid(file.profiles[p])
        /\ pc \in {"profiles", "devices"} \cup Started =>
               DOMAIN devices = Active /\ \A i \in Active : devices[i] = file.devices[i]
\* A device that was let in has a profile that exists, or none.
ProfilesExist ==
    pc \in Started => \A i \in DOMAIN devices :
        devices[i].profile # "" => devices[i].profile \in DOMAIN profiles
\* A device has the collectors of a device of its name.
FeaturesAt(k) == IF devices[k].profile = "" THEN features ELSE profiles[devices[k].profile]
BuiltInv ==
    pc = "built" => \A i \in DOMAIN devices : \E k \in DOMAIN devices :
        devices[k].name = devices[i].name /\ collectors[i] = FeatureNames(FeaturesAt(k))
LoadInv == TypeOK /\ Positions /\ FileInv /\ ProfilesExist /\ ChecksDecide /\ BuiltInv

----------------------------------------------------------------------------
\* What a write, and fix, make of a map, nil or not.
LEMMA EntriesMap ==
    ASSUME NEW f \in FeatureMaps
    PROVE  Entries(f) \in Maps /\ DOMAIN Entries(f) \subseteq Names
<1>1. <<>> \in [{} -> Confs]
  OBVIOUS
<1>2. Entries(f) \in Maps
  BY <1>1 DEF FeatureMaps, Entries, Maps
<1> QED
  BY <1>2 DEF Maps

\* A write leaves the other entries alone, and what it returns is not nil.
LEMMA PutMap ==
    ASSUME NEW f \in FeatureMaps, NEW S \in SUBSET Names, NEW c \in Confs
    PROVE  /\ Put(f, S, c) \in Maps /\ Put(f, S, c) \in FeatureMaps /\ Entries(Put(f, S, c)) = Put(f, S, c)
           /\ DOMAIN Put(f, S, c) = DOMAIN Entries(f) \cup S
           /\ \A n \in DOMAIN Entries(f) \cup S :
                  Put(f, S, c)[n] = IF n \in S THEN c ELSE Entries(f)[n]
<1> DEFINE g == Put(f, S, c)
<1> DEFINE T == DOMAIN Entries(f) \cup S
<1>1. Entries(f) \in Maps /\ T \in SUBSET Names
  BY EntriesMap
<1>2. \A n \in DOMAIN Entries(f) : Entries(f)[n] \in Confs
  BY <1>1 DEF Maps
<1>3. g = [n \in T |-> IF n \in S THEN c ELSE Entries(f)[n]]
  BY DEF Put
<1>4. g \in [T -> Confs]
  BY <1>2, <1>3
<1>5. g \in Maps
  BY <1>1, <1>4 DEF Maps
<1>6. g # NilMap
  BY <1>5, NilAssumption
<1> QED
  BY <1>3, <1>5, <1>6 DEF FeatureMaps, Entries

\* fix disables nothing and enables nothing that is disabled.
LEMMA FixedMap ==
    ASSUME NEW f \in FeatureMaps
    PROVE  /\ Fixed(f) \in Maps /\ Fixed(f) \in FeatureMaps /\ Entries(Fixed(f)) = Fixed(f)
           /\ DOMAIN Fixed(f) = DOMAIN Entries(f)
           /\ \A n \in DOMAIN Entries(f) : Fixed(f)[n] = "off" <=> Entries(f)[n] = "off"
<1> DEFINE T == DOMAIN Entries(f)
<1>1. Entries(f) \in Maps /\ T \in SUBSET Names
  BY EntriesMap
<1>2. \A n \in T : f[n] = Entries(f)[n] /\ f[n] \in Confs
  BY <1>1 DEF Maps, Entries
<1>3. Fixed(f) = [n \in T |-> IF f[n] \in {"nil", "bare"} THEN "on" ELSE f[n]]
  BY DEF Fixed
<1>4. Fixed(f) \in [T -> Confs]
  BY <1>2, <1>3 DEF Confs
<1>5. Fixed(f) \in Maps
  BY <1>1, <1>4 DEF Maps
<1>6. Fixed(f) # NilMap
  BY <1>5, NilAssumption
<1>7. \A n \in T : Fixed(f)[n] = "off" <=> Entries(f)[n] = "off"
  BY <1>2, <1>3
<1> QED
  BY <1>3, <1>5, <1>6, <1>7 DEF FeatureMaps, Entries

\* "resource" is added, whatever the file says of it.
LEMMA ResourceMap ==
    ASSUME NEW f \in FeatureMaps
    PROVE  /\ WithResource(f) \in FeatureMaps
           /\ FeatureNames(Fixed(WithResource(f))) = {"resource"} \cup NotOff(f)
           /\ Fixed(WithResource(f)) \in FeatureMaps
<1> DEFINE S == {"resource"}
<1> DEFINE g == Put(f, S, "nil")
<1>1. S \in SUBSET Names /\ "nil" \in Confs /\ WithResource(f) = g
  BY NamesAssumption DEF Confs, WithResource
<1> HIDE DEF S
<1>2. /\ g \in FeatureMaps /\ Entries(g) = g /\ DOMAIN g = DOMAIN Entries(f) \cup S
      /\ \A n \in DOMAIN Entries(f) \cup S : g[n] = IF n \in S THEN "nil" ELSE Entries(f)[n]
  BY <1>1, PutMap
<1> HIDE DEF g
<1>3. /\ Fixed(g) \in FeatureMaps /\ Entries(Fixed(g)) = Fixed(g) /\ DOMAIN Fixed(g) = DOMAIN g
      /\ \A n \in DOMAIN g : Fixed(g)[n] = "off" <=> g[n] = "off"
  BY <1>2, FixedMap
<1>4. FeatureNames(Fixed(g)) = {n \in DOMAIN g : g[n] # "off"}
  BY <1>3 DEF FeatureNames, Enabled
<1>5. {n \in DOMAIN g : g[n] # "off"} = {"resource"} \cup NotOff(f)
  BY <1>2 DEF NotOff, S
<1> QED
  BY <1>1, <1>2, <1>3, <1>4, <1>5

\* The -with flags enable their features on top of it.
LEMMA FlagsMap ==
    ASSUME NEW f \in FeatureMaps, NEW S \in SUBSET Known
    PROVE  /\ Put(f, S, "on") \in FeatureMaps
           /\ FeatureNames(Put(f, S, "on")) = FeatureNames(f) \cup S
<1> DEFINE g == Put(f, S, "on")
<1>1. S \in SUBSET Names /\ "on" \in Confs
  BY NamesAssumption DEF Confs
<1>2. /\ g \in FeatureMaps /\ Entries(g) = g /\ DOMAIN g = DOMAIN Entries(f) \cup S
      /\ \A n \in DOMAIN Entries(f) \cup S : g[n] = IF n \in S THEN "on" ELSE Entries(f)[n]
  BY <1>1, PutMap
<1> HIDE DEF g
<1>3. FeatureNames(g) = FeatureNames(f) \cup S
  BY <1>2 DEF FeatureNames, Enabled
<1> QED
  BY <1>2, <1>3 DEF g

----------------------------------------------------------------------------
\* At first nothing is configured.
LEMMA LoadInitial == Init => LoadInv
<1> SUFFICES ASSUME Init PROVE LoadInv
  OBVIOUS
<1>1. DOMAIN devices = {} /\ DOMAIN profiles = {} /\ DOMAIN collectors = {}
  BY DEF Init
<1>2. TypeOK
  BY <1>1 DEF Init, TypeOK, FeatureMaps
<1> QED
  BY <1>1, <1>2 DEF Init, LoadInv, Positions, FileInv, Started, ProfilesExist, ChecksDecide, BuiltInv

\* The file is read as it is.
LEMMA ReadFileLoad ==
    ASSUME LoadInv, ReadFile
    PROVE  TypeOK' /\ FileInv' /\ ProfilesExist' /\ ChecksDecide' /\ BuiltInv'
<1>1. /\ file \in Files /\ UNCHANGED <<file, flags, withAll, instances, collectors>> /\ pc' = "features"
      /\ features' = file.features /\ profiles' = file.profiles /\ devices' = file.devices
  BY DEF LoadInv, TypeOK, ReadFile, commandLine, built
<1>2. /\ file.features \in FeatureMaps /\ \A p \in DOMAIN file.profiles : file.profiles[p] \in FeatureMaps
      /\ \A i \in DOMAIN file.devices : IsDevice(file.devices[i])
  BY <1>1, FilesAssumption
<1>3. TypeOK'
  BY <1>1, <1>2 DEF LoadInv, TypeOK, IsDevice
<1> QED
  BY <1>1, <1>3 DEF FileInv, Started, ProfilesExist, ChecksDecide, BuiltInv

\* Flags configure one device, with "resource" or all collectors.
LEMMA ReadFlagsLoad ==
    ASSUME LoadInv, ReadFlags
    PROVE  TypeOK' /\ FileInv' /\ ProfilesExist' /\ ChecksDecide' /\ BuiltInv'
<1> DEFINE S == {"resource"} \cup (IF withAll THEN Known ELSE {})
<1>1. /\ file = NoFile /\ UNCHANGED <<file, flags, withAll, profiles, instances, collectors>>
      /\ pc' = "loaded" /\ features' = Put(NilMap, S, "on") /\ devices' = <<Single>>
  BY DEF ReadFlags, commandLine, built
<1>2. S \in SUBSET Known /\ NilMap \in FeatureMaps
  BY NamesAssumption DEF FeatureMaps
<1> HIDE DEF S
<1>3. features' \in FeatureMaps
  BY <1>1, <1>2, FlagsMap
<1>4. /\ DOMAIN devices' = {1} /\ devices'[1].profile = "" /\ devices'[1].disabled = FALSE
      /\ IsDevice(devices'[1])
  <2>1. DOMAIN devices' = {1} /\ devices'[1] = Single
    BY <1>1
  <2>2. Single.profile = "" /\ Single.disabled = FALSE
    BY DEF Single
  <2>3. DOMAIN Single = {"name", "srv", "profile", "complete", "disabled"}
    BY DEF Single
  <2>4. Single.srv = FALSE /\ Single.complete = TRUE
    BY DEF Single
  <2> QED
    BY <2>1, <2>2, <2>3, <2>4 DEF IsDevice
<1>5. TypeOK'
  BY <1>1, <1>3, <1>4 DEF LoadInv, TypeOK, IsDevice
<1> QED
  BY <1>1, <1>4, <1>5 DEF FileInv, Started, ProfilesExist, ChecksDecide, BuiltInv

\* The default features are good: "resource" is added and disabled devices go.
LEMMA CheckFeaturesLoad ==
    ASSUME LoadInv, CheckFeatures
    PROVE  TypeOK' /\ FileInv' /\ ProfilesExist' /\ ChecksDecide' /\ BuiltInv'
<1>1. /\ pc = "features" /\ Valid(features) /\ pc' = "profiles"
      /\ features' = WithResource(features) /\ devices' = Kept
      /\ UNCHANGED <<file, flags, withAll, profiles, instances, collectors>>
  BY DEF CheckFeatures, WithResource, commandLine, built
<1>2. features' \in FeatureMaps
  BY <1>1, ResourceMap DEF LoadInv, TypeOK
<1>3. /\ DOMAIN devices' = {k \in DOMAIN devices : ~devices[k].disabled}
      /\ \A i \in DOMAIN devices' : devices'[i] = devices[i]
  BY <1>1 DEF Kept
<1>4. TypeOK'
  BY <1>1, <1>2, <1>3 DEF LoadInv, TypeOK, IsDevice
<1>5. FileInv'
  <2> SUFFICES ASSUME file # NoFile
               PROVE  /\ features' = WithResource(file.features) /\ profiles' = file.profiles
                      /\ Valid(file.features) /\ DOMAIN devices' = Active
                      /\ \A i \in Active : devices'[i] = file.devices[i]
    BY <1>1 DEF FileInv, Started, Active
  <2>1. features = file.features /\ profiles = file.profiles /\ devices = file.devices
    BY <1>1 DEF LoadInv, FileInv
  <2> QED
    BY <1>1, <1>3, <2>1 DEF Active
<1> QED
  BY <1>1, <1>4, <1>5 DEF Started, ProfilesExist, ChecksDecide, BuiltInv

\* Start-up ends: with an error only over something the file says, with a panic over a nil profile.
LEMMA RejectLoad ==
    ASSUME LoadInv, MissingParam \/ RejectFeatures \/ RejectProfiles \/ NilProfile \/ RejectDevices
    PROVE  TypeOK' /\ FileInv' /\ ProfilesExist' /\ ChecksDecide' /\ BuiltInv'
<1>1. /\ UNCHANGED <<file, flags, withAll, features, profiles, devices, instances, collectors>>
      /\ pc' = IF NilProfile THEN "crashed" ELSE "exit"
      /\ NilProfile => pc = "profiles"
  BY DEF MissingParam, RejectFeatures, RejectProfiles, NilProfile, RejectDevices, commandLine, cfg, built
<1>2. NilProfile => \A i \in DOMAIN devices : ~devices[i].disabled
  BY <1>1 DEF LoadInv, TypeOK
<1>3. TypeOK'
  BY <1>1, <1>2 DEF LoadInv, TypeOK
<1>4. ChecksDecide'
  <2> SUFFICES ASSUME file # NoFile
               PROVE  /\ pc' = "exit" => ~Sound(file)
                      /\ pc' = "crashed" => \E p \in DOMAIN file.profiles : file.profiles[p] = NilMap
    BY <1>1 DEF ChecksDecide
  <2>1. pc' = "crashed" => \E p \in DOMAIN file.profiles : file.profiles[p] = NilMap
    BY <1>1 DEF NilProfile, LoadInv, FileInv
  <2>2. CASE RejectFeatures
    BY <2>1, <2>2 DEF RejectFeatures, LoadInv, FileInv, Sound
  <2>3. CASE RejectProfiles
    BY <2>1, <2>3 DEF RejectProfiles, LoadInv, FileInv, Sound
  <2>4. CASE RejectDevices
    <3>1. PICK i \in DOMAIN devices : ~ValidDevice(devices[i])
      BY <2>4 DEF RejectDevices
    <3>2. /\ i \in Active /\ devices[i] = file.devices[i] /\ DOMAIN profiles = DOMAIN file.profiles
      BY <2>4 DEF RejectDevices, LoadInv, FileInv
    <3>3. /\ i \in DOMAIN file.devices /\ ~file.devices[i].disabled
          /\ ~( /\ file.devices[i].complete /\ (file.devices[i].srv \/ file.devices[i].name # "")
                /\ file.devices[i].profile = "" \/ file.devices[i].profile \in DOMAIN file.profiles)
      BY <3>1, <3>2 DEF ValidDevice, Active
    <3>4. ~Sound(file)
      BY <3>3 DEF Sound
    <3> QED
      BY <2>1, <3>4
  <2> QED
    BY <1>1, <2>1, <2>2, <2>3, <2>4 DEF MissingParam
<1> QED
  BY <1>1, <1>3, <1>4 DEF FileInv, Started, ProfilesExist, BuiltInv

\* The profiles are good.
LEMMA CheckProfilesLoad ==
    ASSUME LoadInv, CheckProfiles
    PROVE  TypeOK' /\ FileInv' /\ ProfilesExist' /\ ChecksDecide' /\ BuiltInv'
<1>1. /\ pc = "profiles" /\ pc' = "devices" /\ \A p \in DOMAIN profiles : Valid(profiles[p])
      /\ profiles' = [p \in DOMAIN profiles |-> WithResource(profiles[p])]
      /\ UNCHANGED <<file, flags, withAll, features, devices, instances, collectors>>
  BY DEF CheckProfiles, commandLine, built
<1>2. \A p \in DOMAIN profiles : WithResource(profiles[p]) \in FeatureMaps
  BY ResourceMap DEF LoadInv, TypeOK
<1>3. DOMAIN profiles' = DOMAIN profiles /\ \A p \in DOMAIN profiles' : profiles'[p] \in FeatureMaps
  BY <1>1, <1>2
<1>4. TypeOK'
  BY <1>1, <1>3 DEF LoadInv, TypeOK
<1>5. FileInv'
  <2> SUFFICES ASSUME file # NoFile
               PROVE  /\ features' = WithResource(file.features)
                      /\ profiles' = [p \in DOMAIN file.profiles |-> WithResource(file.profiles[p])]
                      /\ Valid(file.features) /\ \A p \in DOMAIN file.profiles : Valid(file.profiles[p])
                      /\ DOMAIN devices' = Active /\ \A i \in Active : devices'[i] = file.devices[i]
    BY <1>1 DEF FileInv, Started, Active
  <2> QED
    BY <1>1 DEF LoadInv, FileInv
<1> QED
  BY <1>1, <1>4, <1>5 DEF Started, ProfilesExist, ChecksDecide, BuiltInv

\* The devices are good: the file is sound, and fix has completed the features.
LEMMA CheckDevicesLoad ==
    ASSUME LoadInv, CheckDevices
    PROVE  TypeOK' /\ FileInv' /\ ProfilesExist' /\ ChecksDecide' /\ BuiltInv'
<1>1. /\ pc = "devices" /\ pc' = "loaded" /\ \A i \in DOMAIN devices : ValidDevice(devices[i])
      /\ features' = Fixed(features)
      /\ profiles' = [p \in DOMAIN profiles |-> Fixed(profiles[p])]
      /\ UNCHANGED <<file, flags, withAll, devices, instances, collectors>>
  BY DEF CheckDevices, commandLine, built
<1>2. Fixed(features) \in FeatureMaps /\ \A p \in DOMAIN profiles : Fixed(profiles[p]) \in FeatureMaps
  BY FixedMap DEF LoadInv, TypeOK
<1>3. DOMAIN profiles' = DOMAIN profiles /\ \A p \in DOMAIN profiles' : profiles'[p] \in FeatureMaps
  BY <1>1, <1>2
<1>4. TypeOK'
  BY <1>1, <1>2, <1>3 DEF LoadInv, TypeOK
<1>5. ProfilesExist'
  BY <1>1, <1>3 DEF ProfilesExist, ValidDevice
<1>6. ASSUME file # NoFile
      PROVE  /\ features = WithResource(file.features) /\ Valid(file.features)
             /\ profiles = [p \in DOMAIN file.profiles |-> WithResource(file.profiles[p])]
             /\ \A p \in DOMAIN file.profiles : Valid(file.profiles[p])
             /\ DOMAIN devices = Active /\ \A i \in Active : devices[i] = file.devices[i]
  BY <1>1, <1>6 DEF LoadInv, FileInv
<1>7. ASSUME file # NoFile
      PROVE  /\ features' = Fixed(WithResource(file.features))
             /\ profiles' = [p \in DOMAIN file.profiles |-> Fixed(WithResource(file.profiles[p]))]
  BY <1>1, <1>6, <1>7
<1>8. FileInv'
  <2>1. Active' = Active
    BY <1>1 DEF Active
  <2>2. pc' = "loaded" /\ file' = file /\ devices' = devices
    BY <1>1
  <2> SUFFICES ASSUME file # NoFile
               PROVE  /\ features' = Fixed(WithResource(file.features))
                      /\ profiles' = [p \in DOMAIN file.profiles |-> Fixed(WithResource(file.profiles[p]))]
                      /\ DOMAIN devices = Active /\ \A i \in Active : devices[i] = file.devices[i]
    BY <2>1, <2>2 DEF FileInv, Started
  <2> QED
    BY <1>6, <1>7
<1>9. ChecksDecide'
  <2> SUFFICES ASSUME file # NoFile PROVE Sound(file)
    BY <1>1 DEF ChecksDecide
  <2>1. DOMAIN profiles = DOMAIN file.profiles
    BY <1>6
  <2>2. ASSUME NEW i \in DOMAIN file.devices, ~file.devices[i].disabled
        PROVE  /\ file.devices[i].complete /\ (file.devices[i].srv \/ file.devices[i].name # "")
               /\ file.devices[i].profile = "" \/ file.devices[i].profile \in DOMAIN file.profiles
    <3>1. i \in DOMAIN devices /\ devices[i] = file.devices[i]
      BY <1>6, <2>2 DEF Active
    <3> QED
      BY <1>1, <2>1, <3>1 DEF ValidDevice
  <2> QED
    BY <1>6, <2>2 DEF Sound
<1> QED
  BY <1>1, <1>4, <1>5, <1>8, <1>9 DEF BuiltInv

\* The flags are applied to the default features.
LEMMA ApplyFlagsLoad ==
    ASSUME LoadInv, ApplyFlags
    PROVE  TypeOK' /\ FileInv' /\ ProfilesExist' /\ ChecksDecide' /\ BuiltInv'
<1>1. /\ pc = "loaded" /\ pc' = "configured" /\ features' = Put(features, flags, "on")
      /\ UNCHANGED <<file, flags, withAll, profiles, devices, instances, collectors>>
  BY DEF ApplyFlags, commandLine, built
<1>2. features' \in FeatureMaps
  BY <1>1, FlagsMap DEF LoadInv, TypeOK
<1>3. TypeOK'
  BY <1>1, <1>2 DEF LoadInv, TypeOK
<1>4. FileInv'
  BY <1>1 DEF LoadInv, FileInv, Started, Active
<1> QED
  BY <1>1, <1>3, <1>4 DEF LoadInv, Started, ProfilesExist, ChecksDecide, BuiltInv

\* DeviceFeatures finds a map for every device.
LEMMA FeaturesFound ==
    ASSUME LoadInv, pc \in Started, NEW i \in DOMAIN devices
    PROVE  DeviceFeatures(devices[i].name) \in FeatureMaps
<1> DEFINE d == devices[First(devices[i].name)]
<1>1. First(devices[i].name) \in DOMAIN devices
  BY FirstNamed DEF LoadInv
<1>2. d.profile # "" => d.profile \in DOMAIN profiles
  BY <1>1 DEF LoadInv, ProfilesExist
<1> QED
  BY <1>2 DEF DeviceFeatures, LoadInv, TypeOK

\* The collectors are built.
LEMMA NewCollectorLoad ==
    ASSUME LoadInv, NewCollector
    PROVE  TypeOK' /\ FileInv' /\ ProfilesExist' /\ ChecksDecide' /\ BuiltInv'
<1>1. /\ pc = "configured" /\ pc' = "built" /\ instances' = AllEnabledFeatures \cap Known
      /\ collectors' = [i \in DOMAIN devices |-> FeatureNames(DeviceFeatures(devices[i].name))]
      /\ UNCHANGED <<file, flags, withAll, features, profiles, devices>>
  BY DEF NewCollector, commandLine, cfg
<1>2. ASSUME NEW i \in DOMAIN devices PROVE FeatureNames(DeviceFeatures(devices[i].name)) \subseteq Names
  <2>1. DeviceFeatures(devices[i].name) \in FeatureMaps
    BY <1>1, FeaturesFound DEF Started
  <2> QED
    BY <2>1, EntriesMap DEF FeatureNames
<1>3. DOMAIN collectors' = DOMAIN devices' /\ \A i \in DOMAIN collectors' : collectors'[i] \subseteq Names
  BY <1>1, <1>2
<1>4. TypeOK'
  BY <1>1, <1>3 DEF LoadInv, TypeOK
<1>5. FileInv'
  BY <1>1 DEF LoadInv, FileInv, Started, Active
<1>6. BuiltInv'
  <2> SUFFICES ASSUME NEW i \in DOMAIN devices
               PROVE  \E k \in DOMAIN devices : /\ devices[k].name = devices[i].name
                                                /\ collectors'[i] = FeatureNames(FeaturesAt(k))
    BY <1>1 DEF BuiltInv, FeaturesAt
  <2>1. First(devices[i].name) \in DOMAIN devices /\ devices[First(devices[i].name)].name = devices[i].name
    BY FirstNamed DEF LoadInv
  <2>2. collectors'[i] = FeatureNames(FeaturesAt(First(devices[i].name)))
    BY <1>1 DEF DeviceFeatures, FeaturesAt
  <2> QED
    BY <2>1, <2>2
<1> QED
  BY <1>1, <1>4, <1>5, <1>6 DEF LoadInv, Started, ProfilesExist, ChecksDecide

\* The invariant is inductive.
LEMMA LoadAlways == Spec => []LoadInv
<1>1. LoadInv /\ [Next]_vars => LoadInv'
  <2> SUFFICES ASSUME LoadInv, [Next]_vars PROVE LoadInv'
    OBVIOUS
  <2>1. Positions'
    BY PositionsStep DEF LoadInv, TypeOK
  <2>2. CASE UNCHANGED vars
    <3>1. TypeOK' /\ FileInv' /\ ProfilesExist' /\ ChecksDecide'
      BY <2>2 DEF vars, LoadInv, TypeOK, FileInv, Active, Started, ProfilesExist, ChecksDecide
    <3>2. BuiltInv'
      BY <2>2 DEF vars, LoadInv, BuiltInv, FeaturesAt
    <3> QED
      BY <2>1, <3>1, <3>2 DEF LoadInv
  <2>3. CASE Next
    <3>1. TypeOK' /\ FileInv' /\ ProfilesExist' /\ ChecksDecide' /\ BuiltInv'
      BY <2>3, ReadFileLoad, ReadFlagsLoad, CheckFeaturesLoad, RejectLoad, CheckProfilesLoad,
         CheckDevicesLoad, ApplyFlagsLoad, NewCollectorLoad DEF Next
    <3> QED
      BY <2>1, <3>1 DEF LoadInv
  <2> QED
    BY <2>2, <2>3
<1> QED
  BY <1>1, LoadInitial, PTL DEF Spec

----------------------------------------------------------------------------
\* The configuration and the collectors built from it are well formed, and no disabled device
\* is left once the features have been checked.
THEOREM TypeCorrect == Spec => []TypeOK
<1>1. LoadInv => TypeOK
  BY DEF LoadInv
<1> QED
  BY <1>1, LoadAlways, PTL

\* The program starts with a file only if the file is sound, and rejects one only if it is not;
\* a panic of Config.validate needs a profile without features.
THEOREM FilesDecided == Spec => []ChecksDecide
<1>1. LoadInv => ChecksDecide
  BY DEF LoadInv
<1> QED
  BY <1>1, LoadAlways, PTL

\* With unique names each device runs the features of its own profile, or the default ones with
\* the flags, that are not disabled, and "resource": through Load, fix, the flags, the lookup by
\* name and NewCollector.
THEOREM EachItsOwn == Spec => []OwnFeatures
<1>1. LoadInv => OwnFeatures
  <2> SUFFICES ASSUME LoadInv, pc = "built", file # NoFile, Unique
               PROVE  /\ DOMAIN collectors = Active
                      /\ \A i \in Active :
                           LET p == file.devices[i].profile IN
                           collectors[i] = {"resource"} \cup
                               IF p = "" THEN NotOff(file.features) \cup flags
                               ELSE NotOff(file.profiles[p])
    BY DEF OwnFeatures
  <2>1. /\ features = Put(Fixed(WithResource(file.features)), flags, "on")
        /\ profiles = [p \in DOMAIN file.profiles |-> Fixed(WithResource(file.profiles[p]))]
        /\ DOMAIN devices = Active /\ \A i \in Active : devices[i] = file.devices[i]
        /\ DOMAIN collectors = DOMAIN devices
    BY DEF LoadInv, FileInv, Started, TypeOK
  <2>2. /\ file.features \in FeatureMaps
        /\ \A p \in DOMAIN file.profiles : file.profiles[p] \in FeatureMaps
        /\ flags \in SUBSET Known
    BY FilesAssumption DEF LoadInv, TypeOK
  <2>3. FeatureNames(features) = {"resource"} \cup NotOff(file.features) \cup flags
    BY <2>1, <2>2, ResourceMap, FlagsMap
  <2>4. \A p \in DOMAIN profiles : FeatureNames(profiles[p]) = {"resource"} \cup NotOff(file.profiles[p])
    BY <2>1, <2>2, ResourceMap
  <2>5. ASSUME NEW i \in Active
        PROVE  collectors[i] = {"resource"} \cup
                   IF file.devices[i].profile = "" THEN NotOff(file.features) \cup flags
                   ELSE NotOff(file.profiles[file.devices[i].profile])
    <3>1. i \in DOMAIN devices /\ devices[i] = file.devices[i]
      BY <2>1
    <3>2. collectors[i] = FeatureNames(FeaturesAt(i))
      BY <3>1 DEF LoadInv, BuiltInv, Unique
    <3>3. devices[i].profile # "" => devices[i].profile \in DOMAIN profiles
      BY <3>1 DEF LoadInv, ProfilesExist, Started
    <3>4. CASE devices[i].profile = ""
      BY <2>3, <3>1, <3>2, <3>4 DEF FeaturesAt
    <3>5. CASE devices[i].profile # ""
      BY <2>4, <3>1, <3>2, <3>3, <3>5 DEF FeaturesAt
    <3> QED
      BY <3>4, <3>5
  <2>6. DOMAIN collectors = Active
    BY <2>1
  <2> QED
    BY <2>5, <2>6
<1> QED
  BY <1>1, LoadAlways, PTL

=============================================================================
