----------------------------- MODULE ConfigLoad -----------------------------
(***************************************************************************)
(* From the configuration to the collectors of each device: loadConfig of  *)
(* cli/main.go, Load of internal/config/config.go, and NewCollector with   *)
(* createCollectors of internal/collector.  The YAML is taken as decoded:  *)
(* its features, its profiles and its devices.                             *)
(***************************************************************************)
EXTENDS Integers, Sequences, FiniteSets

CONSTANTS
    Known,     \* names of the registered collectors
    Lower,     \* strings.ToLower on the feature names that occur
    Files,     \* the configuration files considered
    NoFile,    \* no -config-file: one device, given by flags
    NilMap     \* a Features map that is nil

\* What a file says of a feature: nothing (nil), a map without "enabled" ("bare"), or one
\* whose "enabled" is true, false or no boolean ("odd").
Confs == {"nil", "bare", "on", "off", "odd"}
Names == DOMAIN Lower
Maps == UNION {[S -> Confs] : S \in SUBSET Names}
FeatureMaps == {NilMap} \cup Maps

\* A device: "complete" says that user, password and address (or SRV record) are given.
IsDevice(d) ==
    /\ DOMAIN d = {"name", "srv", "profile", "complete", "disabled"}
    /\ d.srv \in BOOLEAN /\ d.complete \in BOOLEAN /\ d.disabled \in BOOLEAN

ASSUME NamesAssumption ==
    /\ Known \subseteq Names /\ "resource" \in Known
    /\ \A n \in Known : Lower[n] = n
ASSUME FilesAssumption ==
    \A f \in Files :
        /\ f.features \in FeatureMaps
        /\ \A p \in DOMAIN f.profiles : f.profiles[p] \in FeatureMaps
        /\ f.devices \in Seq({f.devices[i] : i \in DOMAIN f.devices})
        /\ \A i \in DOMAIN f.devices : IsDevice(f.devices[i])
ASSUME NilAssumption == NoFile \notin Files /\ NilMap \notin Maps

VARIABLES
    file,        \* the file named by -config-file, or NoFile
    flags,       \* the -with-<collector> flags on the command line, whatever their value
    withAll,     \* -with-all
    pc,          \* how far start-up has come
    features,    \* cfg.Features
    profiles,    \* cfg.Profiles
    devices,     \* cfg.Devices, each at its position in the file
    instances,   \* the keys of collectorInstances
    collectors   \* for each device the names of its collectors

commandLine == <<file, flags, withAll>>
cfg == <<features, profiles, devices>>
built == <<instances, collectors>>
vars == <<file, flags, withAll, pc, features, profiles, devices, instances, collectors>>

TypeOK ==
    /\ file \in Files \cup {NoFile} /\ flags \subseteq Known /\ withAll \in BOOLEAN
    /\ pc \in {"start", "features", "profiles", "devices", "loaded", "configured", "built",
               "exit", "crashed"}
    /\ features \in FeatureMaps
    /\ \A p \in DOMAIN profiles : profiles[p] \in FeatureMaps
    /\ \A i \in DOMAIN devices :
           /\ IsDevice(devices[i])
           /\ devices[i].disabled => pc \in {"features", "exit"}
    /\ instances \subseteq Known
    /\ pc = "built" => DOMAIN collectors = DOMAIN devices
    /\ \A i \in DOMAIN collectors : collectors[i] \subseteq Names

Init ==
    /\ file \in Files \cup {NoFile} /\ flags \in SUBSET Known /\ withAll \in BOOLEAN
    /\ pc = "start"
    /\ features = NilMap /\ profiles = <<>> /\ devices = <<>>
    /\ instances = {} /\ collectors = <<>>

----------------------------------------------------------------------------
\* Maps of features: their entries, a write, and the names FeatureNames returns.
Entries(f) == IF f = NilMap THEN <<>> ELSE f
Put(f, S, c) == [n \in DOMAIN Entries(f) \cup S |-> IF n \in S THEN c ELSE Entries(f)[n]]

EnabledExplicitly(c) == c = "on"            \* mutant: no conf and a bare map are disabled
Enabled(c) == c # "off"
FeatureNames(f) == {n \in DOMAIN Entries(f) : Enabled(Entries(f)[n])}

\* fix: "enabled: true" where it is missing.
Fixed(f) ==
    [n \in DOMAIN Entries(f) |-> IF f[n] \in {"nil", "bare"} THEN "on" ELSE f[n]]

\* Features.validate finds no unknown name.
Valid(f) == \A n \in DOMAIN Entries(f) : Lower[n] \in Known

\* Device.validate; the name of an SRV device may be missing.
ValidDevice(d) ==
    /\ d.complete /\ (d.srv \/ d.name # "")
    /\ d.profile # "" => d.profile \in DOMAIN profiles

----------------------------------------------------------------------------
\* loadConfigFromFile reads the file.
ReadFile ==
    /\ pc = "start" /\ file # NoFile
    /\ pc' = "features"
    /\ features' = file.features /\ profiles' = file.profiles /\ devices' = file.devices
    /\ UNCHANGED <<commandLine, built>>

\* loadConfigFromFlags: without device, address or credentials the program ends.
Single == [name |-> "device", srv |-> FALSE, profile |-> "", complete |-> TRUE,
           disabled |-> FALSE]

ReadFlags ==
    /\ pc = "start" /\ file = NoFile
    /\ pc' = "loaded"
    /\ features' = Put(NilMap, {"resource"} \cup (IF withAll THEN Known ELSE {}), "on")
    /\ devices' = <<Single>>
    /\ UNCHANGED <<commandLine, profiles, built>>

MissingParam ==
    /\ pc = "start" /\ file = NoFile
    /\ pc' = "exit"
    /\ UNCHANGED <<commandLine, cfg, built>>

\* Load: the default features, "resource" is always enabled; then disabled devices go.
KeptDisabled == devices                     \* mutant: disabled devices are validated too
Kept == [i \in {k \in DOMAIN devices : ~devices[k].disabled} |-> devices[i]]

CheckFeatures ==
    /\ pc = "features" /\ Valid(features)
    /\ pc' = "profiles"
    /\ features' = Put(features, {"resource"}, "nil")
    /\ devices' = Kept
    /\ UNCHANGED <<commandLine, profiles, built>>

RejectFeatures ==
    /\ pc = "features" /\ ~Valid(features)
    /\ pc' = "exit"
    /\ UNCHANGED <<commandLine, cfg, built>>

\* Config.validate goes over the profiles in any order: the first bad one ends it, and
\* writing to a profile that is nil panics.
WithResource(f) == Put(f, {"resource"}, "nil")

CheckProfiles ==
    /\ pc = "profiles"
    /\ \A p \in DOMAIN profiles : profiles[p] # NilMap /\ Valid(profiles[p])
    /\ pc' = "devices"
    /\ profiles' = [p \in DOMAIN profiles |-> WithResource(profiles[p])]
    /\ UNCHANGED <<commandLine, features, devices, built>>

RejectProfiles ==
    /\ pc = "profiles"
    /\ \E p \in DOMAIN profiles : ~Valid(profiles[p])
    /\ pc' = "exit"
    /\ UNCHANGED <<commandLine, cfg, built>>

NilProfile ==
    /\ pc = "profiles"
    /\ \E p \in DOMAIN profiles : profiles[p] = NilMap
    /\ pc' = "crashed"
    /\ UNCHANGED <<commandLine, cfg, built>>

\* The devices, and fix.
CheckDevices ==
    /\ pc = "devices"
    /\ \A i \in DOMAIN devices : ValidDevice(devices[i])
    /\ pc' = "loaded"
    /\ features' = Fixed(features)
    /\ profiles' = [p \in DOMAIN profiles |-> Fixed(profiles[p])]
    /\ UNCHANGED <<commandLine, devices, built>>

RejectDevices ==
    /\ pc = "devices"
    /\ \E i \in DOMAIN devices : ~ValidDevice(devices[i])
    /\ pc' = "exit"
    /\ UNCHANGED <<commandLine, cfg, built>>

\* updateConfigFromFlags: a -with flag replaces the default conf of its feature.
ApplyFlags ==
    /\ pc = "loaded"
    /\ pc' = "configured"
    /\ features' = Put(features, flags, "on")
    /\ UNCHANGED <<commandLine, profiles, devices, built>>

\* DeviceFeatures: by name, the first device that has it.
Named(name) == {i \in DOMAIN devices : devices[i].name = name}
First(name) == CHOOSE i \in Named(name) : \A j \in Named(name) : i <= j
DeviceFeatures(name) ==
    LET d == devices[First(name)] IN IF d.profile = "" THEN features ELSE profiles[d.profile]

AllEnabledDefault == FeatureNames(features)  \* mutant: the profiles are forgotten
AllEnabledFeatures ==
    UNION { FeatureNames(IF devices[i].profile = "" THEN features
                         ELSE DeviceFeatures(devices[i].name)) : i \in DOMAIN devices }

\* NewCollector: one instance per known feature, none for the others, and for each device
\* the collectors its features name.
NewCollector ==
    /\ pc = "configured"
    /\ pc' = "built"
    /\ instances' = AllEnabledFeatures \cap Known
    /\ collectors' = [i \in DOMAIN devices |-> FeatureNames(DeviceFeatures(devices[i].name))]
    /\ UNCHANGED <<commandLine, cfg>>

Next ==
    \/ ReadFile \/ ReadFlags \/ MissingParam
    \/ CheckFeatures \/ RejectFeatures
    \/ CheckProfiles \/ RejectProfiles \/ NilProfile
    \/ CheckDevices \/ RejectDevices
    \/ ApplyFlags \/ NewCollector

Spec == Init /\ [][Next]_vars

----------------------------------------------------------------------------
\* The exporter starts with a file exactly if it names known features and its enabled
\* devices are complete; what is disabled is not looked at.  A panic needs a nil profile.
Sound(f) ==
    /\ Valid(f.features) /\ \A p \in DOMAIN f.profiles : Valid(f.profiles[p])
    /\ \A i \in DOMAIN f.devices :
           LET d == f.devices[i] IN
           \/ d.disabled
           \/ /\ d.complete /\ (d.srv \/ d.name # "")
              /\ d.profile = "" \/ d.profile \in DOMAIN f.profiles
ChecksDecide ==
    file # NoFile =>
        /\ pc = "exit" => ~Sound(file)
        /\ pc \in {"loaded", "configured", "built"} => Sound(file)
        /\ pc = "crashed" => \E p \in DOMAIN file.profiles : file.profiles[p] = NilMap

\* Where names are unique, each device runs what the file says of it: the features of its
\* profile, or the default ones and those of the flags, that are not disabled, and
\* "resource" in any case.
Active == {i \in DOMAIN file.devices : ~file.devices[i].disabled}
NotOff(f) == {n \in DOMAIN Entries(f) : Entries(f)[n] # "off"}
Unique == \A i, j \in DOMAIN devices : devices[i].name = devices[j].name => i = j
OwnFeatures ==
    pc = "built" /\ file # NoFile /\ Unique =>
        /\ DOMAIN collectors = Active
        /\ \A i \in Active :
               LET p == file.devices[i].profile IN
               collectors[i] = {"resource"} \cup IF p = "" THEN NotOff(file.features) \cup flags
                                                 ELSE NotOff(file.profiles[p])

\* A collector of a device has an instance exactly if its feature is registered, also
\* where devices share a name and one gets the profile of the other.
InstancesComplete ==
    pc = "built" => \A i \in DOMAIN devices :
        \A n \in collectors[i] : n \in instances <=> n \in Known

----------------------------------------------------------------------------
\* A claim of the source that the code does not keep.

\* "do not panic on unknown collectors; show error and ignore" (ChangeLog:91): a device is
\* given no collector that has no instance; Collect on one would panic.
UnknownIgnored ==
    pc = "built" => \A i \in DOMAIN devices : collectors[i] \subseteq instances

=============================================================================
