------------------------ MODULE WalletConfigProofs ------------------------
(***************************************************************************)
(* What the devices of one wallet share stays right: who a name belongs    *)
(* to, whose entries are in whose profile, and which applications an       *)
(* upload may not drop.  For every number of devices, calls, applications, *)
(* names, identities, failures and restarts.                               *)
(***************************************************************************)
EXTENDS WalletConfig, TLAPS

----------------------------------------------------------------------------
(* The invariant.  It follows the three kinds of shared data through every  *)
(* copy there is of them: the file, what a device has in memory, and what a *)
(* call that has not ended is about to write.                               *)

Pending(c) == call[c].phase \notin {"idle", "done"}

IdSeq == {s \in Seq(Identity) : Len(s) <= MaxIdentities + 1}
ConfigSeq == {s \in Seq(IdentityConfig) : Len(s) <= MaxIdentities + 1}
ConfigRecord == [ids : ConfigSeq, hide : BOOLEAN]
Configs == {NoConfig} \cup ConfigRecord
Profiles == {NoProfile, Default} \cup Profile

DeviceRecord ==
    [open : BOOLEAN, ids : IdSeq, config : Configs, default : Profile,
     known : SUBSET (Nat \X Apps), refetched : BOOLEAN,
     shared : SUBSET (Apps \X Indices)]

CallRecord ==
    [kind : Kinds, phase : Phases, dev : Devices, pos : Nat, app : Apps,
     name : Names \cup {NoName}, index : Indices, found : IdSeq, publish : BOOLEAN,
     fallback : BOOLEAN, snapshot : Configs, data : Profiles,
     known : SUBSET (Nat \X Apps), read : Profile]

\* TypeOK, with the wallets and calls as sets of records, and the bound on the
\* length of a wallet.
Typed ==
    /\ config \in Configs
    /\ profile \in [Indices -> {NoProfile} \cup Profile]
    /\ owner \in [Names -> Indices \cup {-1}]
    /\ dev \in [Devices -> DeviceRecord]
    /\ call \in [Calls -> CallRecord]
    /\ mishaps \in [failures : 0..MaxFailures, restarts : 0..MaxRestarts,
                    doubled : BOOLEAN]

\* Names: the k-th identity, in a wallet or a config, is the one with index
\* k - 1, unless an identity was made twice.
NamedRight(ids) == \A k \in DOMAIN ids : ids[k].index = k - 1 /\ Owned(ids[k].name, k - 1)
ConfigNamed(cfg) == cfg # NoConfig => \A k \in DOMAIN cfg.ids : Owned(cfg.ids[k].name, k - 1)

\* Profiles: an entry of another identity has been in a default profile.
Own(p, i) == p \notin {NoProfile, Default} => \A e \in Entries(p) : e[2] # i => e \in Shared
AllOwn(ids) == \A k \in DOMAIN ids : Own(ids[k].profile, ids[k].index)

DeviceInv(d) ==
    /\ ~mishaps.doubled => NamedRight(dev[d].ids) /\ ConfigNamed(dev[d].config)
    /\ AllOwn(dev[d].ids)
    /\ Entries(dev[d].default) \subseteq dev[d].shared
    /\ dev[d].refetched \/ dev[d].known \subseteq AppEntries(dev[d].config)

\* A restore has its wallet to itself; what it has found is in order.
Restoring(c) ==
    /\ Pending(c) /\ call[c].kind = "restore" =>
        /\ ~Device(c).open
        /\ \A b \in Calls \ {c} : Pending(b) => call[b].dev # call[c].dev
    /\ At(c, "restore", "fetch") => Device(c).ids = <<MakeIdentity(0)>>
    /\ At(c, "restore", "refresh") => call[c].found # <<>>
    /\ NamedRight(call[c].found) /\ AllOwn(call[c].found)

\* The identity a call is for is where it was when the call began.
Positioned(c) ==
    /\ Pending(c) /\ call[c].kind \in {"respond", "register", "refresh"} =>
        call[c].pos \in DOMAIN Device(c).ids
    /\ Pending(c) /\ call[c].kind \in {"respond", "register"} =>
        Device(c).ids[call[c].pos].index = call[c].index
    /\ Pending(c) /\ call[c].kind = "register" => call[c].name \in Names

\* What an upload writes is right and drops nothing.
Uploads(c) ==
    /\ mishaps.doubled \/ ConfigNamed(call[c].snapshot)
    /\ Own(call[c].data, call[c].index)
    /\ call[c].phase = "publish" => call[c].kind \in {"respond", "register"}
    /\ call[c].phase = "publish" => call[c].data \in Profile
    /\ At(c, "respond", "publish") =>
        Replaces(call[c].read, call[c].data, call[c].app, call[c].index)
    /\ call[c].phase = "upload" =>
        /\ call[c].snapshot # NoConfig
        /\ Device(c).refetched \/ call[c].known \subseteq AppEntries(call[c].snapshot)

CallInv(c) == Restoring(c) /\ Positioned(c) /\ Uploads(c)

FilesInv ==
    /\ mishaps.doubled \/ ConfigNamed(config)
    /\ \A i \in Indices : Own(profile[i], i)

Consistent ==
    /\ Typed
    /\ FilesInv
    /\ \A d \in Devices : DeviceInv(d)
    /\ \A c \in Calls : CallInv(c)

----------------------------------------------------------------------------
(* Types. *)

\* The bounds, as numbers.
LEMMA Bounds ==
    /\ MaxIdentities \in Nat /\ MaxIdentities >= 1 /\ Indices \subseteq Nat
    /\ \A i \in Int : i \in Indices <=> 0 <= i /\ i <= MaxIdentities
    /\ 0 \in Indices /\ NoName \notin Names /\ NoProfile # Default
    /\ EmptyProfile \in Profile /\ Entries(EmptyProfile) = {}
    /\ \A p \in Profile : p \notin {NoProfile, Default}
  BY WalletAssumption DEF Indices, Profile, EmptyProfile, Entries, NoEntry

\* The entry of an application is replaced.
LEMMA EntryReplaced ==
    ASSUME NEW p \in Profile, NEW app \in Apps, NEW index \in Indices
    PROVE  /\ [p EXCEPT ![app] = index] \in Profile
           /\ Entries([p EXCEPT ![app] = index]) \subseteq Entries(p) \cup {<<app, index>>}
           /\ Replaces(p, [p EXCEPT ![app] = index], app, index)
  BY DEF Profile, Entries, Replaces

\* NoConfig is no config.
LEMMA NoConfigIsNone ==
    ASSUME NEW cfg \in ConfigRecord
    PROVE  cfg # NoConfig
  BY WalletAssumption DEF ConfigRecord, ConfigSeq, Config

\* A new call is a call; it holds nothing.
LEMMA NewCallTyped ==
    /\ NewCall \in CallRecord
    /\ NewCall.kind = "none" /\ NewCall.phase = "idle" /\ NewCall.found = <<>>
    /\ NewCall.snapshot = NoConfig /\ NewCall.data = NoProfile
  BY Bounds, WalletAssumption DEF NewCall, CallRecord, Kinds, Phases, IdSeq, Configs, Profiles

\* A process that has just started is a device.
LEMMA ClosedTyped == Closed \in DeviceRecord
  BY Bounds DEF Closed, DeviceRecord, IdSeq, Configs

\* How a call begins.
LEMMA BeginTyped ==
    ASSUME NEW c, NEW kind \in Kinds, NEW d \in Devices, NEW phase \in Phases
    PROVE  /\ Begin(c, kind, d, phase) \in CallRecord
           /\ Begin(c, kind, d, phase).kind = kind /\ Begin(c, kind, d, phase).phase = phase
           /\ Begin(c, kind, d, phase).dev = d /\ Begin(c, kind, d, phase).found = <<>>
           /\ Begin(c, kind, d, phase).snapshot = NoConfig
           /\ Begin(c, kind, d, phase).data = NoProfile
  BY NewCallTyped DEF Begin, CallRecord

\* What is left of a call.
LEMMA DoneTyped ==
    ASSUME Typed, NEW c \in Calls
    PROVE  /\ Done(c) \in CallRecord /\ Done(c).phase = "done" /\ Done(c).found = <<>>
           /\ Done(c).kind = call[c].kind /\ Done(c).dev = call[c].dev
           /\ Done(c).snapshot = NoConfig /\ Done(c).data = NoProfile
  <1>1. call[c].kind \in Kinds /\ call[c].dev \in Devices
    BY DEF Typed, CallRecord
  <1>2. QED
    BY <1>1, NewCallTyped DEF Done, CallRecord, Phases

\* The parts of a device.
LEMMA DeviceParts ==
    ASSUME Typed, NEW d \in Devices
    PROVE  /\ dev[d] \in DeviceRecord /\ dev[d].open \in BOOLEAN /\ dev[d].ids \in IdSeq
           /\ dev[d].config \in Configs /\ dev[d].default \in Profile
           /\ dev[d].known \in SUBSET (Nat \X Apps) /\ dev[d].refetched \in BOOLEAN
           /\ dev[d].shared \in SUBSET (Apps \X Indices)
  BY DEF Typed, DeviceRecord

\* The parts of a call.
LEMMA CallParts ==
    ASSUME Typed, NEW c \in Calls
    PROVE  /\ call[c] \in CallRecord /\ call[c].dev \in Devices /\ call[c].pos \in Nat
           /\ call[c].app \in Apps /\ call[c].name \in Names \cup {NoName}
           /\ call[c].index \in Indices /\ call[c].found \in IdSeq
           /\ call[c].snapshot \in Configs /\ call[c].data \in Profiles
           /\ call[c].read \in Profile /\ Device(c) = dev[call[c].dev]
           /\ call[c].phase \in Phases /\ call[c].kind \in Kinds
  BY DEF Typed, CallRecord, Device

\* A wallet or config as a sequence.
LEMMA SeqParts ==
    /\ \A s \in IdSeq : /\ s \in Seq(Identity) /\ Len(s) \in Nat /\ Len(s) <= MaxIdentities + 1
                        /\ DOMAIN s = 1..Len(s) /\ \A k \in DOMAIN s : s[k] \in Identity
    /\ \A s \in ConfigSeq : /\ s \in Seq(IdentityConfig) /\ Len(s) \in Nat
                            /\ Len(s) <= MaxIdentities + 1 /\ DOMAIN s = 1..Len(s)
                            /\ \A k \in DOMAIN s : s[k] \in IdentityConfig
  BY Bounds DEF IdSeq, ConfigSeq

----------------------------------------------------------------------------
(* What a step leaves as it was. *)

\* Names are never unregistered, entries never un-shared.
Grows ==
    /\ \A n \in Names : owner[n] # -1 => owner'[n] = owner[n]
    /\ Shared \subseteq Shared'
    /\ mishaps.doubled => mishaps'.doubled

\* The calls of a device find its identities where they were.
Extends(d) ==
    /\ DOMAIN dev[d].ids \subseteq DOMAIN dev'[d].ids
    /\ \A k \in DOMAIN dev[d].ids : dev'[d].ids[k].index = dev[d].ids[k].index
    /\ dev[d].refetched => dev'[d].refetched

\* A name that is owned stays owned.
LEMMA OwnedStays ==
    ASSUME Grows, NEW name \in Names \cup {NoName}, NEW i \in Nat, Owned(name, i)
    PROVE  Owned(name, i)'
  BY Bounds DEF Grows, Owned

\* Entries that may be in a profile may stay there.
LEMMA OwnStays ==
    ASSUME Grows, NEW p, NEW i, Own(p, i)
    PROVE  Own(p, i)'
  BY DEF Grows, Own

\* The identities of a wallet stay right.
LEMMA NamedStays ==
    ASSUME Grows, NEW ids \in IdSeq, NamedRight(ids)
    PROVE  NamedRight(ids)'
  <1>1. ASSUME NEW k \in DOMAIN ids PROVE ids[k].index = k - 1 /\ Owned(ids[k].name, k - 1)'
    <2>1. ids[k].name \in Names \cup {NoName} /\ k - 1 \in Nat
      BY SeqParts DEF Identity
    <2>2. ids[k].index = k - 1 /\ Owned(ids[k].name, k - 1)
      BY DEF NamedRight
    <2>3. QED
      BY <2>1, <2>2, OwnedStays
  <1>2. QED
    BY <1>1 DEF NamedRight, Owned

\* So do their profiles.
LEMMA AllOwnStays ==
    ASSUME Grows, NEW ids \in IdSeq, AllOwn(ids)
    PROVE  AllOwn(ids)'
  BY DEF Grows, AllOwn, Own

\* A config stays right.
LEMMA ConfigStays ==
    ASSUME Grows, NEW cfg \in Configs, ConfigNamed(cfg)
    PROVE  ConfigNamed(cfg)'
  <1>1. SUFFICES ASSUME cfg # NoConfig, NEW k \in DOMAIN cfg.ids
                 PROVE  Owned(cfg.ids[k].name, k - 1)'
    BY DEF ConfigNamed, Owned
  <1>2. cfg.ids \in ConfigSeq
    BY <1>1 DEF Configs, ConfigRecord
  <1>3. cfg.ids[k].name \in Names \cup {NoName} /\ k - 1 \in Nat
    BY <1>2, SeqParts DEF IdentityConfig
  <1>4. Owned(cfg.ids[k].name, k - 1)
    BY <1>1 DEF ConfigNamed
  <1>5. QED
    BY <1>3, <1>4, OwnedStays

\* A device nothing happens to stays right.
LEMMA DeviceStays ==
    ASSUME Typed, Grows, NEW d \in Devices, DeviceInv(d), dev'[d] = dev[d]
    PROVE  DeviceInv(d)'
  <1>1. PICK ids \in IdSeq : ids = dev[d].ids
    BY DeviceParts
  <1>2. PICK cfg \in Configs : cfg = dev[d].config
    BY DeviceParts
  <1>3. ~mishaps'.doubled => ~mishaps.doubled
    BY DEF Grows
  <1>4. (~mishaps.doubled => NamedRight(ids) /\ ConfigNamed(cfg)) /\ AllOwn(ids)
    BY <1>1, <1>2 DEF DeviceInv
  <1>5. ~mishaps'.doubled => NamedRight(ids)' /\ ConfigNamed(cfg)'
    BY <1>1, <1>3, <1>4, NamedStays, ConfigStays
  <1>6. AllOwn(ids)'
    BY <1>1, <1>4, AllOwnStays
  <1>7. QED
    BY <1>1, <1>2, <1>5, <1>6 DEF DeviceInv

\* Shared files nobody writes to stay right.
LEMMA FilesStay ==
    ASSUME Typed, Grows, FilesInv, UNCHANGED <<config, profile>>
    PROVE  FilesInv'
  <1>1. ~mishaps'.doubled => ~mishaps.doubled
    BY DEF Grows
  <1>2. PICK cfg \in Configs : cfg = config
    BY DEF Typed
  <1>3. ~mishaps.doubled => ConfigNamed(cfg)
    BY <1>2 DEF FilesInv
  <1>5. ~mishaps'.doubled => ConfigNamed(cfg)'
    BY <1>1, <1>3, ConfigStays
  <1>6. \A i \in Indices : Own(profile[i], i)'
    BY DEF FilesInv, Own, Grows
  <1>7. QED
    BY <1>2, <1>5, <1>6 DEF FilesInv

\* A call that takes no part in a step stays right, when its device lets the
\* identities where they were, and leaves a restore alone.
LEMMA CallStays ==
    ASSUME Typed, Grows, NEW c \in Calls, CallInv(c), call'[c] = call[c],
           Pending(c) => Extends(call[c].dev),
           Pending(c) /\ call[c].kind = "restore" =>
                /\ dev'[call[c].dev] = dev[call[c].dev]
                /\ \A b \in Calls \ {c} : Pending(b)' => call'[b].dev # call[c].dev
    PROVE  CallInv(c)'
  <1>1. PICK found \in IdSeq : found = call[c].found
    BY CallParts
  <1>2. PICK cfg \in Configs : cfg = call[c].snapshot
    BY CallParts
  <1>3. /\ Pending(c)' <=> Pending(c)
        /\ Device(c)' = dev'[call[c].dev] /\ Device(c) = dev[call[c].dev]
        /\ \A k, p : At(c, k, p)' <=> At(c, k, p)
    BY DEF Pending, Device, At
  <1>4. ~mishaps'.doubled => ~mishaps.doubled
    BY DEF Grows
  <1>5. Restoring(c)'
    <2>1. NamedRight(found) /\ AllOwn(found)
      BY <1>1 DEF CallInv, Restoring
    <2>2. NamedRight(found)' /\ AllOwn(found)'
      BY <2>1, NamedStays, AllOwnStays
    <2>3. NamedRight(call[c].found)' /\ AllOwn(call[c].found)'
      BY <1>1, <2>2
    <2>4. Pending(c) /\ call[c].kind = "restore" =>
            /\ ~(Device(c)').open
            /\ \A b \in Calls \ {c} : Pending(b)' => call'[b].dev # call'[c].dev
      BY <1>3 DEF CallInv, Restoring
    <2>5. At(c, "restore", "fetch") => (Device(c)').ids = <<MakeIdentity(0)>>
      BY <1>3 DEF CallInv, Restoring, At, Pending
    <2>6. At(c, "restore", "refresh") => call'[c].found # <<>>
      BY DEF CallInv, Restoring
    <2>7. MakeIdentity(0)' = MakeIdentity(0)
      BY DEF MakeIdentity
    <2>8. QED
      BY <1>3, <2>3, <2>4, <2>5, <2>6, <2>7 DEF Restoring, MakeIdentity
  <1>6. Positioned(c)'
    <2>1. Positioned(c)
      BY DEF CallInv
    <2>2. Pending(c) => /\ DOMAIN Device(c).ids \subseteq DOMAIN (Device(c)').ids
                        /\ \A k \in DOMAIN Device(c).ids :
                            (Device(c)').ids[k].index = Device(c).ids[k].index
      BY <1>3 DEF Extends
    <2>3. QED
      BY <1>3, <2>1, <2>2 DEF Positioned
  <1>7. Uploads(c)'
    <2>1. ~mishaps'.doubled => ConfigNamed(cfg)'
      BY <1>2, <1>4, ConfigStays DEF CallInv, Uploads
    <2>2. Own(call[c].data, call[c].index)'
      BY DEF Grows, Own, CallInv, Uploads
    <2>3. call[c].phase = "upload" /\ Device(c).refetched => (Device(c)').refetched
      BY <1>3 DEF Extends, Pending
    <2>4. call[c].phase = "upload" =>
            /\ call[c].snapshot # NoConfig
            /\ (Device(c)').refetched \/ call[c].known \subseteq AppEntries(cfg)
      BY <1>2, <2>3 DEF CallInv, Uploads
    <2>5. QED
      BY <1>2, <1>3, <2>1, <2>2, <2>4 DEF CallInv, Uploads, AppEntries
  <1>8. QED
    BY <1>5, <1>6, <1>7 DEF CallInv

\* A step of one call on one device: what has to be shown of it.
LEMMA Composed ==
    ASSUME Consistent, Typed', Grows, FilesInv', NEW b \in Calls, NEW d \in Devices,
           \A c \in Calls \ {b} : call'[c] = call[c],
           \A e \in Devices \ {d} : dev'[e] = dev[e],
           \/ Pending(b) /\ call[b].dev = d
           \/ dev[d].open
           \/ ~Busy(d),
           Pending(b)' => call'[b].dev = d,
           \/ Extends(d)
           \/ \A c \in Calls \ {b} : Pending(c) => call[c].dev # d,
           DeviceInv(d)', CallInv(b)'
    PROVE  Consistent'
  <1>1. Typed
    BY DEF Consistent
  <1>2. ASSUME NEW e \in Devices PROVE DeviceInv(e)'
    <2>1. CASE e = d
      BY <2>1
    <2>2. CASE e # d
      BY <1>1, <2>2, DeviceStays DEF Consistent
    <2>3. QED
      BY <2>1, <2>2
  <1>3. ASSUME NEW c \in Calls PROVE CallInv(c)'
    <2>1. CASE c = b
      BY <2>1
    <2>2. CASE c # b
      <3>1. CallInv(c) /\ call[c].dev \in Devices /\ call'[c] = call[c]
        BY <1>1, <2>2, CallParts DEF Consistent
      <3>2. Pending(c) => Extends(call[c].dev)
        BY <2>2, <3>1 DEF Extends
      <3>3. ASSUME Pending(c), call[c].kind = "restore"
            PROVE  call[c].dev # d
        <4>1. /\ ~dev[call[c].dev].open
              /\ \A a \in Calls \ {c} : Pending(a) => call[a].dev # call[c].dev
          BY <3>1, <3>3 DEF CallInv, Restoring, Device
        <4>2. Busy(call[c].dev)
          BY <3>3 DEF Busy, Pending
        <4>3. QED
          BY <2>2, <4>1, <4>2
      <3>4. ASSUME Pending(c), call[c].kind = "restore"
            PROVE  /\ dev'[call[c].dev] = dev[call[c].dev]
                   /\ \A a \in Calls \ {c} : Pending(a)' => call'[a].dev # call[c].dev
        <4>1. \A a \in Calls \ {c} : Pending(a) => call[a].dev # call[c].dev
          BY <3>1, <3>4 DEF CallInv, Restoring
        <4>2. ASSUME NEW a \in Calls \ {c}, Pending(a)' PROVE call'[a].dev # call[c].dev
          <5>1. CASE a = b
            BY <3>3, <3>4, <4>2, <5>1
          <5>2. CASE a # b
            BY <4>1, <4>2, <5>2 DEF Pending
          <5>3. QED
            BY <5>1, <5>2
        <4>3. QED
          BY <3>1, <3>3, <3>4, <4>2
      <3>5. QED
        BY <1>1, <3>1, <3>2, <3>4, CallStays DEF Consistent
    <2>3. QED
      BY <2>1, <2>2
  <1>4. QED
    BY <1>2, <1>3 DEF Consistent

\* A step changes one call.
LEMMA OneCall ==
    ASSUME Typed, NEW b \in Calls, NEW r \in CallRecord, call' = [call EXCEPT ![b] = r]
    PROVE  /\ call' \in [Calls -> CallRecord] /\ call'[b] = r
           /\ \A c \in Calls \ {b} : call'[c] = call[c]
  BY DEF Typed

\* A step changes one device.
LEMMA OneDevice ==
    ASSUME Typed, NEW d \in Devices, NEW r \in DeviceRecord, dev' = [dev EXCEPT ![d] = r],
           dev[d].shared \subseteq r.shared
    PROVE  /\ dev' \in [Devices -> DeviceRecord] /\ dev'[d] = r
           /\ \A e \in Devices \ {d} : dev'[e] = dev[e]
           /\ Shared \subseteq Shared'
  <1>1. /\ dev' \in [Devices -> DeviceRecord] /\ dev'[d] = r
        /\ \A e \in Devices \ {d} : dev'[e] = dev[e]
    BY DEF Typed
  <1>2. \A e \in Devices : dev[e].shared \subseteq dev'[e].shared
    BY <1>1
  <1>3. QED
    BY <1>1, <1>2 DEF Shared

\* A request fails, and nothing else happens to the history.
LEMMA FailsTyped ==
    ASSUME Typed, Fails
    PROVE  /\ mishaps' \in [failures : 0..MaxFailures, restarts : 0..MaxRestarts,
                            doubled : BOOLEAN]
           /\ mishaps'.doubled = mishaps.doubled
  BY WalletAssumption DEF Typed, Fails

\* A call that is over has nothing to write.
LEMMA EndedCall ==
    ASSUME NEW b \in Calls, call'[b].phase \in {"idle", "done"}, call'[b].found = <<>>,
           call'[b].snapshot = NoConfig, call'[b].data = NoProfile
    PROVE  CallInv(b)'
  <1>1. Restoring(b)'
    BY DEF Restoring, Pending, At, NamedRight, AllOwn
  <1>2. Positioned(b)'
    BY DEF Positioned, Pending
  <1>3. Uploads(b)'
    BY DEF Uploads, At, ConfigNamed, Own
  <1>4. QED
    BY <1>1, <1>2, <1>3 DEF CallInv

\* It is so for a call that returns, and for a slot that is given back.
LEMMA Finished ==
    ASSUME Typed, NEW b \in Calls, Finish(b) \/ Free(b)
    PROVE  /\ call' \in [Calls -> CallRecord] /\ CallInv(b)' /\ ~Pending(b)'
           /\ \A c \in Calls \ {b} : call'[c] = call[c]
  <1>1. CASE Finish(b)
    <2>1. PICK r \in CallRecord : r = Done(b)
      BY DoneTyped
    <2>2. call' = [call EXCEPT ![b] = r]
      BY <1>1, <2>1 DEF Finish
    <2>3. /\ r.phase = "done" /\ r.found = <<>> /\ r.snapshot = NoConfig
          /\ r.data = NoProfile
      BY <2>1, DoneTyped
    <2>4. /\ call' \in [Calls -> CallRecord] /\ call'[b] = r
          /\ \A c \in Calls \ {b} : call'[c] = call[c]
      BY <2>2, OneCall
    <2>5. QED
      BY <2>3, <2>4, EndedCall DEF Pending
  <1>2. CASE Free(b)
    <2>1. PICK r \in CallRecord : r = NewCall
      BY NewCallTyped
    <2>2. call' = [call EXCEPT ![b] = r]
      BY <1>2, <2>1 DEF Free
    <2>3. /\ r.phase = "idle" /\ r.found = <<>> /\ r.snapshot = NoConfig
          /\ r.data = NoProfile
      BY <2>1, NewCallTyped
    <2>4. /\ call' \in [Calls -> CallRecord] /\ call'[b] = r
          /\ \A c \in Calls \ {b} : call'[c] = call[c]
      BY <2>2, OneCall
    <2>5. QED
      BY <2>3, <2>4, EndedCall DEF Pending
  <1>3. QED
    BY <1>1, <1>2

\* A step that leaves the devices as they are: what is left to show of it.
LEMMA Elsewhere ==
    ASSUME Consistent, Typed', Grows, FilesInv', UNCHANGED dev, NEW b \in Calls,
           \A c \in Calls \ {b} : call'[c] = call[c],
           Pending(b) \/ dev[call'[b].dev].open, call'[b].dev \in Devices,
           Pending(b)' /\ Pending(b) => call'[b].dev = call[b].dev,
           CallInv(b)'
    PROVE  Consistent'
  <1>1. PICK d \in Devices : d = IF Pending(b)' THEN call'[b].dev
                                 ELSE IF Pending(b) THEN call[b].dev ELSE call'[b].dev
    BY CallParts DEF Consistent
  <1>2. Extends(d) /\ DeviceInv(d)'
    BY DeviceStays DEF Extends, Consistent
  <1>3. (Pending(b) /\ call[b].dev = d) \/ dev[d].open
    BY <1>1
  <1>4. QED
    BY <1>1, <1>2, <1>3, Composed

\* A call ends and leaves the devices as they are.
LEMMA JustEnds ==
    ASSUME Consistent, NEW c \in Calls, Pending(c), Finish(c), Grows, FilesInv',
           UNCHANGED dev, config' \in Configs, profile' \in [Indices -> {NoProfile} \cup Profile],
           owner' \in [Names -> Indices \cup {-1}],
           mishaps' \in [failures : 0..MaxFailures, restarts : 0..MaxRestarts,
                         doubled : BOOLEAN]
    PROVE  Consistent'
  <1>1. Typed
    BY DEF Consistent
  <1>2. /\ call' \in [Calls -> CallRecord] /\ CallInv(c)' /\ ~Pending(c)'
        /\ \A b \in Calls \ {c} : call'[b] = call[b]
    BY <1>1, Finished
  <1>3. Typed'
    BY <1>1, <1>2 DEF Typed
  <1>4. call'[c].dev \in Devices
    BY <1>2 DEF CallRecord
  <1>5. QED
    BY <1>2, <1>3, <1>4, Elsewhere

----------------------------------------------------------------------------
(* The steps: calls that end without a change to a device. *)

\* Without a change to what is known of names and entries.
LEMMA NothingGrows ==
    ASSUME UNCHANGED <<owner, dev>>, mishaps'.doubled = mishaps.doubled
    PROVE  Grows
  BY DEF Grows, Shared

\* An upload of the config fails.
LEMMA UploadFailsKeeps ==
    ASSUME Consistent, NEW c \in Calls, UploadFails(c)
    PROVE  Consistent'
  <1>1. Typed /\ FilesInv
    BY DEF Consistent
  <1>2. Fails /\ Finish(c) /\ Pending(c) /\ UNCHANGED <<config, profile, owner, dev>>
    BY DEF UploadFails, Pending
  <1>3. Grows /\ FilesInv'
    BY <1>1, <1>2, FailsTyped, NothingGrows, FilesStay
  <1>4. QED
    BY <1>1, <1>2, <1>3, FailsTyped, JustEnds DEF Typed

\* The hub cannot be reached for an auth response.
LEMMA RespondFailsKeeps ==
    ASSUME Consistent, NEW c \in Calls, RespondFails(c)
    PROVE  Consistent'
  <1>1. Typed /\ FilesInv
    BY DEF Consistent
  <1>2. Fails /\ Finish(c) /\ Pending(c) /\ UNCHANGED <<config, profile, owner, dev>>
    BY DEF RespondFails, At, Pending
  <1>3. Grows /\ FilesInv'
    BY <1>1, <1>2, FailsTyped, NothingGrows, FilesStay
  <1>4. QED
    BY <1>1, <1>2, <1>3, FailsTyped, JustEnds DEF Typed

\* An upload of a profile gets no answer.
LEMMA PublishFailsKeeps ==
    ASSUME Consistent, NEW c \in Calls, PublishFails(c)
    PROVE  Consistent'
  <1>1. Typed /\ FilesInv
    BY DEF Consistent
  <1>2. Fails /\ Finish(c) /\ Pending(c) /\ UNCHANGED <<config, profile, owner, dev>>
    BY DEF PublishFails, Pending
  <1>3. Grows /\ FilesInv'
    BY <1>1, <1>2, FailsTyped, NothingGrows, FilesStay
  <1>4. QED
    BY <1>1, <1>2, <1>3, FailsTyped, JustEnds DEF Typed

\* The registrar refuses a name, or cannot be reached.
LEMMA RegisterRefusedKeeps ==
    ASSUME Consistent, NEW c \in Calls, RegisterRefused(c)
    PROVE  Consistent'
  <1>1. Typed /\ FilesInv
    BY DEF Consistent
  <1>2. /\ Fails \/ UNCHANGED mishaps
        /\ Finish(c) /\ Pending(c) /\ UNCHANGED <<config, profile, owner, dev>>
    BY DEF RegisterRefused, At, Pending
  <1>3. /\ mishaps' \in [failures : 0..MaxFailures, restarts : 0..MaxRestarts,
                         doubled : BOOLEAN]
        /\ mishaps'.doubled = mishaps.doubled
    BY <1>1, <1>2, FailsTyped DEF Typed
  <1>4. Grows /\ FilesInv'
    BY <1>1, <1>2, <1>3, NothingGrows, FilesStay
  <1>5. QED
    BY <1>1, <1>2, <1>3, <1>4, JustEnds DEF Typed

\* A name is registered to the identity the call is for.
LEMMA NameTaken ==
    ASSUME Consistent, NEW c \in Calls, At(c, "register", "register"),
           owner[call[c].name] = -1, owner' = [owner EXCEPT ![call[c].name] = call[c].index]
    PROVE  /\ call[c].name \in Names /\ owner' \in [Names -> Indices \cup {-1}]
           /\ owner'[call[c].name] = call[c].index
           /\ \A n \in Names : owner[n] # -1 => owner'[n] = owner[n]
  <1>1. Typed /\ Positioned(c) /\ Pending(c)
    BY DEF Consistent, CallInv, At, Pending
  <1>2. call[c].name \in Names /\ call[c].index \in Indices
    BY <1>1, CallParts DEF Positioned, At
  <1>3. QED
    BY <1>1, <1>2 DEF Typed

\* The registrar registers a name, its answer is lost.
LEMMA RegisterAnswerLostKeeps ==
    ASSUME Consistent, NEW c \in Calls, RegisterAnswerLost(c)
    PROVE  Consistent'
  <1>1. Typed /\ FilesInv
    BY DEF Consistent
  <1>2. Fails /\ Finish(c) /\ Pending(c) /\ UNCHANGED <<config, profile, dev>>
    BY DEF RegisterAnswerLost, At, Pending
  <1>3. /\ owner' \in [Names -> Indices \cup {-1}]
        /\ \A n \in Names : owner[n] # -1 => owner'[n] = owner[n]
    BY NameTaken DEF RegisterAnswerLost
  <1>4. Grows /\ FilesInv'
    <2>1. Grows
      BY <1>1, <1>2, <1>3, FailsTyped DEF Grows, Shared
    <2>2. QED
      BY <1>1, <1>2, <2>1, FilesStay
  <1>5. QED
    BY <1>1, <1>2, <1>3, <1>4, FailsTyped, JustEnds DEF Typed

\* The config is uploaded as the call had it when it began.
LEMMA ConfigUploadedKeeps ==
    ASSUME Consistent, NEW c \in Calls, ConfigUploaded(c)
    PROVE  Consistent'
  <1>1. Typed /\ FilesInv /\ Uploads(c)
    BY DEF Consistent, CallInv
  <1>2. /\ Finish(c) /\ Pending(c) /\ UNCHANGED <<profile, owner, dev, mishaps>>
        /\ config' = call[c].snapshot
    BY DEF ConfigUploaded, Pending
  <1>3. Grows
    BY <1>2, NothingGrows
  <1>4. PICK cfg \in Configs : cfg = call[c].snapshot
    BY <1>1, CallParts
  <1>5. ~mishaps.doubled => ConfigNamed(cfg)
    BY <1>1, <1>4 DEF Uploads
  <1>6. ~mishaps'.doubled => ConfigNamed(cfg)'
    BY <1>2, <1>3, <1>5, ConfigStays
  <1>7. FilesInv'
    BY <1>1, <1>2, <1>3, <1>4, <1>6 DEF FilesInv, Own, Grows
  <1>8. QED
    BY <1>1, <1>2, <1>3, <1>4, <1>7, JustEnds DEF Typed

----------------------------------------------------------------------------
(* The steps: a call goes on without a change to a device. *)

\* A registration has uploaded the profile, or believes so.
LEMMA ToRegistrar ==
    ASSUME Consistent, NEW c \in Calls, At(c, "register", "publish"),
           call' = [call EXCEPT ![c].phase = "register"],
           UNCHANGED <<config, owner, dev>>, Grows, FilesInv',
           profile' \in [Indices -> {NoProfile} \cup Profile],
           mishaps' \in [failures : 0..MaxFailures, restarts : 0..MaxRestarts,
                         doubled : BOOLEAN]
    PROVE  Consistent'
  <1>1. Typed /\ CallInv(c) /\ Pending(c) /\ call[c].kind = "register"
    BY DEF Consistent, At, Pending
  <1>2. PICK r \in CallRecord : r = [call[c] EXCEPT !.phase = "register"]
    <2>1. call[c] \in CallRecord
      BY <1>1, CallParts
    <2>2. [call[c] EXCEPT !.phase = "register"] \in CallRecord
      BY <2>1 DEF CallRecord, Phases
    <2>3. QED
      BY <2>2
  <1>3. /\ r.phase = "register" /\ r.kind = call[c].kind /\ r.dev = call[c].dev
        /\ r.pos = call[c].pos /\ r.index = call[c].index /\ r.name = call[c].name
        /\ r.found = call[c].found /\ r.snapshot = call[c].snapshot /\ r.data = call[c].data
    BY <1>1, <1>2, CallParts DEF CallRecord
  <1>4. call' = [call EXCEPT ![c] = r]
    BY <1>2
  <1>5. /\ call' \in [Calls -> CallRecord] /\ call'[c] = r
        /\ \A b \in Calls \ {c} : call'[b] = call[b]
    BY <1>1, <1>4, OneCall
  <1>6. Typed'
    BY <1>1, <1>5 DEF Typed
  <1>7. PICK found \in IdSeq : found = call[c].found
    BY <1>1, CallParts
  <1>8. PICK cfg \in Configs : cfg = call[c].snapshot
    BY <1>1, CallParts
  <1>9. CallInv(c)'
    <2>1. NamedRight(found)' /\ AllOwn(found)'
      BY <1>1, <1>7, NamedStays, AllOwnStays DEF CallInv, Restoring
    <2>2. Restoring(c)'
      BY <1>1, <1>3, <1>5, <1>7, <2>1 DEF Restoring, At
    <2>3. Device(c)' = Device(c)
      BY <1>3, <1>5 DEF Device
    <2>4. Positioned(c)'
      BY <1>1, <1>3, <1>5, <2>3 DEF Positioned, CallInv
    <2>5. ~mishaps'.doubled => ConfigNamed(cfg)'
      BY <1>1, <1>8, ConfigStays DEF CallInv, Uploads, Grows
    <2>6. Own(call[c].data, call[c].index)'
      BY <1>1 DEF Grows, Own, CallInv, Uploads
    <2>7. Uploads(c)'
      BY <1>3, <1>5, <1>8, <2>5, <2>6 DEF Uploads, At
    <2>8. QED
      BY <2>2, <2>4, <2>7 DEF CallInv
  <1>10. call[c].dev \in Devices
    BY <1>1, CallParts
  <1>11. QED
    BY <1>1, <1>3, <1>5, <1>6, <1>9, <1>10, Elsewhere

\* The profile a call uploads, in the files.
LEMMA ProfileWritten ==
    ASSUME Consistent, NEW c \in Calls, call[c].phase = "publish", Grows,
           profile' = [profile EXCEPT ![call[c].index] = call[c].data], UNCHANGED config
    PROVE  FilesInv' /\ profile' \in [Indices -> {NoProfile} \cup Profile]
  <1>1. Typed /\ FilesInv /\ Uploads(c)
    BY DEF Consistent, CallInv
  <1>2. call[c].data \in Profile /\ call[c].index \in Indices
        /\ Own(call[c].data, call[c].index)
    BY <1>1, CallParts DEF Uploads
  <1>3. PICK cfg \in Configs : cfg = config
    BY <1>1 DEF Typed
  <1>4. ~mishaps.doubled => ConfigNamed(cfg)
    BY <1>1, <1>3 DEF FilesInv
  <1>5. ~mishaps'.doubled => ConfigNamed(cfg)'
    BY <1>4, ConfigStays DEF Grows
  <1>6. \A i \in Indices : Own(profile[i], i)'
    <2>1. SUFFICES ASSUME NEW i \in Indices PROVE Own(profile[i], i)'
      OBVIOUS
    <2>2. profile'[i] = IF i = call[c].index THEN call[c].data ELSE profile[i]
      BY <1>1 DEF Typed
    <2>3. QED
      BY <1>1, <1>2, <2>2 DEF FilesInv, Own, Grows
  <1>7. QED
    BY <1>1, <1>2, <1>3, <1>5, <1>6 DEF FilesInv, Typed

\* The profile of a registration is uploaded.
LEMMA ProfileForNameKeeps ==
    ASSUME Consistent, NEW c \in Calls, ProfileForName(c)
    PROVE  Consistent'
  <1>1. /\ At(c, "register", "publish")
        /\ call' = [call EXCEPT ![c].phase = "register"]
        /\ profile' = [profile EXCEPT ![call[c].index] = call[c].data]
        /\ UNCHANGED <<config, owner, dev, mishaps>>
    BY DEF ProfileForName
  <1>2. Grows
    BY <1>1, NothingGrows
  <1>3. FilesInv' /\ profile' \in [Indices -> {NoProfile} \cup Profile]
    BY <1>1, <1>2, ProfileWritten DEF At
  <1>4. QED
    BY <1>1, <1>2, <1>3, ToRegistrar DEF Consistent, Typed

\* There is no config, or it cannot be fetched: the identities are looked up.
LEMMA RestoreNoConfigKeeps ==
    ASSUME Consistent, NEW c \in Calls, RestoreNoConfig(c)
    PROVE  Consistent'
  <1>1. /\ Typed /\ FilesInv /\ CallInv(c) /\ Pending(c) /\ call[c].kind = "restore"
        /\ call[c].phase = "fetch"
    BY DEF Consistent, RestoreNoConfig, At, Pending
  <1>2. /\ UNCHANGED mishaps \/ Fails
        /\ UNCHANGED <<config, profile, owner, dev>>
        /\ call' = [call EXCEPT ![c].phase = "refresh", ![c].found = Device(c).ids]
    BY DEF RestoreNoConfig
  <1>3. PICK ids \in IdSeq : ids = Device(c).ids
    BY <1>1, CallParts, DeviceParts
  <1>4. ids = <<MakeIdentity(0)>>
    BY <1>1, <1>3 DEF CallInv, Restoring, At
  <1>5. PICK r \in CallRecord : r = [call[c] EXCEPT !.phase = "refresh", !.found = ids]
    <2>1. call[c] \in CallRecord
      BY <1>1, CallParts
    <2>2. [call[c] EXCEPT !.phase = "refresh", !.found = ids] \in CallRecord
      BY <2>1 DEF CallRecord, Phases
    <2>3. QED
      BY <2>2
  <1>6. /\ r.phase = "refresh" /\ r.kind = "restore" /\ r.dev = call[c].dev
        /\ r.found = ids /\ r.snapshot = call[c].snapshot /\ r.data = call[c].data
        /\ r.index = call[c].index
    BY <1>1, <1>5, CallParts DEF CallRecord
  <1>7. call' = [call EXCEPT ![c] = r]
    BY <1>2, <1>3, <1>5
  <1>8. /\ call' \in [Calls -> CallRecord] /\ call'[c] = r
        /\ \A b \in Calls \ {c} : call'[b] = call[b]
    BY <1>1, <1>7, OneCall
  <1>9. /\ mishaps' \in [failures : 0..MaxFailures, restarts : 0..MaxRestarts,
                         doubled : BOOLEAN]
        /\ mishaps'.doubled = mishaps.doubled
    BY <1>1, <1>2, FailsTyped DEF Typed
  <1>10. Typed'
    BY <1>1, <1>2, <1>8, <1>9 DEF Typed
  <1>11. Grows /\ FilesInv'
    BY <1>1, <1>2, <1>9, NothingGrows, FilesStay
  <1>12. CallInv(c)'
    <2>1. NamedRight(ids)' /\ AllOwn(ids)'
      BY <1>4, Bounds DEF NamedRight, AllOwn, Owned, Own, MakeIdentity
    <2>2. Device(c)' = Device(c)
      BY <1>2, <1>6, <1>8 DEF Device
    <2>3. Restoring(c)'
      <3>1. ~(Device(c)').open
        BY <1>1, <2>2 DEF CallInv, Restoring
      <3>2. \A b \in Calls \ {c} : Pending(b)' => call'[b].dev # call'[c].dev
        BY <1>1, <1>6, <1>8 DEF CallInv, Restoring, Pending
      <3>3. ids # <<>> /\ call'[c].found = ids /\ call'[c].phase = "refresh"
        BY <1>4, <1>6, <1>8
      <3>4. QED
        BY <2>1, <3>1, <3>2, <3>3 DEF Restoring, At
    <2>4. Positioned(c)'
      BY <1>6, <1>8 DEF Positioned
    <2>5. PICK cfg \in Configs : cfg = call[c].snapshot
      BY <1>1, CallParts
    <2>6. ~mishaps'.doubled => ConfigNamed(cfg)'
      BY <1>1, <1>9, <1>11, <2>5, ConfigStays DEF CallInv, Uploads
    <2>7. Own(call[c].data, call[c].index)'
      BY <1>1, <1>6, <1>8, <1>11 DEF Grows, Own, CallInv, Uploads
    <2>8. Uploads(c)'
      BY <1>6, <1>8, <2>5, <2>6, <2>7 DEF Uploads, At
    <2>9. QED
      BY <2>3, <2>4, <2>8 DEF CallInv
  <1>13. call'[c].dev \in Devices /\ call'[c].dev = call[c].dev
    BY <1>1, <1>6, <1>8, CallParts
  <1>14. QED
    BY <1>1, <1>2, <1>8, <1>10, <1>11, <1>12, <1>13, Elsewhere

----------------------------------------------------------------------------
(* The steps: a call begins without a change to a device. *)

\* A call that has begun on an open device, and has nothing to write yet but a
\* profile of the identity it is for.
LEMMA JustBegins ==
    ASSUME Consistent, NEW c \in Calls, NEW d \in Devices, Idle(c, d),
           NEW r \in CallRecord, call' = [call EXCEPT ![c] = r],
           UNCHANGED <<config, profile, owner, dev, mishaps>>,
           r.dev = d, r.kind # "restore", r.phase # "upload",
           r.found = <<>>, r.snapshot = NoConfig, Own(r.data, r.index),
           r.phase = "publish" => r.kind = "register" /\ r.data \in Profile,
           r.kind \in {"respond", "register", "refresh"} => r.pos \in DOMAIN dev[d].ids,
           r.kind \in {"respond", "register"} => dev[d].ids[r.pos].index = r.index,
           r.kind = "register" => r.name \in Names
    PROVE  Consistent'
  <1>1. Typed /\ FilesInv
    BY DEF Consistent
  <1>2. /\ call' \in [Calls -> CallRecord] /\ call'[c] = r
        /\ \A b \in Calls \ {c} : call'[b] = call[b]
    BY <1>1, OneCall
  <1>3. Typed'
    BY <1>1, <1>2 DEF Typed
  <1>4. Grows /\ FilesInv'
    BY <1>1, NothingGrows, FilesStay
  <1>5. CallInv(c)'
    <2>1. Restoring(c)'
      BY <1>2 DEF Restoring, At, NamedRight, AllOwn
    <2>2. Device(c)' = dev[d]
      BY <1>2 DEF Device
    <2>3. Positioned(c)'
      BY <1>2, <2>2 DEF Positioned
    <2>4. Own(r.data, r.index)'
      BY <1>4 DEF Own, Grows
    <2>5. Uploads(c)'
      BY <1>2, <2>4 DEF Uploads, At, ConfigNamed
    <2>6. QED
      BY <2>1, <2>3, <2>5 DEF CallInv
  <1>6. ~Pending(c) /\ dev[call'[c].dev].open /\ call'[c].dev \in Devices
    BY <1>2 DEF Idle, Pending
  <1>7. QED
    BY <1>2, <1>3, <1>4, <1>5, <1>6, Elsewhere

\* refresh of an identity begins.
LEMMA RefreshIdentityKeeps ==
    ASSUME Consistent, NEW c \in Calls, NEW d \in Devices, NEW k \in Nat,
           RefreshIdentity(c, d, k)
    PROVE  Consistent'
  <1>0. "refresh" \in Kinds /\ "refresh" \in Phases
    BY DEF Kinds, Phases
  <1>1. PICK b \in CallRecord : b = Begin(c, "refresh", d, "refresh")
    BY <1>0, BeginTyped
  <1>2. /\ b.kind = "refresh" /\ b.phase = "refresh" /\ b.dev = d /\ b.found = <<>>
        /\ b.snapshot = NoConfig /\ b.data = NoProfile
    BY <1>0, <1>1, BeginTyped
  <1>3. PICK r \in CallRecord : r = [b EXCEPT !.pos = k]
    BY DEF CallRecord
  <1>4. /\ r.kind = "refresh" /\ r.phase = "refresh" /\ r.dev = d /\ r.found = <<>>
        /\ r.snapshot = NoConfig /\ r.data = NoProfile /\ r.pos = k
    BY <1>2, <1>3 DEF CallRecord
  <1>5. Own(r.data, r.index)
    BY <1>4 DEF Own
  <1>6. /\ Idle(c, d) /\ k \in DOMAIN dev[d].ids /\ call' = [call EXCEPT ![c] = r]
        /\ UNCHANGED <<config, profile, owner, dev, mishaps>>
    BY <1>1, <1>3 DEF RefreshIdentity
  <1>7. QED
    BY <1>4, <1>5, <1>6, JustBegins

\* createNewIdentity begins.
LEMMA CreateNewIdentityKeeps ==
    ASSUME Consistent, NEW c \in Calls, NEW d \in Devices, CreateNewIdentity(c, d)
    PROVE  Consistent'
  <1>0. "create" \in Kinds /\ "derive" \in Phases
    BY DEF Kinds, Phases
  <1>1. PICK b \in CallRecord : b = Begin(c, "create", d, "derive")
    BY <1>0, BeginTyped
  <1>2. /\ b.kind = "create" /\ b.phase = "derive" /\ b.dev = d /\ b.found = <<>>
        /\ b.snapshot = NoConfig /\ b.data = NoProfile
    BY <1>0, <1>1, BeginTyped
  <1>3. PICK i \in Indices : i = Len(dev[d].ids)
    <2>1. dev[d].ids \in IdSeq /\ Len(dev[d].ids) < MaxIdentities
      BY DeviceParts DEF Consistent, CreateNewIdentity
    <2>2. Len(dev[d].ids) \in Indices
      BY <2>1, Bounds, SeqParts
    <2>3. QED
      BY <2>2
  <1>4. PICK r \in CallRecord : r = [b EXCEPT !.index = i]
    BY DEF CallRecord
  <1>5. /\ r.kind = "create" /\ r.phase = "derive" /\ r.dev = d /\ r.found = <<>>
        /\ r.snapshot = NoConfig /\ r.data = NoProfile
    BY <1>2, <1>4 DEF CallRecord
  <1>6. Own(r.data, r.index)
    BY <1>5 DEF Own
  <1>7. /\ Idle(c, d) /\ call' = [call EXCEPT ![c] = r]
        /\ UNCHANGED <<config, profile, owner, dev, mishaps>>
    BY <1>1, <1>3, <1>4 DEF CreateNewIdentity
  <1>8. QED
    BY <1>5, <1>6, <1>7, JustBegins

\* getOrCreateConfig begins; with a config it is over.
LEMMA GetOrCreateConfigKeeps ==
    ASSUME Consistent, NEW c \in Calls, NEW d \in Devices, GetOrCreateConfig(c, d)
    PROVE  Consistent'
  <1>1. PICK p \in {"done", "fetch"} :
            p = IF dev[d].config # NoConfig THEN "done" ELSE "fetch"
    OBVIOUS
  <1>0. "config" \in Kinds /\ p \in Phases
    BY <1>1 DEF Kinds, Phases
  <1>2. PICK r \in CallRecord : r = Begin(c, "config", d, p)
    BY <1>0, BeginTyped
  <1>3. /\ r.kind = "config" /\ r.phase = p /\ r.dev = d /\ r.found = <<>>
        /\ r.snapshot = NoConfig /\ r.data = NoProfile
    BY <1>0, <1>2, BeginTyped
  <1>4. Own(r.data, r.index)
    BY <1>3 DEF Own
  <1>5. /\ Idle(c, d) /\ call' = [call EXCEPT ![c] = r]
        /\ UNCHANGED <<config, profile, owner, dev, mishaps>>
    BY <1>1, <1>2 DEF GetOrCreateConfig
  <1>6. QED
    BY <1>3, <1>4, <1>5, JustBegins

\* makeAuthResponse begins.
LEMMA MakeAuthResponseKeeps ==
    ASSUME Consistent, NEW c \in Calls, NEW d \in Devices, NEW k \in Nat, NEW a \in Apps,
           NEW p \in BOOLEAN, MakeAuthResponse(c, d, k, a, p)
    PROVE  Consistent'
  <1>0. "respond" \in Kinds /\ "profile" \in Phases
    BY DEF Kinds, Phases
  <1>1. PICK b \in CallRecord : b = Begin(c, "respond", d, "profile")
    BY <1>0, BeginTyped
  <1>2. /\ b.kind = "respond" /\ b.phase = "profile" /\ b.dev = d /\ b.found = <<>>
        /\ b.snapshot = NoConfig /\ b.data = NoProfile
    BY <1>0, <1>1, BeginTyped
  <1>3. k \in DOMAIN dev[d].ids
    BY DEF MakeAuthResponse
  <1>4. PICK i \in Indices : i = dev[d].ids[k].index
    <2>1. dev[d].ids[k] \in Identity
      BY <1>3, DeviceParts, SeqParts DEF Consistent
    <2>2. QED
      BY <2>1 DEF Identity
  <1>5. PICK r \in CallRecord :
            r = [b EXCEPT !.pos = k, !.index = i, !.app = a, !.publish = p]
    <2>1. [b EXCEPT !.pos = k, !.index = i, !.app = a, !.publish = p] \in CallRecord
      BY DEF CallRecord
    <2>2. QED
      BY <2>1
  <1>6. /\ r.kind = "respond" /\ r.phase = "profile" /\ r.dev = d /\ r.found = <<>>
        /\ r.snapshot = NoConfig /\ r.data = NoProfile /\ r.pos = k /\ r.index = i
    BY <1>2, <1>5 DEF CallRecord
  <1>7. Own(r.data, r.index)
    BY <1>6 DEF Own
  <1>8. /\ Idle(c, d) /\ call' = [call EXCEPT ![c] = r]
        /\ UNCHANGED <<config, profile, owner, dev, mishaps>>
    BY <1>1, <1>4, <1>5 DEF MakeAuthResponse
  <1>9. QED
    BY <1>3, <1>4, <1>6, <1>7, <1>8, JustBegins

\* A profile the identity has, or the default one, is one the identity may have.
LEMMA OrDefaultOwn ==
    ASSUME Typed, NEW d \in Devices, DeviceInv(d), NEW p \in Profiles, NEW i, Own(p, i)
    PROVE  OrDefault(d, p) \in Profile /\ Own(OrDefault(d, p), i)
  <1>1. dev[d].default \in Profile /\ Entries(dev[d].default) \subseteq Shared
    BY DeviceParts DEF DeviceInv, Shared
  <1>2. CASE p \in {NoProfile, Default}
    BY <1>1, <1>2 DEF OrDefault, Own
  <1>3. CASE p \notin {NoProfile, Default}
    BY <1>3 DEF OrDefault, Profiles
  <1>4. QED
    BY <1>2, <1>3

\* registerSubdomain begins.
LEMMA RegisterSubdomainKeeps ==
    ASSUME Consistent, NEW c \in Calls, NEW d \in Devices, NEW k \in Nat, NEW n \in Names,
           RegisterSubdomain(c, d, k, n)
    PROVE  Consistent'
  <1>0. "register" \in Kinds /\ "publish" \in Phases
    BY DEF Kinds, Phases
  <1>1. PICK b \in CallRecord : b = Begin(c, "register", d, "publish")
    BY <1>0, BeginTyped
  <1>2. /\ b.kind = "register" /\ b.phase = "publish" /\ b.dev = d /\ b.found = <<>>
        /\ b.snapshot = NoConfig /\ b.data = NoProfile
    BY <1>0, <1>1, BeginTyped
  <1>3. k \in DOMAIN dev[d].ids /\ Typed /\ DeviceInv(d)
    BY DEF RegisterSubdomain, Consistent
  <1>4. PICK id \in Identity : id = dev[d].ids[k]
    BY <1>3, DeviceParts, SeqParts
  <1>5. id.index \in Indices /\ id.profile \in Profiles
    BY DEF Identity, Profiles
  <1>6. Own(id.profile, id.index)
    BY <1>3, <1>4 DEF DeviceInv, AllOwn
  <1>7. PICK q \in Profile : q = OrDefault(d, id.profile)
    BY <1>3, <1>5, <1>6, OrDefaultOwn
  <1>8. Own(q, id.index)
    BY <1>3, <1>5, <1>6, <1>7, OrDefaultOwn
  <1>9. PICK r \in CallRecord :
            r = [b EXCEPT !.pos = k, !.index = id.index, !.name = n, !.data = q]
    <2>1. [b EXCEPT !.pos = k, !.index = id.index, !.name = n, !.data = q] \in CallRecord
      BY <1>5 DEF CallRecord, Profiles
    <2>2. QED
      BY <2>1
  <1>10. /\ r.kind = "register" /\ r.phase = "publish" /\ r.dev = d /\ r.found = <<>>
         /\ r.snapshot = NoConfig /\ r.data = q /\ r.pos = k /\ r.index = id.index
         /\ r.name = n
    BY <1>2, <1>9 DEF CallRecord
  <1>11. /\ Idle(c, d) /\ call' = [call EXCEPT ![c] = r]
         /\ UNCHANGED <<config, profile, owner, dev, mishaps>>
    BY <1>1, <1>4, <1>7, <1>9 DEF RegisterSubdomain
  <1>12. QED
    BY <1>3, <1>4, <1>8, <1>10, <1>11, JustBegins

----------------------------------------------------------------------------
(* The steps: a call ends and changes an identity of its device. *)

\* One identity of a device is replaced by a newer state of it.
LEMMA IdentityReplaced ==
    ASSUME Typed, NEW d \in Devices, DeviceInv(d), NEW k \in DOMAIN dev[d].ids,
           NEW id \in Identity, id.index = dev[d].ids[k].index,
           dev' = [dev EXCEPT ![d].ids[k] = id],
           \A n \in Names : owner[n] # -1 => owner'[n] = owner[n],
           mishaps.doubled => mishaps'.doubled
    PROVE  /\ Grows /\ Extends(d) /\ dev' \in [Devices -> DeviceRecord]
           /\ \A e \in Devices \ {d} : dev'[e] = dev[e]
           /\ (~mishaps'.doubled => Owned(id.name, id.index)') /\ Own(id.profile, id.index)'
                => DeviceInv(d)'
  <1>1. PICK old \in DeviceRecord : old = dev[d]
    BY DeviceParts
  <1>2. PICK ids \in IdSeq : ids = [old.ids EXCEPT ![k] = id]
    <2>1. old.ids \in IdSeq /\ k \in DOMAIN old.ids
      BY <1>1 DEF DeviceRecord
    <2>2. [old.ids EXCEPT ![k] = id] \in IdSeq
      BY <2>1, SeqParts DEF IdSeq
    <2>3. QED
      BY <2>2
  <1>3. PICK r \in DeviceRecord : r = [old EXCEPT !.ids = ids]
    BY DEF DeviceRecord
  <1>4. /\ r.ids = ids /\ r.config = old.config /\ r.default = old.default
        /\ r.known = old.known /\ r.refetched = old.refetched /\ r.shared = old.shared
    BY <1>3 DEF DeviceRecord
  <1>5. dev' = [dev EXCEPT ![d] = r]
    BY <1>1, <1>2, <1>3 DEF Typed
  <1>6. /\ dev' \in [Devices -> DeviceRecord] /\ dev'[d] = r
        /\ \A e \in Devices \ {d} : dev'[e] = dev[e]
        /\ Shared \subseteq Shared'
    BY <1>1, <1>4, <1>5, OneDevice
  <1>7. Grows
    BY <1>6 DEF Grows
  <1>8. /\ DOMAIN ids = DOMAIN old.ids /\ ids[k] = id /\ k \in DOMAIN ids
        /\ \A m \in DOMAIN ids : m # k => ids[m] = old.ids[m]
        /\ \A m \in DOMAIN ids : ids[m].index = old.ids[m].index
    BY <1>1, <1>2
  <1>9. Extends(d)
    BY <1>1, <1>4, <1>6, <1>8 DEF Extends
  <1>10. ASSUME ~mishaps'.doubled => Owned(id.name, id.index)', Own(id.profile, id.index)'
         PROVE  DeviceInv(d)'
    <2>1. PICK was \in IdSeq : was = old.ids
      BY DEF DeviceRecord
    <2>2. PICK cfg \in Configs : cfg = old.config
      BY DEF DeviceRecord
    <2>3. ~mishaps.doubled => NamedRight(was) /\ ConfigNamed(cfg)
      BY <1>1, <2>1, <2>2 DEF DeviceInv
    <2>4. ~mishaps'.doubled => ~mishaps.doubled
      OBVIOUS
    <2>5. ~mishaps'.doubled => NamedRight(was)' /\ ConfigNamed(cfg)'
      BY <1>7, <2>3, <2>4, NamedStays, ConfigStays
    <2>6. AllOwn(was)'
      BY <1>1, <1>7, <2>1, AllOwnStays DEF DeviceInv
    <2>7. ~mishaps'.doubled => NamedRight(ids)'
      BY <1>8, <1>10, <2>1, <2>5 DEF NamedRight
    <2>8. AllOwn(ids)'
      BY <1>8, <1>10, <2>1, <2>6 DEF AllOwn
    <2>9. Entries(r.default) \subseteq r.shared /\ (r.refetched \/ r.known \subseteq AppEntries(r.config))
      BY <1>1, <1>4 DEF DeviceInv
    <2>10. /\ Entries(dev'[d].default) \subseteq dev'[d].shared
           /\ dev'[d].refetched \/ dev'[d].known \subseteq AppEntries(dev'[d].config)
      BY <1>6, <2>9
    <2>11. /\ ~mishaps'.doubled => NamedRight(dev[d].ids)' /\ ConfigNamed(dev[d].config)'
           /\ AllOwn(dev[d].ids)'
      BY <1>4, <1>6, <2>2, <2>5, <2>7, <2>8
    <2>12. QED
      BY <2>10, <2>11 DEF DeviceInv, AppEntries
  <1>11. QED
    BY <1>6, <1>7, <1>9, <1>10

\* A call that ends with a newer state of the identity it is for.
LEMMA EndsWithIdentity ==
    ASSUME Consistent, NEW c \in Calls, Pending(c), Finish(c),
           call[c].pos \in DOMAIN Device(c).ids,
           NEW id \in Identity, id.index = Device(c).ids[call[c].pos].index,
           dev' = [dev EXCEPT ![call[c].dev].ids[call[c].pos] = id],
           \A n \in Names : owner[n] # -1 => owner'[n] = owner[n],
           mishaps'.doubled = mishaps.doubled,
           Grows => FilesInv',
           Grows /\ ~mishaps'.doubled => Owned(id.name, id.index)',
           Grows => Own(id.profile, id.index)',
           config' \in Configs, profile' \in [Indices -> {NoProfile} \cup Profile],
           owner' \in [Names -> Indices \cup {-1}],
           mishaps' \in [failures : 0..MaxFailures, restarts : 0..MaxRestarts,
                         doubled : BOOLEAN]
    PROVE  Consistent'
  <1>1. Typed
    BY DEF Consistent
  <1>2. PICK d \in Devices : d = call[c].dev
    BY <1>1, CallParts
  <1>3. PICK k : k = call[c].pos
    OBVIOUS
  <1>4. /\ k \in DOMAIN dev[d].ids /\ id.index = dev[d].ids[k].index
        /\ dev' = [dev EXCEPT ![d].ids[k] = id]
    BY <1>2, <1>3 DEF Device
  <1>5. /\ Grows /\ Extends(d) /\ dev' \in [Devices -> DeviceRecord]
        /\ \A e \in Devices \ {d} : dev'[e] = dev[e]
        /\ (~mishaps'.doubled => Owned(id.name, id.index)') /\ Own(id.profile, id.index)'
                => DeviceInv(d)'
    BY <1>1, <1>4, IdentityReplaced DEF Consistent
  <1>6. /\ call' \in [Calls -> CallRecord] /\ CallInv(c)' /\ ~Pending(c)'
        /\ \A b \in Calls \ {c} : call'[b] = call[b]
    BY <1>1, Finished
  <1>7. Typed'
    BY <1>5, <1>6 DEF Typed
  <1>8. QED
    BY <1>2, <1>5, <1>6, <1>7, Composed

\* What refresh makes of an identity: the same one, with names that are its own
\* and the profile that is in the files.
LEMMA RefreshableRight ==
    ASSUME Typed, FilesInv, NEW id \in Identity, NEW new \in Refreshable(id)
    PROVE  /\ new \in Identity /\ new.index = id.index
           /\ Owned(id.name, id.index) => Owned(new.name, id.index)
           /\ Own(id.profile, id.index) => Own(new.profile, id.index)
  <1>1. id.index \in Indices /\ id.names \in SUBSET Names /\ id.name \in Names \cup {NoName}
    BY DEF Identity
  <1>2. ASSUME NEW w \in WithNames(id)
        PROVE  /\ w \in Identity /\ w.index = id.index /\ w.profile = id.profile
               /\ Owned(id.name, id.index) => Owned(w.name, id.index)
    <2>1. PICK n \in IF id.name # NoName \/ NamesOf(id.index) = {} THEN {id.name}
                     ELSE NamesOf(id.index) :
            w = [id EXCEPT !.names = @ \cup NamesOf(id.index), !.name = n]
      BY DEF WithNames
    <2>2. NamesOf(id.index) \subseteq Names /\ \A m \in NamesOf(id.index) : owner[m] = id.index
      BY DEF NamesOf
    <2>3. n \in Names \cup {NoName}
      BY <1>1, <2>1, <2>2
    <2>4. w.name = n /\ w.index = id.index /\ w.profile = id.profile /\ w \in Identity
      BY <1>1, <2>1, <2>2, <2>3 DEF Identity
    <2>5. Owned(id.name, id.index) => Owned(n, id.index)
      BY <2>1, <2>2 DEF Owned
    <2>6. QED
      BY <2>4, <2>5
  <1>3. ASSUME NEW w \in Identity, w.index = id.index, NEW v, v = WithProfile(w)
        PROVE  /\ v \in Identity /\ v.index = id.index /\ v.name = w.name
               /\ Own(w.profile, id.index) => Own(v.profile, id.index)
    <2>1. profile[id.index] \in {NoProfile} \cup Profile /\ Own(profile[id.index], id.index)
      BY <1>1 DEF Typed, FilesInv
    <2>2. PICK p \in Profiles : /\ p = IF profile[id.index] = NoProfile THEN w.profile
                                       ELSE profile[id.index]
                                /\ Own(w.profile, id.index) => Own(p, id.index)
      BY <2>1 DEF Profiles, Identity
    <2>3. v = [w EXCEPT !.profile = p]
      BY <1>3, <2>2 DEF WithProfile
    <2>4. QED
      BY <1>3, <2>2, <2>3 DEF Identity, Profiles
  <1>4. \/ new = id
        \/ new \in WithNames(id)
        \/ \E w \in WithNames(id) : new = WithProfile(w)
    BY DEF Refreshable
  <1>5. CASE \E w \in WithNames(id) : new = WithProfile(w)
    <2>1. PICK w \in WithNames(id) : new = WithProfile(w)
      BY <1>5
    <2>2. QED
      BY <1>2, <1>3, <2>1
  <1>6. QED
    BY <1>2, <1>4, <1>5

\* refresh of an identity ends.
LEMMA RefreshedKeeps ==
    ASSUME Consistent, NEW c \in Calls, Refreshed(c)
    PROVE  Consistent'
  <1>1. /\ Typed /\ FilesInv /\ CallInv(c) /\ Pending(c) /\ call[c].kind = "refresh"
        /\ DeviceInv(call[c].dev)
    BY CallParts DEF Consistent, Refreshed, At, Pending
  <1>2. PICK d \in Devices : d = call[c].dev /\ Device(c) = dev[d]
    BY <1>1, CallParts
  <1>3. call[c].pos \in DOMAIN Device(c).ids
    BY <1>1 DEF CallInv, Positioned
  <1>4. PICK id \in Identity : id = Device(c).ids[call[c].pos]
    BY <1>1, <1>2, <1>3, DeviceParts, SeqParts
  <1>5. PICK new \in Refreshable(id) :
            /\ Refreshes(id, new)
            /\ dev' = [dev EXCEPT ![call[c].dev].ids[call[c].pos] = new]
            /\ Finish(c) /\ UNCHANGED <<config, profile, owner>>
    BY <1>4 DEF Refreshed
  <1>6. /\ mishaps' \in [failures : 0..MaxFailures, restarts : 0..MaxRestarts,
                         doubled : BOOLEAN]
        /\ mishaps'.doubled = mishaps.doubled
    BY <1>1, <1>5, FailsTyped DEF Typed, Refreshes
  <1>7. /\ new \in Identity /\ new.index = id.index
        /\ Owned(id.name, id.index) => Owned(new.name, new.index)
        /\ Own(id.profile, id.index) => Own(new.profile, new.index)
    BY <1>1, RefreshableRight
  <1>8. /\ ~mishaps.doubled => Owned(id.name, id.index)
        /\ Own(id.profile, id.index)
    BY <1>1, <1>2, <1>3, <1>4 DEF DeviceInv, NamedRight, AllOwn
  <1>9. /\ Grows /\ ~mishaps'.doubled => Owned(new.name, new.index)'
        /\ Grows => Own(new.profile, new.index)'
    <2>1. new.name \in Names \cup {NoName} /\ new.index \in Nat
      BY <1>7, Bounds DEF Identity
    <2>2. QED
      BY <1>6, <1>7, <1>8, <2>1, OwnedStays, OwnStays
  <1>10. Grows => FilesInv'
    BY <1>1, <1>5, FilesStay
  <1>11. QED
    BY <1>1, <1>3, <1>4, <1>5, <1>6, <1>7, <1>9, <1>10, EndsWithIdentity DEF Typed

\* An auth response ends: its identity has a profile in memory now.
LEMMA EndsWithProfile ==
    ASSUME Consistent, NEW c \in Calls, Pending(c), call[c].kind = "respond", Finish(c),
           NEW p \in Profiles, Own(p, call[c].index),
           dev' = [dev EXCEPT ![call[c].dev].ids[call[c].pos].profile = p],
           UNCHANGED <<config, owner>>, mishaps'.doubled = mishaps.doubled,
           Grows => FilesInv',
           profile' \in [Indices -> {NoProfile} \cup Profile],
           mishaps' \in [failures : 0..MaxFailures, restarts : 0..MaxRestarts,
                         doubled : BOOLEAN]
    PROVE  Consistent'
  <1>1. /\ Typed /\ CallInv(c) /\ DeviceInv(call[c].dev)
    BY CallParts DEF Consistent
  <1>2. PICK d \in Devices : d = call[c].dev /\ Device(c) = dev[d]
    BY <1>1, CallParts
  <1>3. PICK k : k = call[c].pos
    OBVIOUS
  <1>4. k \in DOMAIN dev[d].ids /\ dev[d].ids[k].index = call[c].index
    BY <1>1, <1>2, <1>3 DEF CallInv, Positioned
  <1>5. PICK id \in Identity : id = dev[d].ids[k]
    BY <1>1, <1>2, <1>4, DeviceParts, SeqParts
  <1>6. PICK new \in Identity : new = [id EXCEPT !.profile = p]
    BY DEF Identity, Profiles
  <1>7. new.index = id.index /\ new.name = id.name /\ new.profile = p
    BY <1>6 DEF Identity
  <1>8. dev' = [dev EXCEPT ![call[c].dev].ids[call[c].pos] = new]
    BY <1>2, <1>3, <1>5, <1>6
  <1>9. ~mishaps.doubled => Owned(id.name, id.index)
    BY <1>1, <1>2, <1>4, <1>5 DEF DeviceInv, NamedRight
  <1>10. /\ Grows /\ ~mishaps'.doubled => Owned(new.name, new.index)'
         /\ Grows => Own(new.profile, new.index)'
    <2>1. new.name \in Names \cup {NoName} /\ new.index \in Nat
      BY Bounds DEF Identity
    <2>2. Own(p, new.index)
      BY <1>4, <1>5, <1>7
    <2>3. QED
      BY <1>7, <1>9, <2>1, <2>2, OwnedStays, OwnStays
  <1>11. /\ call[c].pos \in DOMAIN Device(c).ids
         /\ new.index = Device(c).ids[call[c].pos].index
    BY <1>2, <1>3, <1>4, <1>5, <1>7
  <1>12. QED
    BY <1>1, <1>8, <1>10, <1>11, EndsWithIdentity DEF Typed

\* What an auth response has published is in memory, or the default profile is.
LEMMA PublishedProfile ==
    ASSUME Consistent, NEW c \in Calls, At(c, "respond", "publish")
    PROVE  \E p \in Profiles : /\ p = IF call[c].fallback THEN Default ELSE call[c].data
                               /\ Own(p, call[c].index)
  <1>1. call[c].data \in Profiles /\ Own(call[c].data, call[c].index)
    BY CallParts DEF Consistent, CallInv, Uploads
  <1>2. QED
    BY <1>1 DEF Own, Profiles

\* An auth response has published the profile.
LEMMA ProfilePublishedKeeps ==
    ASSUME Consistent, NEW c \in Calls, ProfilePublished(c)
    PROVE  Consistent'
  <1>1. /\ At(c, "respond", "publish") /\ Finish(c)
        /\ profile' = [profile EXCEPT ![call[c].index] = call[c].data]
        /\ UNCHANGED <<config, owner, mishaps>>
    BY DEF ProfilePublished
  <1>2. PICK p \in Profiles : /\ p = IF call[c].fallback THEN Default ELSE call[c].data
                              /\ Own(p, call[c].index)
    BY <1>1, PublishedProfile
  <1>3. dev' = [dev EXCEPT ![call[c].dev].ids[call[c].pos].profile = p]
    BY <1>2 DEF ProfilePublished
  <1>4. Grows => FilesInv'
    BY <1>1, ProfileWritten DEF At
  <1>5. profile' \in [Indices -> {NoProfile} \cup Profile]
    <2>1. call[c].data \in Profile
      BY <1>1 DEF Consistent, CallInv, Uploads, At
    <2>2. QED
      BY <1>1, <2>1 DEF Consistent, Typed
  <1>6. Pending(c) /\ call[c].kind = "respond"
    BY <1>1 DEF At, Pending
  <1>7. QED
    BY <1>1, <1>2, <1>3, <1>4, <1>5, <1>6, EndsWithProfile DEF Consistent, Typed

\* An upload of a profile is refused, and nobody notices.
LEMMA PublishRefusedKeeps ==
    ASSUME Consistent, NEW c \in Calls, PublishRefused(c)
    PROVE  Consistent'
  <1>1. /\ Typed /\ FilesInv /\ Uploads(c) /\ call[c].phase = "publish" /\ Fails
        /\ UNCHANGED <<config, profile, owner>>
    BY DEF Consistent, PublishRefused, CallInv
  <1>2. /\ mishaps' \in [failures : 0..MaxFailures, restarts : 0..MaxRestarts,
                         doubled : BOOLEAN]
        /\ mishaps'.doubled = mishaps.doubled
    BY <1>1, FailsTyped
  <1>3. Grows => FilesInv'
    BY <1>1, FilesStay
  <1>4. CASE call[c].kind = "register"
    <2>1. /\ At(c, "register", "publish") /\ UNCHANGED dev
          /\ call' = [call EXCEPT ![c].phase = "register"]
      BY <1>1, <1>4 DEF PublishRefused, At
    <2>2. Grows
      BY <1>1, <1>2, <2>1, NothingGrows
    <2>3. QED
      BY <1>1, <1>2, <1>3, <2>1, <2>2, ToRegistrar DEF Typed
  <1>5. CASE call[c].kind # "register"
    <2>1. At(c, "respond", "publish") /\ Pending(c) /\ call[c].kind = "respond"
      BY <1>1, <1>5 DEF Uploads, At, Pending
    <2>2. PICK p \in Profiles : /\ p = IF call[c].fallback THEN Default ELSE call[c].data
                                /\ Own(p, call[c].index)
      BY <2>1, PublishedProfile
    <2>3. Finish(c) /\ dev' = [dev EXCEPT ![call[c].dev].ids[call[c].pos].profile = p]
      BY <1>5, <2>2 DEF PublishRefused
    <2>4. QED
      BY <1>1, <1>2, <1>3, <2>1, <2>2, <2>3, EndsWithProfile DEF Typed
  <1>6. QED
    BY <1>4, <1>5

\* A name is registered.
LEMMA RegisteredKeeps ==
    ASSUME Consistent, NEW c \in Calls, Registered(c)
    PROVE  Consistent'
  <1>1. /\ Typed /\ FilesInv /\ CallInv(c) /\ DeviceInv(call[c].dev) /\ Pending(c)
        /\ call[c].kind = "register"
    BY CallParts DEF Consistent, Registered, At, Pending
  <1>2. PICK d \in Devices : d = call[c].dev /\ Device(c) = dev[d]
    BY <1>1, CallParts
  <1>3. PICK k : k = call[c].pos
    OBVIOUS
  <1>4. k \in DOMAIN dev[d].ids /\ dev[d].ids[k].index = call[c].index
    BY <1>1, <1>2, <1>3 DEF CallInv, Positioned
  <1>5. PICK id \in Identity : id = dev[d].ids[k]
    BY <1>1, <1>2, <1>4, DeviceParts, SeqParts
  <1>6. /\ call[c].name \in Names /\ owner' \in [Names -> Indices \cup {-1}]
        /\ owner'[call[c].name] = call[c].index
        /\ \A n \in Names : owner[n] # -1 => owner'[n] = owner[n]
    BY NameTaken DEF Registered
  <1>7. PICK n \in Names : n = call[c].name
    BY <1>6
  <1>8. PICK new \in Identity : new = [id EXCEPT !.name = n, !.names = @ \cup {n}]
    <2>1. [id EXCEPT !.name = n, !.names = @ \cup {n}] \in Identity
      BY DEF Identity
    <2>2. QED
      BY <2>1
  <1>9. new.index = id.index /\ new.name = n /\ new.profile = id.profile
    BY <1>8 DEF Identity
  <1>10. /\ Finish(c) /\ UNCHANGED <<config, profile, mishaps>>
         /\ dev' = [dev EXCEPT ![call[c].dev].ids[call[c].pos] = new]
    <2>1. PICK old \in DeviceRecord : old = dev[d]
      BY <1>1, DeviceParts
    <2>2. PICK ids \in IdSeq : ids = old.ids
      BY DEF DeviceRecord
    <2>3. k \in DOMAIN ids /\ ids[k] = id
      BY <1>4, <1>5, <2>1, <2>2
    <2>4. dev' = [dev EXCEPT ![d].ids[k].name = n, ![d].ids[k].names = @ \cup {n}]
      BY <1>2, <1>3, <1>7 DEF Registered
    <2>5. [ids EXCEPT ![k].name = n, ![k].names = @ \cup {n}] = [ids EXCEPT ![k] = new]
      BY <1>8, <2>3, SeqParts
    <2>6. [old EXCEPT !.ids[k].name = n, !.ids[k].names = @ \cup {n}]
            = [old EXCEPT !.ids = [ids EXCEPT ![k].name = n, ![k].names = @ \cup {n}]]
      BY <2>2 DEF DeviceRecord
    <2>7. [old EXCEPT !.ids = [ids EXCEPT ![k] = new]] = [old EXCEPT !.ids[k] = new]
      BY <2>2
    <2>8. [dev EXCEPT ![d].ids[k].name = n, ![d].ids[k].names = @ \cup {n}]
            = [dev EXCEPT ![d] = [old EXCEPT !.ids[k].name = n,
                                             !.ids[k].names = @ \cup {n}]]
      <3>1. PICK half : half = [dev EXCEPT ![d].ids[k].name = n]
        OBVIOUS
      <3>2. PICK one : one = [old EXCEPT !.ids[k].name = n]
        OBVIOUS
      <3>3. half = [dev EXCEPT ![d] = one] /\ half[d] = one
        BY <1>1, <2>1, <3>1, <3>2 DEF Typed
      <3>4. [dev EXCEPT ![d].ids[k].name = n, ![d].ids[k].names = @ \cup {n}]
                = [half EXCEPT ![d].ids[k].names = @ \cup {n}]
        BY <3>1
      <3>5. [old EXCEPT !.ids[k].name = n, !.ids[k].names = @ \cup {n}]
                = [one EXCEPT !.ids[k].names = @ \cup {n}]
        BY <3>2
      <3>6. [half EXCEPT ![d].ids[k].names = @ \cup {n}]
                = [half EXCEPT ![d] = [one EXCEPT !.ids[k].names = @ \cup {n}]]
        BY <3>3
      <3>7. [half EXCEPT ![d] = [one EXCEPT !.ids[k].names = @ \cup {n}]]
                = [dev EXCEPT ![d] = [one EXCEPT !.ids[k].names = @ \cup {n}]]
        BY <1>1, <3>3 DEF Typed
      <3>8. QED
        BY <3>4, <3>5, <3>6, <3>7
    <2>9. dev' = [dev EXCEPT ![d] = [old EXCEPT !.ids[k] = new]]
      <3>1. PICK rec : rec = [old EXCEPT !.ids[k].name = n, !.ids[k].names = @ \cup {n}]
        OBVIOUS
      <3>2. rec = [old EXCEPT !.ids = [ids EXCEPT ![k] = new]]
        BY <2>5, <2>6, <3>1
      <3>3. rec = [old EXCEPT !.ids[k] = new]
        BY <2>7, <3>2
      <3>4. dev' = [dev EXCEPT ![d] = rec]
        BY <2>4, <2>8, <3>1
      <3>5. QED
        BY <3>3, <3>4
    <2>10. [dev EXCEPT ![d] = [old EXCEPT !.ids[k] = new]] = [dev EXCEPT ![d].ids[k] = new]
      BY <2>1
    <2>11. QED
      BY <1>2, <1>3, <2>9, <2>10 DEF Registered
  <1>11. Own(id.profile, id.index)
    BY <1>1, <1>2, <1>4, <1>5 DEF DeviceInv, AllOwn
  <1>12. /\ Owned(new.name, new.index)'
         /\ Grows => Own(new.profile, new.index)'
    BY <1>4, <1>5, <1>6, <1>7, <1>9, <1>11, OwnStays DEF Owned
  <1>13. Grows => FilesInv'
    BY <1>1, <1>10, FilesStay
  <1>14. /\ call[c].pos \in DOMAIN Device(c).ids
         /\ new.index = Device(c).ids[call[c].pos].index
    BY <1>2, <1>3, <1>4, <1>5, <1>9
  <1>15. QED
    BY <1>1, <1>6, <1>10, <1>12, <1>13, <1>14, EndsWithIdentity DEF Typed

----------------------------------------------------------------------------
(* The steps: what becomes of a device as a whole. *)

\* A call that ends with a change to its device.
LEMMA EndsOnDevice ==
    ASSUME Consistent, NEW c \in Calls, Pending(c), Finish(c) \/ Free(c),
           NEW d \in Devices, d = call[c].dev,
           dev' \in [Devices -> DeviceRecord],
           \A e \in Devices \ {d} : dev'[e] = dev[e],
           Grows, DeviceInv(d)',
           Extends(d) \/ \A b \in Calls \ {c} : Pending(b) => call[b].dev # d,
           UNCHANGED <<config, profile, owner>>,
           mishaps' \in [failures : 0..MaxFailures, restarts : 0..MaxRestarts,
                         doubled : BOOLEAN]
    PROVE  Consistent'
  <1>1. Typed /\ FilesInv
    BY DEF Consistent
  <1>2. /\ call' \in [Calls -> CallRecord] /\ CallInv(c)' /\ ~Pending(c)'
        /\ \A b \in Calls \ {c} : call'[b] = call[b]
    BY <1>1, Finished
  <1>3. Typed'
    BY <1>1, <1>2 DEF Typed
  <1>4. FilesInv'
    BY <1>1, FilesStay
  <1>5. QED
    BY <1>2, <1>3, <1>4, Composed

\* A new identity has no name and no profile.
LEMMA MadeTyped ==
    ASSUME NEW i \in Indices
    PROVE  /\ MakeIdentity(i) \in Identity /\ MakeIdentity(i).index = i
           /\ MakeIdentity(i).name = NoName /\ MakeIdentity(i).profile = NoProfile
  BY DEF MakeIdentity, Identity

\* An identity is made; when the wallet has got another one meanwhile, it is
\* one that the wallet had.
LEMMA IdentityMadeKeeps ==
    ASSUME Consistent, NEW c \in Calls, IdentityMade(c)
    PROVE  Consistent'
  <1>1. /\ Typed /\ Pending(c) /\ Finish(c) /\ DeviceInv(call[c].dev)
        /\ UNCHANGED <<config, profile, owner>>
    BY CallParts DEF Consistent, IdentityMade, At, Pending
  <1>2. PICK d \in Devices : d = call[c].dev
    BY <1>1, CallParts
  <1>3. PICK i \in Indices : i = call[c].index
    BY <1>1, CallParts
  <1>4. PICK old \in DeviceRecord : old = dev[d]
    BY <1>1, DeviceParts
  <1>5. PICK was \in IdSeq : was = old.ids
    BY DEF DeviceRecord
  <1>6. PICK id \in Identity : id = MakeIdentity(i)
    BY MadeTyped
  <1>7. id.index = i /\ id.name = NoName /\ id.profile = NoProfile
    BY <1>6, MadeTyped
  <1>8. Len(was) \in Nat /\ Len(was) <= MaxIdentities /\ MaxIdentities \in Nat
    BY <1>2, <1>4, <1>5, Bounds, SeqParts DEF IdentityMade
  <1>9. PICK ids \in IdSeq : ids = Append(was, id)
    <2>1. was \in Seq(Identity)
      BY SeqParts
    <2>2. Append(was, id) \in Seq(Identity) /\ Len(Append(was, id)) = Len(was) + 1
      BY <2>1
    <2>3. Append(was, id) \in IdSeq
      BY <1>8, <2>2 DEF IdSeq
    <2>4. QED
      BY <2>3
  <1>10. /\ DOMAIN was = 1..Len(was) /\ DOMAIN ids = 1..(Len(was) + 1)
         /\ \A k \in 1..Len(was) : ids[k] = was[k]
         /\ ids[Len(was) + 1] = id
    <2>1. was \in Seq(Identity)
      BY SeqParts
    <2>2. QED
      BY <1>9, <2>1
  <1>11. PICK r \in DeviceRecord : r = [old EXCEPT !.ids = ids]
    BY DEF DeviceRecord
  <1>12. /\ r.ids = ids /\ r.config = old.config /\ r.default = old.default
         /\ r.known = old.known /\ r.refetched = old.refetched /\ r.shared = old.shared
    BY <1>11 DEF DeviceRecord
  <1>13. dev' = [dev EXCEPT ![d] = r]
    BY <1>2, <1>3, <1>4, <1>5, <1>6, <1>9, <1>11 DEF IdentityMade
  <1>14. /\ dev' \in [Devices -> DeviceRecord] /\ dev'[d] = r
         /\ \A e \in Devices \ {d} : dev'[e] = dev[e]
         /\ Shared \subseteq Shared'
    BY <1>1, <1>4, <1>12, <1>13, OneDevice
  <1>15. /\ mishaps' = [mishaps EXCEPT !.doubled = @ \/ Len(was) # i]
         /\ mishaps' \in [failures : 0..MaxFailures, restarts : 0..MaxRestarts,
                          doubled : BOOLEAN]
         /\ mishaps'.doubled = (mishaps.doubled \/ Len(was) # i)
    BY <1>1, <1>2, <1>3, <1>4, <1>5 DEF IdentityMade, Typed
  <1>16. Grows
    BY <1>1, <1>14, <1>15 DEF Grows
  <1>17. Extends(d)
    BY <1>4, <1>5, <1>8, <1>10, <1>12, <1>14 DEF Extends
  <1>18. DeviceInv(d)'
    <2>1. PICK cfg \in Configs : cfg = old.config
      BY DEF DeviceRecord
    <2>2. DeviceInv(d)
      BY <1>1, <1>2
    <2>3. ~mishaps'.doubled => NamedRight(was)' /\ ConfigNamed(cfg)' /\ Len(was) = i
      BY <1>4, <1>5, <1>15, <1>16, <2>1, <2>2, NamedStays, ConfigStays DEF DeviceInv
    <2>4. AllOwn(was)'
      BY <1>4, <1>5, <1>16, <2>2, AllOwnStays DEF DeviceInv
    <2>5. ~mishaps'.doubled => NamedRight(ids)'
      BY <1>7, <1>8, <1>10, <2>3 DEF NamedRight, Owned
    <2>6. AllOwn(ids)'
      BY <1>7, <1>8, <1>10, <2>4 DEF AllOwn, Own
    <2>7. /\ Entries(dev'[d].default) \subseteq dev'[d].shared
          /\ dev'[d].refetched \/ dev'[d].known \subseteq AppEntries(dev'[d].config)
      BY <1>4, <1>12, <1>14, <2>2 DEF DeviceInv
    <2>8. /\ ~mishaps'.doubled => NamedRight(dev[d].ids)' /\ ConfigNamed(dev[d].config)'
          /\ AllOwn(dev[d].ids)'
      BY <1>12, <1>14, <2>1, <2>3, <2>5, <2>6
    <2>9. QED
      BY <2>7, <2>8 DEF DeviceInv, AppEntries
  <1>19. QED
    BY <1>1, <1>2, <1>14, <1>15, <1>16, <1>17, <1>18, EndsOnDevice

----------------------------------------------------------------------------
(* The steps: the config of a device. *)

\* The entries of a config.
LEMMA EntriesOf ==
    ASSUME NEW cfg \in ConfigRecord
    PROVE  /\ AppEntries(cfg) \in SUBSET (Nat \X Apps)
           /\ \A e : e \in AppEntries(cfg) <=>
                    \E k \in DOMAIN cfg.ids : e \in {k} \X cfg.ids[k].apps
  <1>1. AppEntries(cfg) = UNION {{k} \X cfg.ids[k].apps : k \in DOMAIN cfg.ids}
    BY NoConfigIsNone DEF AppEntries
  <1>2. \A e : e \in AppEntries(cfg) <=> \E k \in DOMAIN cfg.ids : e \in {k} \X cfg.ids[k].apps
    BY <1>1
  <1>3. ASSUME NEW e \in AppEntries(cfg) PROVE e \in Nat \X Apps
    <2>1. PICK k \in DOMAIN cfg.ids : e \in {k} \X cfg.ids[k].apps
      BY <1>2
    <2>2. k \in Nat /\ cfg.ids[k] \in IdentityConfig
      BY SeqParts DEF ConfigRecord
    <2>3. cfg.ids[k].apps \subseteq Apps
      BY <2>2 DEF IdentityConfig
    <2>4. QED
      BY <2>1, <2>2, <2>3
  <1>4. QED
    BY <1>2, <1>3

\* A device has another config: what it knew of the old one stays known, and is
\* in the new one unless there was an old one.
LEMMA SetConfigRight ==
    ASSUME Typed, NEW d \in Devices, DeviceInv(d), NEW cfg \in ConfigRecord,
           ~mishaps.doubled => ConfigNamed(cfg), SetConfig(d, cfg),
           UNCHANGED owner, mishaps'.doubled = mishaps.doubled
    PROVE  /\ Grows /\ Extends(d) /\ DeviceInv(d)' /\ dev' \in [Devices -> DeviceRecord]
           /\ \A e \in Devices \ {d} : dev'[e] = dev[e]
           /\ dev'[d].refetched \/ dev[d].known = {}
  <1>1. PICK old \in DeviceRecord : old = dev[d]
    BY DeviceParts
  <1>2. PICK known \in SUBSET (Nat \X Apps) : known = old.known \cup AppEntries(cfg)
    BY EntriesOf DEF DeviceRecord
  <1>3. PICK re \in BOOLEAN : re = (old.refetched \/ old.config # NoConfig)
    BY DEF DeviceRecord
  <1>4. PICK r \in DeviceRecord :
            r = [old EXCEPT !.config = cfg, !.known = known, !.refetched = re]
    <2>1. [old EXCEPT !.config = cfg, !.known = known, !.refetched = re] \in DeviceRecord
      BY DEF DeviceRecord, Configs
    <2>2. QED
      BY <2>1
  <1>5. /\ r.ids = old.ids /\ r.config = cfg /\ r.default = old.default
        /\ r.known = known /\ r.refetched = re /\ r.shared = old.shared
    BY <1>4 DEF DeviceRecord
  <1>6. dev' = [dev EXCEPT ![d] = r]
    <2>1. dev' = [dev EXCEPT ![d].config = cfg, ![d].known = @ \cup AppEntries(cfg),
                             ![d].refetched = @ \/ old.config # NoConfig]
      BY <1>1 DEF SetConfig
    <2>2. [dev EXCEPT ![d].config = cfg, ![d].known = @ \cup AppEntries(cfg),
                      ![d].refetched = @ \/ old.config # NoConfig]
            = [dev EXCEPT ![d] = [old EXCEPT !.config = cfg,
                    !.known = @ \cup AppEntries(cfg),
                    !.refetched = @ \/ old.config # NoConfig]]
      BY <1>1 DEF Typed
    <2>3. [old EXCEPT !.config = cfg, !.known = @ \cup AppEntries(cfg),
                      !.refetched = @ \/ old.config # NoConfig] = r
      BY <1>2, <1>3, <1>4 DEF DeviceRecord
    <2>4. QED
      BY <2>1, <2>2, <2>3
  <1>7. /\ dev' \in [Devices -> DeviceRecord] /\ dev'[d] = r
        /\ \A e \in Devices \ {d} : dev'[e] = dev[e]
        /\ Shared \subseteq Shared'
    BY <1>1, <1>5, <1>6, OneDevice
  <1>8. Grows
    BY <1>7 DEF Grows
  <1>9. Extends(d)
    BY <1>1, <1>3, <1>5, <1>7 DEF Extends
  <1>10. re \/ (old.known = {} /\ known = AppEntries(cfg))
    BY <1>1, <1>2, <1>3 DEF DeviceInv, AppEntries
  <1>11. DeviceInv(d)'
    <2>1. PICK was \in IdSeq : was = old.ids
      BY DEF DeviceRecord
    <2>2. ~mishaps'.doubled => NamedRight(was)' /\ ConfigNamed(cfg)'
      BY <1>1, <1>8, <2>1, NamedStays, ConfigStays DEF DeviceInv, Configs
    <2>3. AllOwn(was)'
      BY <1>1, <1>8, <2>1, AllOwnStays DEF DeviceInv
    <2>4. /\ Entries(dev'[d].default) \subseteq dev'[d].shared
          /\ dev'[d].refetched \/ dev'[d].known \subseteq AppEntries(dev'[d].config)
      BY <1>1, <1>5, <1>7, <1>10 DEF DeviceInv
    <2>5. /\ ~mishaps'.doubled => NamedRight(dev[d].ids)' /\ ConfigNamed(dev[d].config)'
          /\ AllOwn(dev[d].ids)'
      BY <1>5, <1>7, <2>1, <2>2, <2>3
    <2>6. QED
      BY <2>4, <2>5 DEF DeviceInv, AppEntries
  <1>12. QED
    BY <1>1, <1>5, <1>7, <1>8, <1>9, <1>10, <1>11

\* The config is fetched.
LEMMA ConfigFetchedKeeps ==
    ASSUME Consistent, NEW c \in Calls, ConfigFetched(c)
    PROVE  Consistent'
  <1>1. /\ Typed /\ Pending(c) /\ Finish(c) /\ DeviceInv(call[c].dev) /\ FilesInv
        /\ UNCHANGED <<config, profile, owner, mishaps>>
        /\ SetConfig(call[c].dev, config) /\ config # NoConfig
    BY CallParts DEF Consistent, ConfigFetched, At, Pending
  <1>2. PICK d \in Devices : d = call[c].dev
    BY <1>1, CallParts
  <1>3. PICK cfg \in ConfigRecord : cfg = config
    BY <1>1 DEF Typed, Configs
  <1>4. ~mishaps.doubled => ConfigNamed(cfg)
    BY <1>1, <1>3 DEF FilesInv
  <1>5. SetConfig(d, cfg)
    BY <1>1, <1>2, <1>3 DEF SetConfig
  <1>6. /\ Grows /\ Extends(d) /\ DeviceInv(d)' /\ dev' \in [Devices -> DeviceRecord]
        /\ \A e \in Devices \ {d} : dev'[e] = dev[e]
    BY <1>1, <1>2, <1>4, <1>5, SetConfigRight
  <1>7. QED
    BY <1>1, <1>2, <1>6, EndsOnDevice DEF Typed

\* A new config names the identities of the wallet, and no application.
LEMMA NewConfigRight ==
    ASSUME Typed, NEW d \in Devices, DeviceInv(d)
    PROVE  /\ NewConfig(d) \in ConfigRecord
           /\ ~mishaps.doubled => ConfigNamed(NewConfig(d))
  <1>1. PICK ids \in IdSeq : ids = dev[d].ids
    BY DeviceParts
  <1>2. PICK cs : cs = [k \in DOMAIN ids |->
                          [name |-> ids[k].name, index |-> ids[k].index, apps |-> {}]]
    OBVIOUS
  <1>3. /\ Len(ids) \in Nat /\ Len(ids) <= MaxIdentities + 1 /\ DOMAIN ids = 1..Len(ids)
        /\ \A k \in DOMAIN ids : ids[k] \in Identity
    BY SeqParts
  <1>4. cs \in ConfigSeq
    <2>1. \A k \in 1..Len(ids) : cs[k] \in IdentityConfig
      BY <1>2, <1>3 DEF Identity, IdentityConfig
    <2>2. cs \in Seq(IdentityConfig) /\ Len(cs) = Len(ids)
      BY <1>2, <1>3, <2>1
    <2>3. QED
      BY <1>3, <2>2 DEF ConfigSeq
  <1>5. NewConfig(d) = [ids |-> cs, hide |-> FALSE]
    BY <1>1, <1>2 DEF NewConfig
  <1>6. NewConfig(d) \in ConfigRecord /\ NewConfig(d).ids = cs
    BY <1>4, <1>5 DEF ConfigRecord
  <1>7. ~mishaps.doubled => NamedRight(ids)
    BY <1>1 DEF DeviceInv
  <1>8. DOMAIN cs = DOMAIN ids /\ \A k \in DOMAIN ids : cs[k].name = ids[k].name
    BY <1>2
  <1>9. ~mishaps.doubled => ConfigNamed(NewConfig(d))
    BY <1>6, <1>7, <1>8 DEF ConfigNamed, NamedRight
  <1>10. QED
    BY <1>6, <1>9

\* There is no config, one is made and not uploaded.
LEMMA ConfigKeptKeeps ==
    ASSUME Consistent, NEW c \in Calls, ConfigKept(c)
    PROVE  Consistent'
  <1>1. /\ Typed /\ Pending(c) /\ Finish(c) /\ DeviceInv(call[c].dev)
        /\ UNCHANGED <<config, profile, owner>>
        /\ UNCHANGED mishaps \/ Fails
    BY CallParts DEF Consistent, ConfigKept, At, Pending
  <1>2. PICK d \in Devices : d = call[c].dev
    BY <1>1, CallParts
  <1>3. PICK cfg \in ConfigRecord : cfg = NewConfig(d)
    BY <1>1, <1>2, NewConfigRight
  <1>4. ~mishaps.doubled => ConfigNamed(cfg)
    BY <1>1, <1>2, <1>3, NewConfigRight
  <1>5. SetConfig(d, cfg)
    BY <1>2, <1>3 DEF ConfigKept
  <1>6. /\ mishaps' \in [failures : 0..MaxFailures, restarts : 0..MaxRestarts,
                         doubled : BOOLEAN]
        /\ mishaps'.doubled = mishaps.doubled
    BY <1>1, FailsTyped DEF Typed
  <1>7. /\ Grows /\ Extends(d) /\ DeviceInv(d)' /\ dev' \in [Devices -> DeviceRecord]
        /\ \A e \in Devices \ {d} : dev'[e] = dev[e]
    BY <1>1, <1>2, <1>4, <1>5, <1>6, SetConfigRight
  <1>8. QED
    BY <1>1, <1>2, <1>6, <1>7, EndsOnDevice

\* A call begins to upload a config, which is the one its device has now.
LEMMA UploadBegins ==
    ASSUME Consistent, NEW c \in Calls, NEW d \in Devices,
           (Pending(c) /\ call[c].dev = d) \/ dev[d].open,
           NEW r \in CallRecord, call' = [call EXCEPT ![c] = r],
           r.dev = d, r.kind \in {"config", "auth", "warn"}, r.phase = "upload",
           NamedRight(r.found), AllOwn(r.found), Own(r.data, r.index),
           r.snapshot # NoConfig, ~mishaps.doubled => ConfigNamed(r.snapshot),
           Grows, Extends(d), DeviceInv(d)', dev' \in [Devices -> DeviceRecord],
           \A e \in Devices \ {d} : dev'[e] = dev[e],
           dev'[d].refetched \/ r.known \subseteq AppEntries(r.snapshot),
           UNCHANGED <<config, profile, owner>>,
           mishaps' \in [failures : 0..MaxFailures, restarts : 0..MaxRestarts,
                         doubled : BOOLEAN],
           mishaps'.doubled = mishaps.doubled
    PROVE  Consistent'
  <1>1. Typed /\ FilesInv
    BY DEF Consistent
  <1>2. /\ call' \in [Calls -> CallRecord] /\ call'[c] = r
        /\ \A b \in Calls \ {c} : call'[b] = call[b]
    BY <1>1, OneCall
  <1>3. Typed'
    BY <1>1, <1>2 DEF Typed
  <1>4. FilesInv'
    BY <1>1, FilesStay
  <1>5. CallInv(c)'
    <2>1. PICK found \in IdSeq : found = r.found
      BY DEF CallRecord
    <2>2. PICK cfg \in Configs : cfg = r.snapshot
      BY DEF CallRecord
    <2>3. NamedRight(found)' /\ AllOwn(found)'
      BY <2>1, NamedStays, AllOwnStays
    <2>4. Restoring(c)'
      BY <1>2, <2>1, <2>3 DEF Restoring, At
    <2>5. Positioned(c)'
      BY <1>2 DEF Positioned
    <2>6. ~mishaps'.doubled => ConfigNamed(cfg)'
      BY <2>2, ConfigStays
    <2>7. Own(r.data, r.index)'
      BY DEF Own, Grows
    <2>8. Device(c)' = dev'[d]
      BY <1>2 DEF Device
    <2>9. (Device(c)').refetched \/ call'[c].known \subseteq AppEntries(call'[c].snapshot)
      BY <1>2, <2>8
    <2>10. /\ call'[c].phase = "upload" /\ call'[c].snapshot # NoConfig
           /\ ~mishaps'.doubled => ConfigNamed(call[c].snapshot)'
           /\ Own(call[c].data, call[c].index)'
      BY <1>2, <2>2, <2>6, <2>7
    <2>11. Uploads(c)'
      BY <2>9, <2>10 DEF Uploads, At, AppEntries
    <2>12. QED
      BY <2>4, <2>5, <2>11 DEF CallInv
  <1>6. Pending(c)' => call'[c].dev = d
    BY <1>2
  <1>7. QED
    BY <1>2, <1>3, <1>4, <1>5, <1>6, Composed

\* There is no config, one is made and uploaded.
LEMMA ConfigCreatedKeeps ==
    ASSUME Consistent, NEW c \in Calls, ConfigCreated(c)
    PROVE  Consistent'
  <1>1. /\ Typed /\ Pending(c) /\ DeviceInv(call[c].dev) /\ CallInv(c)
        /\ call[c].kind = "config"
        /\ UNCHANGED <<config, profile, owner>>
        /\ UNCHANGED mishaps \/ Fails
    BY CallParts DEF Consistent, ConfigCreated, At, Pending
  <1>2. PICK d \in Devices : d = call[c].dev
    BY <1>1, CallParts
  <1>3. PICK cfg \in ConfigRecord : cfg = NewConfig(d)
    BY <1>1, <1>2, NewConfigRight
  <1>4. (~mishaps.doubled => ConfigNamed(cfg)) /\ cfg # NoConfig
    BY <1>1, <1>2, <1>3, NewConfigRight, NoConfigIsNone
  <1>5. SetConfig(d, cfg)
    BY <1>2, <1>3 DEF ConfigCreated
  <1>6. /\ mishaps' \in [failures : 0..MaxFailures, restarts : 0..MaxRestarts,
                         doubled : BOOLEAN]
        /\ mishaps'.doubled = mishaps.doubled
    BY <1>1, FailsTyped DEF Typed
  <1>7. /\ Grows /\ Extends(d) /\ DeviceInv(d)' /\ dev' \in [Devices -> DeviceRecord]
        /\ \A e \in Devices \ {d} : dev'[e] = dev[e]
        /\ dev'[d].refetched \/ dev[d].known = {}
    BY <1>1, <1>2, <1>4, <1>5, <1>6, SetConfigRight
  <1>8. PICK was \in CallRecord : was = call[c]
    BY <1>1, CallParts
  <1>9. PICK known \in SUBSET (Nat \X Apps) : known = dev[d].known
    BY <1>1, DeviceParts
  <1>10. PICK r \in CallRecord :
            r = [was EXCEPT !.phase = "upload", !.snapshot = cfg, !.known = known]
    <2>1. [was EXCEPT !.phase = "upload", !.snapshot = cfg, !.known = known] \in CallRecord
      BY DEF CallRecord, Phases, Configs
    <2>2. QED
      BY <2>1
  <1>11. /\ r.phase = "upload" /\ r.snapshot = cfg /\ r.known = known /\ r.kind = "config"
         /\ r.dev = d /\ r.found = was.found /\ r.data = was.data /\ r.index = was.index
    BY <1>1, <1>2, <1>8, <1>10 DEF CallRecord
  <1>12. call' = [call EXCEPT ![c] = r]
    BY <1>2, <1>3, <1>8, <1>9, <1>10 DEF ConfigCreated, Uploading
  <1>13. NamedRight(r.found) /\ AllOwn(r.found) /\ Own(r.data, r.index)
    BY <1>1, <1>8, <1>11 DEF CallInv, Restoring, Uploads
  <1>14. dev'[d].refetched \/ r.known \subseteq AppEntries(r.snapshot)
    BY <1>7, <1>9, <1>11
  <1>15. QED
    BY <1>1, <1>2, <1>4, <1>6, <1>7, <1>11, <1>12, <1>13, <1>14, UploadBegins

\* With the identities of the wallet, a config keeps its applications.
LEMMA WithIdentitiesRight ==
    ASSUME NEW cfg \in ConfigRecord, NEW ids \in IdSeq
    PROVE  /\ WithIdentities(cfg, ids) \in ConfigRecord
           /\ ConfigNamed(cfg) /\ NamedRight(ids) => ConfigNamed(WithIdentities(cfg, ids))
           /\ AppEntries(cfg) \subseteq AppEntries(WithIdentities(cfg, ids))
           /\ DOMAIN ids \subseteq DOMAIN WithIdentities(cfg, ids).ids
  <1>1. PICK n \in Nat : n = IF Len(ids) > Len(cfg.ids) THEN Len(ids) ELSE Len(cfg.ids)
    BY SeqParts DEF ConfigRecord
  <1>2. PICK cs : cs = [k \in 1..n |->
            IF k \notin DOMAIN ids THEN cfg.ids[k]
            ELSE [name |-> ids[k].name, index |-> ids[k].index,
                  apps |-> IF k \in DOMAIN cfg.ids THEN cfg.ids[k].apps ELSE {}]]
    OBVIOUS
  <1>3. WithIdentities(cfg, ids) = [cfg EXCEPT !.ids = cs]
    BY <1>1, <1>2 DEF WithIdentities
  <1>4. /\ cfg.ids \in ConfigSeq /\ Len(ids) \in Nat /\ Len(cfg.ids) \in Nat
        /\ DOMAIN ids = 1..Len(ids) /\ DOMAIN cfg.ids = 1..Len(cfg.ids)
        /\ n <= MaxIdentities + 1
        /\ \A k \in DOMAIN ids : ids[k] \in Identity
        /\ \A k \in DOMAIN cfg.ids : cfg.ids[k] \in IdentityConfig
    BY <1>1, SeqParts DEF ConfigRecord
  <1>5. DOMAIN ids \subseteq 1..n /\ DOMAIN cfg.ids \subseteq 1..n
        /\ \A k \in 1..n : k \in DOMAIN ids \/ k \in DOMAIN cfg.ids
    <2>1. CASE Len(ids) > Len(cfg.ids)
      <3>1. n = Len(ids)
        BY <1>1, <2>1
      <3>2. 1..Len(cfg.ids) \subseteq 1..Len(ids)
        BY <1>4, <2>1
      <3>3. QED
        BY <1>4, <3>1, <3>2
    <2>2. CASE ~(Len(ids) > Len(cfg.ids))
      <3>1. n = Len(cfg.ids)
        BY <1>1, <2>2
      <3>2. 1..Len(ids) \subseteq 1..Len(cfg.ids)
        BY <1>4, <2>2
      <3>3. QED
        BY <1>4, <3>1, <3>2
    <2>3. QED
      BY <2>1, <2>2
  <1>6. ASSUME NEW k \in 1..n
        PROVE  /\ cs[k] \in IdentityConfig
               /\ k \in DOMAIN ids => cs[k].name = ids[k].name
               /\ k \notin DOMAIN ids => cs[k].name = cfg.ids[k].name
               /\ k \in DOMAIN cfg.ids => cs[k].apps = cfg.ids[k].apps
    <2>1. CASE k \in DOMAIN ids
      <3>1. PICK apps \in SUBSET Apps :
                apps = IF k \in DOMAIN cfg.ids THEN cfg.ids[k].apps ELSE {}
        BY <1>4 DEF IdentityConfig
      <3>2. cs[k] = [name |-> ids[k].name, index |-> ids[k].index, apps |-> apps]
        BY <1>2, <2>1, <3>1
      <3>3. ids[k].name \in Names \cup {NoName} /\ ids[k].index \in Indices
        BY <1>4, <2>1 DEF Identity
      <3>4. QED
        BY <2>1, <3>1, <3>2, <3>3 DEF IdentityConfig
    <2>2. CASE k \notin DOMAIN ids
      BY <1>2, <1>4, <1>5, <2>2
    <2>3. QED
      BY <2>1, <2>2
  <1>7. cs \in ConfigSeq /\ DOMAIN cs = 1..n
    <2>1. cs \in Seq(IdentityConfig) /\ Len(cs) = n
      BY <1>2, <1>6
    <2>2. QED
      BY <1>2, <1>4, <2>1 DEF ConfigSeq
  <1>8. PICK new \in ConfigRecord : new = [cfg EXCEPT !.ids = cs]
    BY <1>7 DEF ConfigRecord
  <1>9. new.ids = cs
    BY <1>8 DEF ConfigRecord
  <1>10. ConfigNamed(cfg) /\ NamedRight(ids) => ConfigNamed(new)
    BY <1>5, <1>6, <1>7, <1>9, NoConfigIsNone DEF ConfigNamed, NamedRight
  <1>11. AppEntries(cfg) \subseteq AppEntries(new)
    <2>1. SUFFICES ASSUME NEW e \in AppEntries(cfg) PROVE e \in AppEntries(new)
      OBVIOUS
    <2>2. PICK k \in DOMAIN cfg.ids : e \in {k} \X cfg.ids[k].apps
      BY EntriesOf
    <2>3. k \in DOMAIN new.ids /\ e \in {k} \X new.ids[k].apps
      BY <1>5, <1>6, <1>7, <1>9, <2>2
    <2>4. QED
      BY <2>3, EntriesOf
  <1>12. QED
    BY <1>3, <1>5, <1>7, <1>8, <1>9, <1>10, <1>11

\* An authorised application is one more application in the config.
LEMMA WithAuthRight ==
    ASSUME NEW cfg \in ConfigRecord, NEW ids \in IdSeq, NEW k \in DOMAIN ids, NEW a \in Apps
    PROVE  /\ WithAuth(cfg, ids, k, a) \in ConfigRecord
           /\ ConfigNamed(cfg) /\ NamedRight(ids) => ConfigNamed(WithAuth(cfg, ids, k, a))
           /\ AppEntries(cfg) \subseteq AppEntries(WithAuth(cfg, ids, k, a))
  <1>1. PICK mid \in ConfigRecord : mid = WithIdentities(cfg, ids)
    BY WithIdentitiesRight
  <1>2. /\ ConfigNamed(cfg) /\ NamedRight(ids) => ConfigNamed(mid)
        /\ AppEntries(cfg) \subseteq AppEntries(mid) /\ k \in DOMAIN mid.ids
    BY <1>1, WithIdentitiesRight
  <1>3. PICK cs \in ConfigSeq : cs = mid.ids
    BY DEF ConfigRecord
  <1>4. PICK one \in IdentityConfig : one = [cs[k] EXCEPT !.apps = @ \cup {a}]
    <2>1. cs[k] \in IdentityConfig
      BY <1>2, <1>3, SeqParts
    <2>2. [cs[k] EXCEPT !.apps = @ \cup {a}] \in IdentityConfig
      BY <2>1 DEF IdentityConfig
    <2>3. QED
      BY <2>2
  <1>5. one.name = cs[k].name /\ cs[k].apps \subseteq one.apps
    BY <1>2, <1>3, <1>4, SeqParts DEF IdentityConfig
  <1>6. PICK ds \in ConfigSeq : ds = [cs EXCEPT ![k] = one]
    <2>1. [cs EXCEPT ![k] = one] \in ConfigSeq
      BY <1>2, <1>3, SeqParts DEF ConfigSeq
    <2>2. QED
      BY <2>1
  <1>7. PICK new \in ConfigRecord : new = [mid EXCEPT !.ids = ds]
    BY DEF ConfigRecord
  <1>8. new.ids = ds /\ DOMAIN ds = DOMAIN cs
        /\ \A j \in DOMAIN cs : ds[j].name = cs[j].name /\ cs[j].apps \subseteq ds[j].apps
    BY <1>5, <1>6, <1>7 DEF ConfigRecord
  <1>9. WithAuth(cfg, ids, k, a) = new
    BY <1>1, <1>3, <1>4, <1>6, <1>7 DEF WithAuth
  <1>10. ConfigNamed(mid) => ConfigNamed(new)
    BY <1>3, <1>8, NoConfigIsNone DEF ConfigNamed
  <1>11. AppEntries(mid) \subseteq AppEntries(new)
    <2>1. SUFFICES ASSUME NEW e \in AppEntries(mid) PROVE e \in AppEntries(new)
      OBVIOUS
    <2>2. PICK j \in DOMAIN mid.ids : e \in {j} \X mid.ids[j].apps
      BY EntriesOf
    <2>3. j \in DOMAIN new.ids /\ e \in {j} \X new.ids[j].apps
      BY <1>3, <1>8, <2>2
    <2>4. QED
      BY <2>3, EntriesOf
  <1>12. QED
    BY <1>2, <1>9, <1>10, <1>11

\* So it is with the warning that is not to be shown again.
LEMMA WithWarningRight ==
    ASSUME NEW cfg \in ConfigRecord
    PROVE  /\ WithWarning(cfg) \in ConfigRecord
           /\ ConfigNamed(cfg) => ConfigNamed(WithWarning(cfg))
           /\ AppEntries(cfg) \subseteq AppEntries(WithWarning(cfg))
  <1>1. WithWarning(cfg) \in ConfigRecord /\ WithWarning(cfg).ids = cfg.ids
    BY DEF WithWarning, ConfigRecord
  <1>2. QED
    BY <1>1, EntriesOf, NoConfigIsNone DEF ConfigNamed

\* A device changes its config and begins to upload it.
LEMMA UpdateKeeps ==
    ASSUME Consistent, NEW c \in Calls, NEW d \in Devices, dev[d].open,
           NEW kind \in {"auth", "warn"}, NEW cfg \in ConfigRecord,
           Update(c, kind, d, cfg),
           ~mishaps.doubled => ConfigNamed(cfg),
           AppEntries(dev[d].config) \subseteq AppEntries(cfg)
    PROVE  Consistent'
  <1>1. Typed /\ DeviceInv(d) /\ UNCHANGED <<config, profile, owner, mishaps>>
    BY DEF Consistent, Update
  <1>2. PICK old \in DeviceRecord : old = dev[d]
    BY <1>1, DeviceParts
  <1>3. PICK known \in SUBSET (Nat \X Apps) : known = old.known \cup AppEntries(cfg)
    BY EntriesOf DEF DeviceRecord
  <1>4. PICK s \in DeviceRecord : s = [old EXCEPT !.config = cfg, !.known = known]
    <2>1. [old EXCEPT !.config = cfg, !.known = known] \in DeviceRecord
      BY DEF DeviceRecord, Configs
    <2>2. QED
      BY <2>1
  <1>5. /\ s.ids = old.ids /\ s.config = cfg /\ s.default = old.default
        /\ s.known = known /\ s.refetched = old.refetched /\ s.shared = old.shared
    BY <1>4 DEF DeviceRecord
  <1>6. dev' = [dev EXCEPT ![d] = s]
    <2>1. dev' = [dev EXCEPT ![d].config = cfg, ![d].known = known]
      BY <1>2, <1>3 DEF Update
    <2>2. [dev EXCEPT ![d].config = cfg, ![d].known = known] = [dev EXCEPT ![d] = s]
      BY <1>1, <1>2, <1>4 DEF Typed
    <2>3. QED
      BY <2>1, <2>2
  <1>7. /\ dev' \in [Devices -> DeviceRecord] /\ dev'[d] = s
        /\ \A e \in Devices \ {d} : dev'[e] = dev[e]
        /\ Shared \subseteq Shared'
    BY <1>1, <1>2, <1>5, <1>6, OneDevice
  <1>8. Grows /\ Extends(d)
    BY <1>1, <1>2, <1>5, <1>7 DEF Grows, Extends
  <1>9. old.refetched \/ known \subseteq AppEntries(cfg)
    BY <1>1, <1>2, <1>3 DEF DeviceInv
  <1>10. DeviceInv(d)'
    <2>1. PICK was \in IdSeq : was = old.ids
      BY DEF DeviceRecord
    <2>2. ~mishaps'.doubled => NamedRight(was)' /\ ConfigNamed(cfg)'
      BY <1>1, <1>2, <1>8, <2>1, NamedStays, ConfigStays DEF DeviceInv, Configs
    <2>3. AllOwn(was)'
      BY <1>1, <1>2, <1>8, <2>1, AllOwnStays DEF DeviceInv
    <2>4. /\ Entries(dev'[d].default) \subseteq dev'[d].shared
          /\ dev'[d].refetched \/ dev'[d].known \subseteq AppEntries(dev'[d].config)
      BY <1>1, <1>2, <1>5, <1>7, <1>9 DEF DeviceInv
    <2>5. /\ ~mishaps'.doubled => NamedRight(dev[d].ids)' /\ ConfigNamed(dev[d].config)'
          /\ AllOwn(dev[d].ids)'
      BY <1>5, <1>7, <2>1, <2>2, <2>3
    <2>6. QED
      BY <2>4, <2>5 DEF DeviceInv, AppEntries
  <1>11. kind \in Kinds /\ "upload" \in Phases
    BY DEF Kinds, Phases
  <1>12. PICK b \in CallRecord : b = Begin(c, kind, d, "upload")
    BY <1>11, BeginTyped
  <1>13. b.kind = kind /\ b.dev = d /\ b.found = <<>> /\ b.data = NoProfile
    BY <1>11, <1>12, BeginTyped
  <1>14. PICK r \in CallRecord :
            r = [b EXCEPT !.phase = "upload", !.snapshot = cfg, !.known = known]
    <2>1. [b EXCEPT !.phase = "upload", !.snapshot = cfg, !.known = known] \in CallRecord
      BY <1>11 DEF CallRecord, Configs
    <2>2. QED
      BY <2>1
  <1>15. /\ r.phase = "upload" /\ r.snapshot = cfg /\ r.known = known /\ r.kind = kind
         /\ r.dev = d /\ r.found = <<>> /\ r.data = NoProfile
    BY <1>13, <1>14 DEF CallRecord
  <1>16. call' = [call EXCEPT ![c] = r]
    BY <1>2, <1>3, <1>12, <1>14 DEF Update, Uploading
  <1>17. NamedRight(r.found) /\ AllOwn(r.found) /\ Own(r.data, r.index)
    BY <1>15 DEF NamedRight, AllOwn, Own
  <1>18. /\ r.snapshot # NoConfig
         /\ ~mishaps.doubled => ConfigNamed(r.snapshot)
         /\ dev'[d].refetched \/ r.known \subseteq AppEntries(r.snapshot)
         /\ r.kind \in {"config", "auth", "warn"}
    BY <1>5, <1>7, <1>9, <1>15, NoConfigIsNone
  <1>19. /\ mishaps' \in [failures : 0..MaxFailures, restarts : 0..MaxRestarts,
                          doubled : BOOLEAN]
         /\ mishaps'.doubled = mishaps.doubled
    BY <1>1 DEF Typed
  <1>20. QED
    BY <1>1, <1>7, <1>8, <1>10, <1>15, <1>16, <1>17, <1>18, <1>19, UploadBegins

\* updateConfigWithAuth begins.
LEMMA UpdateConfigWithAuthKeeps ==
    ASSUME Consistent, NEW c \in Calls, NEW d \in Devices, NEW k \in Nat, NEW a \in Apps,
           UpdateConfigWithAuth(c, d, k, a)
    PROVE  Consistent'
  <1>1. /\ Typed /\ DeviceInv(d) /\ dev[d].open /\ dev[d].config # NoConfig
        /\ k \in DOMAIN dev[d].ids
        /\ Update(c, "auth", d, WithAuth(dev[d].config, dev[d].ids, k, a))
    BY DEF Consistent, UpdateConfigWithAuth, Idle
  <1>2. PICK cfg \in ConfigRecord : cfg = dev[d].config
    BY <1>1, DeviceParts DEF Configs
  <1>3. PICK ids \in IdSeq : ids = dev[d].ids
    BY <1>1, DeviceParts
  <1>4. k \in DOMAIN ids
    BY <1>1, <1>3
  <1>5. PICK new \in ConfigRecord : new = WithAuth(cfg, ids, k, a)
    BY <1>4, WithAuthRight
  <1>6. /\ ConfigNamed(cfg) /\ NamedRight(ids) => ConfigNamed(new)
        /\ AppEntries(cfg) \subseteq AppEntries(new)
    BY <1>4, <1>5, WithAuthRight
  <1>7. ~mishaps.doubled => ConfigNamed(new)
    BY <1>1, <1>2, <1>3, <1>6 DEF DeviceInv
  <1>8. Update(c, "auth", d, new)
    BY <1>1, <1>2, <1>3, <1>5
  <1>9. AppEntries(dev[d].config) \subseteq AppEntries(new)
    BY <1>2, <1>6
  <1>10. QED
    BY <1>1, <1>7, <1>8, <1>9, UpdateKeeps

\* updateConfigForReuseWarning begins.
LEMMA UpdateConfigForReuseWarningKeeps ==
    ASSUME Consistent, NEW c \in Calls, NEW d \in Devices, UpdateConfigForReuseWarning(c, d)
    PROVE  Consistent'
  <1>1. /\ Typed /\ DeviceInv(d) /\ dev[d].open /\ dev[d].config # NoConfig
        /\ Update(c, "warn", d, WithWarning(dev[d].config))
    BY DEF Consistent, UpdateConfigForReuseWarning, Idle
  <1>2. PICK cfg \in ConfigRecord : cfg = dev[d].config
    BY <1>1, DeviceParts DEF Configs
  <1>3. PICK new \in ConfigRecord : new = WithWarning(cfg)
    BY WithWarningRight
  <1>4. (ConfigNamed(cfg) => ConfigNamed(new)) /\ AppEntries(cfg) \subseteq AppEntries(new)
    BY <1>3, WithWarningRight
  <1>5. ~mishaps.doubled => ConfigNamed(new)
    BY <1>1, <1>2, <1>4 DEF DeviceInv
  <1>6. Update(c, "warn", d, new)
    BY <1>1, <1>2, <1>3
  <1>7. AppEntries(dev[d].config) \subseteq AppEntries(new)
    BY <1>2, <1>4
  <1>8. QED
    BY <1>1, <1>5, <1>6, <1>7, UpdateKeeps

----------------------------------------------------------------------------
(* The steps: restoring a wallet. *)

\* A wallet is restored: one identity, and everything else as after a start.
LEMMA RestoreKeeps ==
    ASSUME Consistent, NEW c \in Calls, NEW d \in Devices, Restore(c, d)
    PROVE  Consistent'
  <1>1. /\ Typed /\ FilesInv /\ DeviceInv(d) /\ ~Busy(d) /\ ~Pending(c)
        /\ UNCHANGED <<config, profile, owner, mishaps>>
    BY DEF Consistent, Restore, Pending
  <1>2. PICK old \in DeviceRecord : old = dev[d]
    BY <1>1, DeviceParts
  <1>3. PICK id \in Identity : id = MakeIdentity(0)
    BY Bounds, MadeTyped
  <1>4. id.index = 0 /\ id.name = NoName /\ id.profile = NoProfile
    BY <1>3, Bounds, MadeTyped
  <1>5. PICK ids \in IdSeq : ids = <<id>>
    <2>1. <<id>> \in Seq(Identity) /\ Len(<<id>>) = 1
      OBVIOUS
    <2>2. <<id>> \in IdSeq
      BY <2>1, Bounds DEF IdSeq
    <2>3. QED
      BY <2>2
  <1>6. PICK s \in DeviceRecord :
            s = [Closed EXCEPT !.shared = old.shared, !.ids = ids, !.default = old.default]
    <2>1. [Closed EXCEPT !.shared = old.shared, !.ids = ids, !.default = old.default]
            \in DeviceRecord
      BY ClosedTyped DEF DeviceRecord
    <2>2. QED
      BY <2>1
  <1>7. /\ s.ids = ids /\ s.config = NoConfig /\ s.default = old.default /\ ~s.open
        /\ s.known = {} /\ s.shared = old.shared
    BY <1>6 DEF Closed
  <1>8. dev' = [dev EXCEPT ![d] = s]
    BY <1>2, <1>3, <1>5, <1>6 DEF Restore, Ended
  <1>9. /\ dev' \in [Devices -> DeviceRecord] /\ dev'[d] = s
        /\ \A e \in Devices \ {d} : dev'[e] = dev[e]
        /\ Shared \subseteq Shared'
    BY <1>1, <1>2, <1>7, <1>8, OneDevice
  <1>10. Grows
    BY <1>1, <1>9 DEF Grows
  <1>11. "restore" \in Kinds /\ "fetch" \in Phases
    BY DEF Kinds, Phases
  <1>12. PICK r \in CallRecord : r = Begin(c, "restore", d, "fetch")
    BY <1>11, BeginTyped
  <1>13. /\ r.kind = "restore" /\ r.phase = "fetch" /\ r.dev = d /\ r.found = <<>>
         /\ r.snapshot = NoConfig /\ r.data = NoProfile
    BY <1>11, <1>12, BeginTyped
  <1>14. /\ call' \in [Calls -> CallRecord] /\ call'[c] = r
         /\ \A b \in Calls \ {c} : call'[b] = call[b]
    BY <1>1, <1>12, OneCall DEF Restore
  <1>15. Typed' /\ FilesInv'
    BY <1>1, <1>9, <1>10, <1>14, FilesStay DEF Typed
  <1>16. \A b \in Calls \ {c} : Pending(b) => call[b].dev # d
    BY <1>1 DEF Busy, Pending
  <1>17. DeviceInv(d)'
    <2>1. NamedRight(ids)' /\ AllOwn(ids)'
      BY <1>4, <1>5 DEF NamedRight, AllOwn, Owned, Own
    <2>2. Entries(s.default) \subseteq s.shared
      BY <1>1, <1>2, <1>7 DEF DeviceInv
    <2>3. QED
      BY <1>7, <1>9, <2>1, <2>2 DEF DeviceInv, ConfigNamed
  <1>18. CallInv(c)'
    <2>1. Device(c)' = s
      BY <1>9, <1>13, <1>14 DEF Device
    <2>2. \A b \in Calls \ {c} : Pending(b)' => call'[b].dev # call'[c].dev
      BY <1>13, <1>14, <1>16 DEF Pending
    <2>3. ids = <<MakeIdentity(0)>>
      BY <1>3, <1>5
    <2>4. Restoring(c)'
      BY <1>7, <1>13, <1>14, <2>1, <2>2, <2>3
         DEF Restoring, At, NamedRight, AllOwn, MakeIdentity
    <2>5. Positioned(c)'
      BY <1>13, <1>14 DEF Positioned
    <2>6. Uploads(c)'
      BY <1>13, <1>14 DEF Uploads, At, ConfigNamed, Own
    <2>7. QED
      BY <2>4, <2>5, <2>6 DEF CallInv
  <1>19. Pending(c)' => call'[c].dev = d
    BY <1>13, <1>14
  <1>20. QED
    BY <1>1, <1>9, <1>10, <1>14, <1>15, <1>16, <1>17, <1>18, <1>19, Composed

\* The identities a config tells of.
LEMMA RestoredFromRight ==
    ASSUME NEW cfg \in ConfigRecord
    PROVE  /\ RestoredFrom(cfg) \in IdSeq
           /\ ConfigNamed(cfg) => NamedRight(RestoredFrom(cfg))
           /\ AllOwn(RestoredFrom(cfg))
  <1>1. PICK cs \in ConfigSeq : cs = cfg.ids
    BY DEF ConfigRecord
  <1>2. PICK ids : ids = RestoredFrom(cfg)
    OBVIOUS
  <1>3. /\ Len(cs) \in Nat /\ Len(cs) <= MaxIdentities + 1 /\ DOMAIN cs = 1..Len(cs)
        /\ \A k \in DOMAIN cs : cs[k] \in IdentityConfig
    BY SeqParts
  <1>4. DOMAIN ids = 1..Len(cs)
    BY <1>1, <1>2, <1>3 DEF RestoredFrom
  <1>5. ASSUME NEW k \in 1..Len(cs)
        PROVE  /\ ids[k] \in Identity /\ ids[k].index = k - 1 /\ ids[k].name = cs[k].name
               /\ ids[k].profile = NoProfile
    <2>1. k - 1 \in Indices /\ cs[k].name \in Names \cup {NoName}
      BY <1>3, Bounds DEF IdentityConfig
    <2>2. PICK id \in Identity : id = MakeIdentity(k - 1)
      BY <2>1, MadeTyped
    <2>3. id.index = k - 1 /\ id.profile = NoProfile
      BY <2>1, <2>2, MadeTyped
    <2>4. ids[k] = [id EXCEPT !.name = cs[k].name, !.names = {cs[k].name} \ {NoName}]
      BY <1>1, <1>2, <1>3, <2>2 DEF RestoredFrom
    <2>5. QED
      BY <2>1, <2>3, <2>4 DEF Identity
  <1>6. ids \in IdSeq
    <2>1. PICK n \in Nat : n = Len(cs)
      BY <1>3
    <2>2. ids = [k \in 1..n |-> ids[k]]
      BY <1>1, <1>2, <1>3, <2>1 DEF RestoredFrom
    <2>3. ids \in [1..n -> Identity]
      BY <1>5, <2>1, <2>2
    <2>4. ids \in Seq(Identity) /\ Len(ids) = n
      BY <2>3
    <2>5. QED
      BY <1>3, <2>1, <2>4 DEF IdSeq
  <1>7. ConfigNamed(cfg) => NamedRight(ids)
    BY <1>1, <1>3, <1>4, <1>5, NoConfigIsNone DEF ConfigNamed, NamedRight
  <1>8. AllOwn(ids)
    BY <1>4, <1>5 DEF AllOwn, Own
  <1>9. QED
    BY <1>2, <1>6, <1>7, <1>8

\* A wallet is restored from the config.
LEMMA RestoreConfigKeeps ==
    ASSUME Consistent, NEW c \in Calls, RestoreConfig(c)
    PROVE  Consistent'
  <1>1. /\ Typed /\ FilesInv /\ CallInv(c) /\ Pending(c) /\ call[c].kind = "restore"
        /\ config # NoConfig /\ Free(c) /\ DeviceInv(call[c].dev)
        /\ UNCHANGED <<config, profile, owner, mishaps>>
    BY CallParts DEF Consistent, RestoreConfig, At, Pending
  <1>2. PICK d \in Devices : d = call[c].dev
    BY <1>1, CallParts
  <1>3. PICK cfg \in ConfigRecord : cfg = config
    BY <1>1 DEF Typed, Configs
  <1>4. PICK ids \in IdSeq : ids = RestoredFrom(cfg)
    BY RestoredFromRight
  <1>5. PICK old \in DeviceRecord : old = dev[d]
    BY <1>1, DeviceParts
  <1>6. PICK known \in SUBSET (Nat \X Apps) : known = AppEntries(cfg)
    BY EntriesOf
  <1>7. PICK s \in DeviceRecord : s = [old EXCEPT !.open = TRUE, !.ids = ids,
                                            !.config = cfg, !.known = known]
    <2>1. [old EXCEPT !.open = TRUE, !.ids = ids, !.config = cfg, !.known = known]
            \in DeviceRecord
      BY DEF DeviceRecord, Configs
    <2>2. QED
      BY <2>1
  <1>8. /\ s.ids = ids /\ s.config = cfg /\ s.default = old.default /\ s.known = known
        /\ s.shared = old.shared
    BY <1>7 DEF DeviceRecord
  <1>9. dev' = [dev EXCEPT ![d] = s]
    <2>1. dev' = [dev EXCEPT ![d].open = TRUE, ![d].ids = ids, ![d].config = cfg,
                             ![d].known = known]
      BY <1>2, <1>3, <1>4, <1>6 DEF RestoreConfig
    <2>2. [dev EXCEPT ![d].open = TRUE, ![d].ids = ids, ![d].config = cfg,
                      ![d].known = known] = [dev EXCEPT ![d] = s]
      BY <1>1, <1>5, <1>7 DEF Typed
    <2>3. QED
      BY <2>1, <2>2
  <1>10. /\ dev' \in [Devices -> DeviceRecord] /\ dev'[d] = s
         /\ \A e \in Devices \ {d} : dev'[e] = dev[e]
         /\ Shared \subseteq Shared'
    BY <1>1, <1>5, <1>8, <1>9, OneDevice
  <1>11. Grows
    BY <1>1, <1>10 DEF Grows
  <1>12. DeviceInv(d)'
    <2>1. ~mishaps.doubled => ConfigNamed(cfg) /\ NamedRight(ids)
      BY <1>1, <1>3, <1>4, RestoredFromRight DEF FilesInv
    <2>2. ~mishaps'.doubled => ConfigNamed(cfg)' /\ NamedRight(ids)'
      BY <1>1, <1>11, <2>1, NamedStays, ConfigStays DEF Configs
    <2>3. AllOwn(ids)'
      BY <1>4, <1>11, RestoredFromRight, AllOwnStays
    <2>4. /\ Entries(dev'[d].default) \subseteq dev'[d].shared
          /\ dev'[d].known \subseteq AppEntries(dev'[d].config)
      BY <1>1, <1>2, <1>5, <1>6, <1>8, <1>10 DEF DeviceInv
    <2>5. /\ ~mishaps'.doubled => NamedRight(dev[d].ids)' /\ ConfigNamed(dev[d].config)'
          /\ AllOwn(dev[d].ids)'
      BY <1>8, <1>10, <2>2, <2>3
    <2>6. QED
      BY <2>4, <2>5 DEF DeviceInv, AppEntries
  <1>13. \A b \in Calls \ {c} : Pending(b) => call[b].dev # call[c].dev
    BY <1>1 DEF CallInv, Restoring
  <1>14. QED
    BY <1>1, <1>2, <1>10, <1>11, <1>12, <1>13, EndsOnDevice DEF Typed

\* The last identity found is looked up.
LEMMA LastReplaced ==
    ASSUME NEW s \in IdSeq, s # <<>>, NEW id \in Identity
    PROVE  /\ Front(s) \in IdSeq /\ DOMAIN Front(s) = 1..(Len(s) - 1)
           /\ \A k \in 1..(Len(s) - 1) : Front(s)[k] = s[k]
           /\ Append(Front(s), id) \in IdSeq /\ DOMAIN Append(Front(s), id) = 1..Len(s)
           /\ \A k \in 1..(Len(s) - 1) : Append(Front(s), id)[k] = s[k]
           /\ Append(Front(s), id)[Len(s)] = id
           /\ Last(s) = s[Len(s)] /\ Len(s) \in Nat \ {0} /\ Len(Append(Front(s), id)) = Len(s)
  <1>1. /\ s \in Seq(Identity) /\ Len(s) \in Nat \ {0} /\ Len(s) <= MaxIdentities + 1
        /\ MaxIdentities \in Nat
    BY Bounds, SeqParts DEF IdSeq
  <1>2. PICK f : f = Front(s)
    OBVIOUS
  <1>3. f \in Seq(Identity) /\ Len(f) = Len(s) - 1 /\ \A k \in 1..(Len(s) - 1) : f[k] = s[k]
    <2>1. PICK n \in Nat : n = Len(s) - 1
      BY <1>1
    <2>2. f = [k \in 1..n |-> s[k]]
      BY <1>1, <1>2, <2>1 DEF Front
    <2>3. f \in [1..n -> Identity]
      <3>1. ASSUME NEW k \in 1..n PROVE s[k] \in Identity
        BY <1>1, <2>1
      <3>2. QED
        BY <2>2, <3>1
    <2>4. f \in Seq(Identity) /\ Len(f) = n
      BY <2>3
    <2>5. QED
      BY <2>1, <2>2, <2>4
  <1>4. DOMAIN f = 1..(Len(s) - 1)
    BY <1>1, <1>3
  <1>5. PICK g : g = Append(f, id)
    OBVIOUS
  <1>6. /\ g \in Seq(Identity) /\ Len(g) = Len(s) /\ DOMAIN g = 1..Len(s)
        /\ \A k \in 1..(Len(s) - 1) : g[k] = f[k]
        /\ g[Len(s)] = id
    BY <1>1, <1>3, <1>4, <1>5
  <1>7. f \in IdSeq /\ g \in IdSeq
    BY <1>1, <1>3, <1>6 DEF IdSeq
  <1>8. Last(s) = s[Len(s)]
    BY DEF Last
  <1>9. QED
    BY <1>1, <1>2, <1>3, <1>4, <1>5, <1>6, <1>7, <1>8

\* Without a config, the identities found so far, and what the next step does.
LEMMA RestoreNextKeeps ==
    ASSUME Consistent, NEW c \in Calls, RestoreNext(c)
    PROVE  Consistent'
  <1>1. /\ Typed /\ FilesInv /\ CallInv(c) /\ Pending(c) /\ call[c].kind = "restore"
        /\ call[c].phase = "refresh" /\ DeviceInv(call[c].dev)
        /\ UNCHANGED <<config, profile, owner>>
    BY CallParts DEF Consistent, RestoreNext, At, Pending
  <1>2. PICK d \in Devices : d = call[c].dev
    BY <1>1, CallParts
  <1>3. PICK s \in IdSeq : s = call[c].found
    BY <1>1, CallParts
  <1>4. s # <<>> /\ NamedRight(s) /\ AllOwn(s)
    BY <1>1, <1>3 DEF CallInv, Restoring, At
  <1>5. PICK id \in Identity : id = Last(s) /\ id = s[Len(s)] /\ Len(s) \in DOMAIN s
    <2>1. /\ s \in Seq(Identity) /\ Len(s) \in Nat /\ DOMAIN s = 1..Len(s)
          /\ \A k \in DOMAIN s : s[k] \in Identity
      BY SeqParts
    <2>2. Len(s) # 0
      BY <1>4, <2>1
    <2>3. QED
      BY <2>1, <2>2 DEF Last
  <1>6. id.index = Len(s) - 1 /\ Owned(id.name, id.index) /\ Own(id.profile, id.index)
    BY <1>4, <1>5 DEF NamedRight, AllOwn
  <1>7. PICK new \in Refreshable(id) :
            /\ Refreshes(id, new)
            /\ IF (id.index = 0 \/ new.name # NoName) /\ id.index < MaxIdentities
               THEN /\ call' = [call EXCEPT ![c].found =
                                  Append(Append(Front(s), new), MakeIdentity(id.index + 1))]
                    /\ UNCHANGED dev
               ELSE /\ dev' = [dev EXCEPT ![d].open = TRUE,
                                 ![d].ids = IF id.index = 0 \/ new.name # NoName
                                            THEN Append(Front(s), new) ELSE Front(s)]
                    /\ Free(c)
    <2>1. PICK new \in Refreshable(Last(call[c].found)) :
            /\ Refreshes(Last(call[c].found), new)
            /\ IF (Last(call[c].found).index = 0 \/ new.name # NoName)
                   /\ Last(call[c].found).index < MaxIdentities
               THEN /\ call' = [call EXCEPT ![c].found =
                                  Append(Append(Front(call[c].found), new),
                                         MakeIdentity(Last(call[c].found).index + 1))]
                    /\ UNCHANGED dev
               ELSE /\ dev' = [dev EXCEPT ![call[c].dev].open = TRUE,
                                 ![call[c].dev].ids =
                                    IF Last(call[c].found).index = 0 \/ new.name # NoName
                                    THEN Append(Front(call[c].found), new)
                                    ELSE Front(call[c].found)]
                    /\ Free(c)
      BY DEF RestoreNext
    <2>2. call[c].dev = d /\ call[c].found = s /\ Last(s) = id
      BY <1>2, <1>3, <1>5
    <2>3. new \in Refreshable(id) /\ Refreshes(id, new)
      BY <2>1, <2>2
    <2>4. CASE (id.index = 0 \/ new.name # NoName) /\ id.index < MaxIdentities
      <3>1. /\ call' = [call EXCEPT ![c].found =
                           Append(Append(Front(s), new), MakeIdentity(id.index + 1))]
            /\ UNCHANGED dev
        BY <2>1, <2>2, <2>4
      <3>2. QED
        BY <2>3, <2>4, <3>1
    <2>5. CASE ~((id.index = 0 \/ new.name # NoName) /\ id.index < MaxIdentities)
      <3>1. /\ dev' = [dev EXCEPT ![d].open = TRUE,
                         ![d].ids = IF id.index = 0 \/ new.name # NoName
                                    THEN Append(Front(s), new) ELSE Front(s)]
            /\ Free(c)
        BY <2>1, <2>2, <2>5
      <3>2. QED
        BY <2>3, <2>5, <3>1
    <2>6. QED
      BY <2>4, <2>5
  <1>8. /\ new \in Identity /\ new.index = id.index
        /\ Owned(new.name, new.index) /\ Own(new.profile, new.index)
    BY <1>1, <1>6, RefreshableRight
  <1>9. /\ mishaps' \in [failures : 0..MaxFailures, restarts : 0..MaxRestarts,
                         doubled : BOOLEAN]
        /\ mishaps'.doubled = mishaps.doubled
    BY <1>1, <1>7, FailsTyped DEF Typed, Refreshes
  <1>10. PICK f \in IdSeq : f = Front(s)
    BY <1>4, LastReplaced
  <1>11. PICK g \in IdSeq : g = Append(Front(s), new)
    BY <1>4, <1>8, LastReplaced
  <1>12. /\ DOMAIN f = 1..(Len(s) - 1) /\ \A k \in 1..(Len(s) - 1) : f[k] = s[k]
         /\ DOMAIN g = 1..Len(s) /\ \A k \in 1..(Len(s) - 1) : g[k] = s[k]
         /\ g[Len(s)] = new /\ Len(s) \in Nat \ {0} /\ Len(g) = Len(s)
         /\ DOMAIN s = 1..Len(s)
    <2>1. new \in Identity
      BY <1>8
    <2>2. /\ DOMAIN f = 1..(Len(s) - 1) /\ \A k \in 1..(Len(s) - 1) : f[k] = s[k]
      BY <1>4, <1>10, <2>1, LastReplaced
    <2>3. /\ DOMAIN g = 1..Len(s) /\ \A k \in 1..(Len(s) - 1) : g[k] = s[k]
          /\ g[Len(s)] = new /\ Len(s) \in Nat \ {0} /\ Len(g) = Len(s)
      BY <1>4, <1>11, <2>1, LastReplaced
    <2>4. DOMAIN s = 1..Len(s)
      BY SeqParts
    <2>5. QED
      BY <2>2, <2>3, <2>4
  <1>13. ASSUME NEW k \in 1..Len(s)
         PROVE  k = Len(s) \/ k \in 1..(Len(s) - 1)
    <2>1. Len(s) \in Nat \ {0}
      BY <1>12
    <2>2. QED
      BY <2>1
  <1>14. NamedRight(f) /\ AllOwn(f)
    <2>1. ASSUME NEW k \in DOMAIN f PROVE f[k] = s[k] /\ k \in DOMAIN s
      BY <1>12
    <2>2. NamedRight(f)
      BY <1>4, <2>1 DEF NamedRight
    <2>3. AllOwn(f)
      BY <1>4, <2>1 DEF AllOwn
    <2>4. QED
      BY <2>2, <2>3
  <1>15. NamedRight(g) /\ AllOwn(g)
    <2>1. ASSUME NEW k \in DOMAIN g
          PROVE  /\ g[k].index = k - 1 /\ Owned(g[k].name, k - 1)
                 /\ Own(g[k].profile, g[k].index)
      BY <1>4, <1>6, <1>8, <1>12, <1>13 DEF NamedRight, AllOwn
    <2>2. QED
      BY <2>1 DEF NamedRight, AllOwn
  <1>16. CASE (id.index = 0 \/ new.name # NoName) /\ id.index < MaxIdentities
    <2>1. PICK more \in Identity : more = MakeIdentity(Len(s))
      <3>1. Len(s) \in Indices
        BY <1>6, <1>12, <1>16, Bounds
      <3>2. QED
        BY <3>1, MadeTyped
    <2>2. more.index = Len(s) /\ more.name = NoName /\ more.profile = NoProfile
      BY <2>1 DEF MakeIdentity
    <2>3. PICK h \in IdSeq : h = Append(g, more)
      <3>1. g \in Seq(Identity) /\ Len(s) <= MaxIdentities /\ MaxIdentities \in Nat
        BY <1>6, <1>12, <1>16, Bounds, SeqParts
      <3>2. Append(g, more) \in Seq(Identity) /\ Len(Append(g, more)) = Len(s) + 1
        BY <1>12, <3>1
      <3>3. Append(g, more) \in IdSeq
        BY <1>12, <3>1, <3>2 DEF IdSeq
      <3>4. QED
        BY <3>3
    <2>4. /\ DOMAIN h = 1..(Len(s) + 1) /\ \A k \in 1..Len(s) : h[k] = g[k]
          /\ h[Len(s) + 1] = more /\ h # <<>>
      <3>1. g \in Seq(Identity)
        BY SeqParts
      <3>2. QED
        BY <1>12, <2>3, <3>1
    <2>5. NamedRight(h) /\ AllOwn(h)
      <3>1. ASSUME NEW k \in DOMAIN h
            PROVE  /\ h[k].index = k - 1 /\ Owned(h[k].name, k - 1)
                   /\ Own(h[k].profile, h[k].index)
        <4>1. CASE k = Len(s) + 1
          BY <1>12, <2>2, <2>4, <4>1 DEF Owned, Own
        <4>2. CASE k \in 1..Len(s)
          BY <1>12, <1>15, <2>4, <4>2 DEF NamedRight, AllOwn
        <4>3. QED
          BY <1>12, <2>4, <4>1, <4>2
      <3>2. QED
        BY <3>1 DEF NamedRight, AllOwn
    <2>6. PICK was \in CallRecord : was = call[c]
      BY <1>1, CallParts
    <2>7. PICK r \in CallRecord : r = [was EXCEPT !.found = h]
      BY DEF CallRecord
    <2>8. /\ r.phase = "refresh" /\ r.kind = "restore" /\ r.dev = d /\ r.found = h
          /\ r.snapshot = was.snapshot /\ r.data = was.data /\ r.index = was.index
      BY <1>1, <1>2, <2>6, <2>7 DEF CallRecord
    <2>9. call' = [call EXCEPT ![c] = r] /\ UNCHANGED dev
      <3>1. id.index + 1 = Len(s)
        BY <1>6, <1>12
      <3>2. QED
        BY <1>7, <1>11, <1>16, <2>1, <2>3, <2>6, <2>7, <3>1
    <2>10. /\ call' \in [Calls -> CallRecord] /\ call'[c] = r
           /\ \A b \in Calls \ {c} : call'[b] = call[b]
      BY <1>1, <2>9, OneCall
    <2>11. Grows
      BY <1>1, <1>9, <2>9, NothingGrows
    <2>12. Typed' /\ FilesInv'
      BY <1>1, <1>9, <2>9, <2>10, <2>11, FilesStay DEF Typed
    <2>13. CallInv(c)'
      <3>1. NamedRight(h)' /\ AllOwn(h)'
        BY <2>5, <2>11, NamedStays, AllOwnStays
      <3>2. ~(Device(c)').open
        BY <1>1, <1>2, <2>8, <2>9, <2>10 DEF CallInv, Restoring, Device
      <3>3. \A b \in Calls \ {c} : Pending(b)' => call'[b].dev # call'[c].dev
        BY <1>1, <1>2, <2>8, <2>10 DEF CallInv, Restoring, Pending
      <3>4. Restoring(c)'
        BY <2>4, <2>8, <2>10, <3>1, <3>2, <3>3 DEF Restoring, At
      <3>5. Positioned(c)'
        BY <2>8, <2>10 DEF Positioned
      <3>6. PICK cfg \in Configs : cfg = was.snapshot
        BY DEF CallRecord
      <3>7. ~mishaps'.doubled => ConfigNamed(cfg)'
        BY <1>1, <1>9, <2>6, <2>11, <3>6, ConfigStays DEF CallInv, Uploads
      <3>8. Own(was.data, was.index)'
        BY <1>1, <2>6, <2>11 DEF Grows, Own, CallInv, Uploads
      <3>9. Uploads(c)'
        BY <2>8, <2>10, <3>6, <3>7, <3>8 DEF Uploads, At
      <3>10. QED
        BY <3>4, <3>5, <3>9 DEF CallInv
    <2>14. call'[c].dev \in Devices /\ call'[c].dev = call[c].dev
      BY <1>2, <2>8, <2>10
    <2>15. QED
      BY <1>1, <2>9, <2>10, <2>11, <2>12, <2>13, <2>14, Elsewhere
  <1>17. CASE ~((id.index = 0 \/ new.name # NoName) /\ id.index < MaxIdentities)
    <2>1. PICK ids \in {f, g} :
            ids = IF id.index = 0 \/ new.name # NoName THEN g ELSE f
      OBVIOUS
    <2>2. ids \in IdSeq /\ NamedRight(ids) /\ AllOwn(ids)
      BY <1>14, <1>15
    <2>3. PICK old \in DeviceRecord : old = dev[d]
      BY <1>1, DeviceParts
    <2>4. PICK t \in DeviceRecord : t = [old EXCEPT !.open = TRUE, !.ids = ids]
      <3>1. [old EXCEPT !.open = TRUE, !.ids = ids] \in DeviceRecord
        BY <2>2 DEF DeviceRecord
      <3>2. QED
        BY <3>1
    <2>5. /\ t.ids = ids /\ t.config = old.config /\ t.default = old.default
          /\ t.known = old.known /\ t.shared = old.shared /\ t.refetched = old.refetched
      BY <2>4 DEF DeviceRecord
    <2>6. dev' = [dev EXCEPT ![d] = t] /\ Free(c)
      <3>1. dev' = [dev EXCEPT ![d].open = TRUE, ![d].ids = ids] /\ Free(c)
        BY <1>7, <1>10, <1>11, <1>17, <2>1
      <3>2. [dev EXCEPT ![d].open = TRUE, ![d].ids = ids] = [dev EXCEPT ![d] = t]
        BY <1>1, <2>3, <2>4 DEF Typed
      <3>3. QED
        BY <3>1, <3>2
    <2>7. /\ dev' \in [Devices -> DeviceRecord] /\ dev'[d] = t
          /\ \A e \in Devices \ {d} : dev'[e] = dev[e]
          /\ Shared \subseteq Shared'
      BY <1>1, <2>3, <2>5, <2>6, OneDevice
    <2>8. Grows
      BY <1>1, <1>9, <2>7 DEF Grows
    <2>9. DeviceInv(d)'
      <3>1. NamedRight(ids)' /\ AllOwn(ids)'
        BY <2>2, <2>8, NamedStays, AllOwnStays
      <3>2. PICK cfg \in Configs : cfg = old.config
        BY DEF DeviceRecord
      <3>3. ~mishaps'.doubled => ConfigNamed(cfg)'
        BY <1>1, <1>2, <1>9, <2>3, <2>8, <3>2, ConfigStays DEF DeviceInv
      <3>4. /\ Entries(dev'[d].default) \subseteq dev'[d].shared
            /\ dev'[d].refetched \/ dev'[d].known \subseteq AppEntries(dev'[d].config)
        BY <1>1, <1>2, <2>3, <2>5, <2>7 DEF DeviceInv
      <3>5. /\ ~mishaps'.doubled => NamedRight(dev[d].ids)' /\ ConfigNamed(dev[d].config)'
            /\ AllOwn(dev[d].ids)'
        BY <2>5, <2>7, <3>1, <3>2, <3>3
      <3>6. QED
        BY <3>4, <3>5 DEF DeviceInv, AppEntries
    <2>10. \A b \in Calls \ {c} : Pending(b) => call[b].dev # call[c].dev
      BY <1>1 DEF CallInv, Restoring
    <2>11. QED
      BY <1>1, <1>2, <1>9, <2>6, <2>7, <2>8, <2>9, <2>10, EndsOnDevice
  <1>18. QED
    BY <1>16, <1>17

----------------------------------------------------------------------------
(* The steps: the profile for an auth response, and a restart. *)

\* The default profile gets an entry, which counts as shared from then on.
LEMMA DefaultGrows ==
    ASSUME Typed, NEW d \in Devices, DeviceInv(d), NEW app \in Apps, NEW index \in Indices,
           dev' = [dev EXCEPT ![d].default[app] = index,
                              ![d].shared = @ \cup {<<app, index>>}],
           UNCHANGED owner, mishaps'.doubled = mishaps.doubled
    PROVE  /\ Grows /\ Extends(d) /\ DeviceInv(d)' /\ dev' \in [Devices -> DeviceRecord]
           /\ \A e \in Devices \ {d} : dev'[e] = dev[e]
  <1>1. PICK old \in DeviceRecord : old = dev[d]
    BY DeviceParts
  <1>2. PICK default \in Profile :
            /\ default = [old.default EXCEPT ![app] = index]
            /\ Entries(default) \subseteq Entries(old.default) \cup {<<app, index>>}
    BY EntryReplaced DEF DeviceRecord
  <1>3. PICK shared \in SUBSET (Apps \X Indices) : shared = old.shared \cup {<<app, index>>}
    <2>1. old.shared \cup {<<app, index>>} \in SUBSET (Apps \X Indices)
      BY DEF DeviceRecord
    <2>2. QED
      BY <2>1
  <1>4. PICK s \in DeviceRecord : s = [old EXCEPT !.default = default, !.shared = shared]
    <2>1. [old EXCEPT !.default = default, !.shared = shared] \in DeviceRecord
      BY DEF DeviceRecord
    <2>2. QED
      BY <2>1
  <1>5. /\ s.ids = old.ids /\ s.config = old.config /\ s.default = default
        /\ s.known = old.known /\ s.refetched = old.refetched /\ s.shared = shared
    BY <1>4 DEF DeviceRecord
  <1>6. dev' = [dev EXCEPT ![d] = s]
    <2>1. [dev EXCEPT ![d].default[app] = index, ![d].shared = @ \cup {<<app, index>>}]
            = [dev EXCEPT ![d] = [old EXCEPT !.default[app] = index,
                                             !.shared = @ \cup {<<app, index>>}]]
      BY <1>1 DEF Typed
    <2>2. [old EXCEPT !.default[app] = index, !.shared = @ \cup {<<app, index>>}] = s
      BY <1>2, <1>3, <1>4 DEF DeviceRecord
    <2>3. QED
      BY <2>1, <2>2
  <1>7. /\ dev' \in [Devices -> DeviceRecord] /\ dev'[d] = s
        /\ \A e \in Devices \ {d} : dev'[e] = dev[e]
        /\ Shared \subseteq Shared'
    BY <1>1, <1>3, <1>5, <1>6, OneDevice
  <1>8. Grows /\ Extends(d)
    BY <1>1, <1>5, <1>7 DEF Grows, Extends
  <1>9. DeviceInv(d)'
    <2>1. PICK was \in IdSeq : was = old.ids
      BY DEF DeviceRecord
    <2>2. PICK cfg \in Configs : cfg = old.config
      BY DEF DeviceRecord
    <2>3. ~mishaps'.doubled => NamedRight(was)' /\ ConfigNamed(cfg)'
      BY <1>1, <1>8, <2>1, <2>2, NamedStays, ConfigStays DEF DeviceInv
    <2>4. AllOwn(was)'
      BY <1>1, <1>8, <2>1, AllOwnStays DEF DeviceInv
    <2>5. /\ Entries(dev'[d].default) \subseteq dev'[d].shared
          /\ dev'[d].refetched \/ dev'[d].known \subseteq AppEntries(dev'[d].config)
      BY <1>1, <1>2, <1>3, <1>5, <1>7 DEF DeviceInv
    <2>6. /\ ~mishaps'.doubled => NamedRight(dev[d].ids)' /\ ConfigNamed(dev[d].config)'
          /\ AllOwn(dev[d].ids)'
      BY <1>5, <1>7, <2>1, <2>2, <2>3, <2>4
    <2>7. QED
      BY <2>5, <2>6 DEF DeviceInv, AppEntries
  <1>10. QED
    BY <1>7, <1>8, <1>9

\* The profile is fetched, or taken from the default one; the response ends
\* with it, or goes on to publish it with its own entry.
LEMMA ProfileFetchedKeeps ==
    ASSUME Consistent, NEW c \in Calls, ProfileFetched(c)
    PROVE  Consistent'
  <1>1. /\ Typed /\ FilesInv /\ CallInv(c) /\ Pending(c) /\ call[c].kind = "respond"
        /\ DeviceInv(call[c].dev) /\ UNCHANGED <<config, profile, owner>>
    BY CallParts DEF Consistent, ProfileFetched, At, Pending
  <1>2. PICK d \in Devices : d = call[c].dev
    BY <1>1, CallParts
  <1>3. PICK was \in CallRecord : was = call[c]
    BY <1>1, CallParts
  <1>4. PICK app \in Apps, index \in Indices : app = was.app /\ index = was.index
    BY DEF CallRecord
  <1>5. PICK p \in {profile[call[c].index], NoProfile} :
            /\ Fetches(call[c].index, p)
            /\ IF call[c].publish
               THEN /\ call' = [call EXCEPT ![c].phase = "publish",
                                  ![c].fallback = (p = NoProfile),
                                  ![c].read = IF p = NoProfile THEN EmptyProfile ELSE p,
                                  ![c].data = [OrDefault(d, p) EXCEPT ![app] = index]]
                    /\ dev' = IF p = NoProfile
                              THEN [dev EXCEPT ![d].default[app] = index,
                                               ![d].shared = @ \cup {<<app, index>>}]
                              ELSE dev
               ELSE /\ dev' = [dev EXCEPT ![d].ids[call[c].pos].profile =
                                 IF p = NoProfile THEN Default ELSE p]
                    /\ Finish(c)
    BY <1>2, <1>3, <1>4 DEF ProfileFetched
  <1>6. p \in {NoProfile} \cup Profile /\ Own(p, call[c].index) /\ call[c].index \in Indices
    BY <1>1, CallParts DEF Typed, FilesInv, Own
  <1>7. /\ mishaps' \in [failures : 0..MaxFailures, restarts : 0..MaxRestarts,
                         doubled : BOOLEAN]
        /\ mishaps'.doubled = mishaps.doubled
    BY <1>1, <1>5, FailsTyped DEF Typed, Fetches
  <1>8. CASE ~call[c].publish
    <2>1. PICK q \in Profiles : q = IF p = NoProfile THEN Default ELSE p
      BY <1>6 DEF Profiles
    <2>2. Own(q, call[c].index)
      BY <1>6, <2>1 DEF Own
    <2>3. /\ dev' = [dev EXCEPT ![call[c].dev].ids[call[c].pos].profile = q]
          /\ Finish(c)
      BY <1>2, <1>5, <1>8, <2>1
    <2>4. Grows => FilesInv'
      BY <1>1, FilesStay
    <2>5. QED
      BY <1>1, <1>7, <2>2, <2>3, <2>4, EndsWithProfile DEF Typed
  <1>9. CASE call[c].publish
    <2>1. /\ Grows /\ Extends(d) /\ DeviceInv(d)' /\ dev' \in [Devices -> DeviceRecord]
          /\ \A e \in Devices \ {d} : dev'[e] = dev[e]
      <3>1. CASE p = NoProfile
        <4>1. dev' = [dev EXCEPT ![d].default[app] = index,
                                 ![d].shared = @ \cup {<<app, index>>}]
          BY <1>5, <1>9, <3>1
        <4>2. QED
          BY <1>1, <1>2, <1>7, <4>1, DefaultGrows
      <3>2. CASE p # NoProfile
        <4>1. UNCHANGED dev
          BY <1>5, <1>9, <3>2
        <4>2. Grows
          BY <1>1, <1>7, <4>1, NothingGrows
        <4>3. DeviceInv(d)'
          BY <1>1, <1>2, <4>1, <4>2, DeviceStays
        <4>4. QED
          BY <1>1, <4>1, <4>2, <4>3 DEF Typed, Extends
      <3>3. QED
        BY <3>1, <3>2
    <2>2. OrDefault(d, p) \in Profile /\ Own(OrDefault(d, p), call[c].index)
      BY <1>1, <1>2, <1>6, OrDefaultOwn DEF Profiles
    <2>3. PICK q \in Profile :
              /\ q = [OrDefault(d, p) EXCEPT ![app] = index]
              /\ Entries(q) \subseteq Entries(OrDefault(d, p)) \cup {<<app, index>>}
              /\ Replaces(OrDefault(d, p), q, app, index)
      BY <2>2, EntryReplaced
    <2>4. Own(q, call[c].index)
      <3>1. SUFFICES ASSUME NEW e \in Entries(q), e[2] # index
                     PROVE  e \in Shared
        BY <1>3, <1>4 DEF Own
      <3>2. e # <<app, index>>
        BY <3>1
      <3>3. e \in Entries(OrDefault(d, p))
        BY <2>3, <3>1, <3>2
      <3>4. QED
        BY <1>3, <1>4, <2>2, <3>1, <3>3, Bounds DEF Own
    <2>5. PICK read \in Profile : read = IF p = NoProfile THEN EmptyProfile ELSE p
      BY <1>6, Bounds
    <2>6. Replaces(read, q, app, index)
      <3>1. CASE p = NoProfile
        BY <2>3, <2>5, <3>1 DEF Replaces, EmptyProfile
      <3>2. CASE p # NoProfile
        <4>1. OrDefault(d, p) = p
          BY <1>6, <3>2, Bounds DEF OrDefault
        <4>2. QED
          BY <2>3, <2>5, <3>2, <4>1
      <3>3. QED
        BY <3>1, <3>2
    <2>7. PICK fallback \in BOOLEAN : fallback = (p = NoProfile)
      OBVIOUS
    <2>8. PICK r \in CallRecord : r = [was EXCEPT !.phase = "publish", !.fallback = fallback,
                                                  !.read = read, !.data = q]
      <3>1. [was EXCEPT !.phase = "publish", !.fallback = fallback, !.read = read, !.data = q]
                \in CallRecord
        BY DEF CallRecord, Phases, Profiles
      <3>2. QED
        BY <3>1
    <2>9. /\ r.phase = "publish" /\ r.kind = "respond" /\ r.dev = d /\ r.found = was.found
          /\ r.snapshot = was.snapshot /\ r.data = q /\ r.index = was.index
          /\ r.pos = was.pos /\ r.app = was.app /\ r.read = read
      BY <1>1, <1>2, <1>3, <2>8 DEF CallRecord
    <2>10. call' = [call EXCEPT ![c] = r]
      BY <1>3, <1>5, <1>9, <2>3, <2>5, <2>7, <2>8
    <2>11. /\ call' \in [Calls -> CallRecord] /\ call'[c] = r
           /\ \A b \in Calls \ {c} : call'[b] = call[b]
      BY <1>1, <2>10, OneCall
    <2>12. Typed' /\ FilesInv'
      BY <1>1, <1>7, <2>1, <2>11, FilesStay DEF Typed
    <2>13. CallInv(c)'
      <3>1. PICK found \in IdSeq : found = was.found
        BY DEF CallRecord
      <3>2. NamedRight(found)' /\ AllOwn(found)'
        BY <1>1, <1>3, <2>1, <3>1, NamedStays, AllOwnStays DEF CallInv, Restoring
      <3>3. Restoring(c)'
        BY <2>9, <2>11, <3>1, <3>2 DEF Restoring, At
      <3>4. /\ was.pos \in DOMAIN dev[d].ids /\ dev[d].ids[was.pos].index = was.index
            /\ Device(c)' = dev'[d]
        BY <1>1, <1>2, <1>3, <2>9, <2>11 DEF CallInv, Positioned, Device
      <3>5. was.pos \in DOMAIN dev'[d].ids /\ dev'[d].ids[was.pos].index = was.index
        BY <2>1, <3>4 DEF Extends
      <3>6. Positioned(c)'
        BY <2>9, <2>11, <3>4, <3>5 DEF Positioned
      <3>7. PICK cfg \in Configs : cfg = was.snapshot
        BY DEF CallRecord
      <3>8. ~mishaps'.doubled => ConfigNamed(cfg)'
        BY <1>1, <1>3, <1>7, <2>1, <3>7, ConfigStays DEF CallInv, Uploads
      <3>9. Own(q, was.index)'
        BY <1>3, <2>1, <2>4 DEF Own, Grows
      <3>10. Uploads(c)'
        BY <1>4, <2>6, <2>9, <2>11, <3>7, <3>8, <3>9 DEF Uploads, At
      <3>11. QED
        BY <3>3, <3>6, <3>10 DEF CallInv
    <2>14. Pending(c)' => call'[c].dev = d
      BY <2>9, <2>11
    <2>15. QED
      BY <1>1, <1>2, <2>1, <2>11, <2>12, <2>13, <2>14, Composed
  <1>10. QED
    BY <1>8, <1>9

\* A process ends, and with it what only its device knew.
LEMMA RestartKeeps ==
    ASSUME Consistent, NEW d \in Devices, Restart(d)
    PROVE  Consistent'
  <1>1. Typed /\ FilesInv /\ DeviceInv(d) /\ UNCHANGED <<config, profile, owner>>
    BY DEF Consistent, Restart
  <1>2. PICK old \in DeviceRecord : old = dev[d]
    BY <1>1, DeviceParts
  <1>3. PICK s \in DeviceRecord : s = [Closed EXCEPT !.shared = old.shared]
    BY ClosedTyped DEF DeviceRecord
  <1>4. /\ s.ids = <<>> /\ s.config = NoConfig /\ s.default = EmptyProfile /\ s.known = {}
        /\ s.shared = old.shared
    BY <1>3 DEF Closed
  <1>5. dev' = [dev EXCEPT ![d] = s]
    BY <1>2, <1>3 DEF Restart, Ended
  <1>6. /\ dev' \in [Devices -> DeviceRecord] /\ dev'[d] = s
        /\ \A e \in Devices \ {d} : dev'[e] = dev[e]
        /\ Shared \subseteq Shared'
    BY <1>1, <1>2, <1>4, <1>5, OneDevice
  <1>7. /\ mishaps' \in [failures : 0..MaxFailures, restarts : 0..MaxRestarts,
                         doubled : BOOLEAN]
        /\ mishaps'.doubled = mishaps.doubled
    BY <1>1, WalletAssumption DEF Typed, Restart
  <1>8. Grows
    BY <1>1, <1>6, <1>7 DEF Grows
  <1>9. \A c \in Calls : call'[c] = IF call[c].dev = d /\ call[c].phase # "idle"
                                    THEN Done(c) ELSE call[c]
    BY DEF Restart
  <1>10. call' \in [Calls -> CallRecord]
    BY <1>1, <1>9, DoneTyped, CallParts DEF Restart
  <1>11. Typed' /\ FilesInv'
    BY <1>1, <1>6, <1>7, <1>8, <1>10, FilesStay DEF Typed
  <1>12. ASSUME NEW e \in Devices PROVE DeviceInv(e)'
    <2>1. CASE e = d
      BY <1>4, <1>6, <2>1, Bounds DEF DeviceInv, NamedRight, AllOwn, ConfigNamed
    <2>2. CASE e # d
      BY <1>1, <1>6, <1>8, <2>2, DeviceStays DEF Consistent
    <2>3. QED
      BY <2>1, <2>2
  <1>13. ASSUME NEW c \in Calls PROVE CallInv(c)'
    <2>1. CASE call[c].dev = d /\ call[c].phase # "idle"
      BY <1>1, <1>9, <2>1, DoneTyped, EndedCall
    <2>2. CASE ~(call[c].dev = d /\ call[c].phase # "idle")
      <3>1. call'[c] = call[c] /\ call[c].dev \in Devices /\ CallInv(c)
        BY <1>1, <1>9, <2>2, CallParts DEF Consistent
      <3>2. Pending(c) => call[c].dev # d
        BY <2>2 DEF Pending
      <3>3. Pending(c) => dev'[call[c].dev] = dev[call[c].dev]
        BY <1>6, <3>1, <3>2
      <3>4. ASSUME Pending(c), call[c].kind = "restore", NEW b \in Calls \ {c}, Pending(b)'
            PROVE  call'[b].dev # call[c].dev
        <4>1. Pending(b) => call[b].dev # call[c].dev
          BY <3>1, <3>4 DEF CallInv, Restoring
        <4>2. call'[b] = call[b]
          BY <1>1, <1>9, <3>4, DoneTyped DEF Pending
        <4>3. QED
          BY <3>4, <4>1, <4>2 DEF Pending
      <3>5. Pending(c) => Extends(call[c].dev)
        BY <3>3 DEF Extends
      <3>6. QED
        BY <1>1, <1>8, <3>1, <3>3, <3>4, <3>5, CallStays
    <2>3. QED
      BY <2>1, <2>2
  <1>14. QED
    BY <1>11, <1>12, <1>13 DEF Consistent

----------------------------------------------------------------------------
(* All steps together. *)

\* The invariant holds to begin with.
LEMMA InitConsistent ==
    ASSUME Init
    PROVE  Consistent
  <1>1. Typed
    BY WalletAssumption, Bounds, NewCallTyped, ClosedTyped DEF Init, Typed, Configs
  <1>2. FilesInv
    BY DEF Init, FilesInv, ConfigNamed, Own
  <1>3. ASSUME NEW d \in Devices PROVE DeviceInv(d)
    BY Bounds DEF Init, Closed, DeviceInv, NamedRight, AllOwn, ConfigNamed
  <1>4. ASSUME NEW c \in Calls PROVE CallInv(c)
    <2>1. /\ call[c].phase = "idle" /\ call[c].found = <<>> /\ call[c].snapshot = NoConfig
          /\ call[c].data = NoProfile
      BY NewCallTyped DEF Init
    <2>2. QED
      BY <2>1 DEF CallInv, Restoring, Positioned, Uploads, Pending, At, NamedRight, AllOwn,
                  ConfigNamed, Own
  <1>5. QED
    BY <1>1, <1>2, <1>3, <1>4 DEF Consistent

\* It is kept by what a call begins with.
LEMMA StartKeeps ==
    ASSUME Consistent, NEW c \in Calls, NEW d \in Devices, Start(c, d)
    PROVE  Consistent'
  <1>1. 1..MaxIdentities \subseteq Nat
    BY Bounds
  <1>2. CASE Restore(c, d) \/ CreateNewIdentity(c, d) \/ GetOrCreateConfig(c, d)
             \/ UpdateConfigForReuseWarning(c, d)
    BY <1>2, RestoreKeeps, CreateNewIdentityKeeps, GetOrCreateConfigKeeps,
       UpdateConfigForReuseWarningKeeps
  <1>3. CASE \E k \in 1..MaxIdentities :
                \/ RefreshIdentity(c, d, k)
                \/ \E a \in Apps : UpdateConfigWithAuth(c, d, k, a)
                \/ \E a \in Apps, p \in BOOLEAN : MakeAuthResponse(c, d, k, a, p)
                \/ \E n \in Names : RegisterSubdomain(c, d, k, n)
    <2>1. PICK k \in Nat :
                \/ RefreshIdentity(c, d, k)
                \/ \E a \in Apps : UpdateConfigWithAuth(c, d, k, a)
                \/ \E a \in Apps, p \in BOOLEAN : MakeAuthResponse(c, d, k, a, p)
                \/ \E n \in Names : RegisterSubdomain(c, d, k, n)
      BY <1>1, <1>3
    <2>2. QED
      BY <2>1, RefreshIdentityKeeps, UpdateConfigWithAuthKeeps, MakeAuthResponseKeeps,
         RegisterSubdomainKeeps
  <1>4. QED
    BY <1>2, <1>3 DEF Start

\* And by what it goes on with.
LEMMA ContinueKeeps ==
    ASSUME Consistent, NEW c \in Calls, Continue(c)
    PROVE  Consistent'
  <1>1. CASE Refreshed(c) \/ RestoreConfig(c) \/ RestoreNoConfig(c) \/ RestoreNext(c)
    BY <1>1, RefreshedKeeps, RestoreConfigKeeps, RestoreNoConfigKeeps, RestoreNextKeeps
  <1>2. CASE IdentityMade(c) \/ ConfigFetched(c) \/ ConfigCreated(c) \/ ConfigKept(c)
             \/ ConfigUploaded(c) \/ UploadFails(c)
    BY <1>2, IdentityMadeKeeps, ConfigFetchedKeeps, ConfigCreatedKeeps, ConfigKeptKeeps,
       ConfigUploadedKeeps, UploadFailsKeeps
  <1>3. CASE ProfileFetched(c) \/ RespondFails(c) \/ ProfilePublished(c) \/ ProfileForName(c)
             \/ PublishFails(c) \/ PublishRefused(c)
    BY <1>3, ProfileFetchedKeeps, RespondFailsKeeps, ProfilePublishedKeeps,
       ProfileForNameKeeps, PublishFailsKeeps, PublishRefusedKeeps
  <1>4. CASE Registered(c) \/ RegisterRefused(c) \/ RegisterAnswerLost(c)
    BY <1>4, RegisteredKeeps, RegisterRefusedKeeps, RegisterAnswerLostKeeps
  <1>5. QED
    BY <1>1, <1>2, <1>3, <1>4 DEF Continue

\* And by steps in which nothing changes.
LEMMA StutterKeeps ==
    ASSUME Consistent, UNCHANGED vars
    PROVE  Consistent'
  <1>1. Typed /\ Grows /\ FilesInv
    BY DEF Consistent, vars, Grows, Shared
  <1>2. UNCHANGED <<config, profile, owner, dev, call, mishaps>>
    BY DEF vars
  <1>3. Typed' /\ FilesInv'
    BY <1>1, <1>2, FilesStay DEF Typed
  <1>4. \A d \in Devices : DeviceInv(d)'
    BY <1>1, <1>2, DeviceStays DEF Consistent
  <1>5. ASSUME NEW c \in Calls PROVE CallInv(c)'
    <2>1. CallInv(c) /\ (Pending(c) => Extends(call[c].dev))
      BY <1>2 DEF Consistent, Extends
    <2>2. Pending(c) /\ call[c].kind = "restore" =>
            \A b \in Calls \ {c} : Pending(b)' => call'[b].dev # call[c].dev
      BY <1>2, <2>1 DEF CallInv, Restoring, Pending
    <2>3. QED
      BY <1>1, <1>2, <2>1, <2>2, CallStays
  <1>6. QED
    BY <1>3, <1>4, <1>5 DEF Consistent

\* And so by every step.
LEMMA NextConsistent ==
    ASSUME Consistent, [Next]_vars
    PROVE  Consistent'
  <1>1. CASE UNCHANGED vars
    BY <1>1, StutterKeeps
  <1>2. CASE \E d \in Devices : Restart(d)
    BY <1>2, RestartKeeps
  <1>3. CASE \E c \in Calls : Continue(c) \/ \E d \in Devices : Start(c, d)
    BY <1>3, ContinueKeeps, StartKeeps
  <1>4. QED
    BY <1>1, <1>2, <1>3 DEF Next

----------------------------------------------------------------------------
(* The theorems. *)

\* What the devices, the calls and the files have in common stays consistent,
\* however calls overlap, fail and are ended by restarts.
THEOREM DevicesStayConsistent == Spec => []Consistent
  BY InitConsistent, NextConsistent, PTL DEF Spec

\* A wallet has the types and bounds it is declared with (Wallet, Identity,
\* ConfigIdentity).
THEOREM TypeCorrectness == Spec => []TypeOK
  <1>1. ASSUME Consistent PROVE TypeOK
    <2>1. Typed
      BY <1>1 DEF Consistent
    <2>2. Configs \subseteq {NoConfig} \cup Config
      BY DEF Configs, ConfigRecord, ConfigSeq, Config
    <2>3. \A s \in IdSeq : ToSet(s) \subseteq Identity
      BY SeqParts DEF ToSet
    <2>4. \A d \in Devices :
            /\ ToSet(dev[d].ids) \subseteq Identity
            /\ dev[d].config \in {NoConfig} \cup Config
            /\ dev[d].default \in Profile /\ dev[d].shared \subseteq Apps \X Indices
      BY <2>1, <2>2, <2>3, DeviceParts
    <2>5. DOMAIN NewCall = {"kind", "phase", "dev", "pos", "app", "name", "index", "found",
                            "publish", "fallback", "snapshot", "data", "known", "read"}
      BY DEF NewCall
    <2>6. \A r \in CallRecord : DOMAIN r = {"kind", "phase", "dev", "pos", "app", "name",
                            "index", "found", "publish", "fallback", "snapshot", "data",
                            "known", "read"}
      BY DEF CallRecord
    <2>7. \A c \in Calls :
            /\ DOMAIN call[c] = DOMAIN NewCall
            /\ call[c].kind \in Kinds /\ call[c].phase \in Phases
            /\ ToSet(call[c].found) \subseteq Identity
            /\ call[c].snapshot \in {NoConfig} \cup Config
            /\ call[c].data \in {NoProfile, Default} \cup Profile /\ call[c].read \in Profile
      BY <2>1, <2>2, <2>3, <2>5, <2>6, CallParts DEF Profiles
    <2>8. DOMAIN dev = Devices /\ DOMAIN call = Calls /\ config \in {NoConfig} \cup Config
      BY <2>1, <2>2 DEF Typed
    <2>9. QED
      BY <2>1, <2>4, <2>7, <2>8 DEF Typed, TypeOK
  <1>2. QED
    BY <1>1, DevicesStayConsistent, PTL

\* A user name on a device or in the config is registered to that identity
\* (registerSubdomain, refresh, restoreIdentities), unless createNewIdentity
\* has made one identity twice.
THEOREM NamesBelongToIdentities == Spec => []UsernamesOwned
  <1>1. ASSUME Consistent PROVE UsernamesOwned
    <2>1. ASSUME ~mishaps.doubled, NEW d \in Devices, NEW k \in DOMAIN dev[d].ids
          PROVE  Owned(dev[d].ids[k].name, dev[d].ids[k].index)
      BY <1>1, <2>1 DEF Consistent, DeviceInv, NamedRight
    <2>2. ~mishaps.doubled => ConfigNamed(config)
      BY <1>1 DEF Consistent, FilesInv
    <2>3. QED
      BY <2>1, <2>2 DEF UsernamesOwned, ConfigNamed
  <1>2. QED
    BY <1>1, DevicesStayConsistent, PTL

\* An app entry of one identity is in the profile of another only when some
\* process has put it into DEFAULT_PROFILE (makeAuthResponse, registerSubdomain).
THEOREM ForeignEntriesWereShared == Spec => []ForeignAppsFromDefault
  <1>1. ASSUME Consistent PROVE ForeignAppsFromDefault
    <2>1. SUFFICES ASSUME NEW i \in Indices, profile[i] # NoProfile, NEW e \in Entries(profile[i]),
                          e[2] # i
                   PROVE  e \in Shared
      BY DEF ForeignAppsFromDefault
    <2>2. profile[i] \in Profile /\ Own(profile[i], i)
      BY <1>1, <2>1 DEF Consistent, Typed, FilesInv
    <2>3. profile[i] \notin {NoProfile, Default}
      BY <2>2, Bounds
    <2>4. QED
      BY <2>1, <2>2, <2>3 DEF Own
  <1>2. QED
    BY <1>1, DevicesStayConsistent, PTL

\* Only the upload of a config writes it.
LEMMA ConfigWriter ==
    ASSUME [Next]_vars, config' # config
    PROVE  \E c \in Calls : ConfigUploaded(c)
  <1>1. ASSUME NEW c \in Calls, NEW d \in Devices, Start(c, d) PROVE UNCHANGED config
    BY <1>1 DEF Start, Restore, CreateNewIdentity, GetOrCreateConfig, Update,
                UpdateConfigForReuseWarning, RefreshIdentity, UpdateConfigWithAuth,
                MakeAuthResponse, RegisterSubdomain
  <1>2. ASSUME NEW c \in Calls, Continue(c), ~ConfigUploaded(c) PROVE UNCHANGED config
    BY <1>2 DEF Continue, Refreshed, RestoreConfig, RestoreNoConfig, RestoreNext,
                IdentityMade, ConfigFetched, ConfigCreated, ConfigKept, UploadFails,
                ProfileFetched, RespondFails, ProfilePublished, ProfileForName,
                PublishFails, PublishRefused, Registered, RegisterRefused,
                RegisterAnswerLost
  <1>3. QED
    BY <1>1, <1>2 DEF Next, Restart, vars

\* Only a registration and an auth response write profiles.
LEMMA ProfileWriter ==
    ASSUME [Next]_vars, profile' # profile
    PROVE  \E c \in Calls : ProfilePublished(c) \/ ProfileForName(c)
  <1>1. ASSUME NEW c \in Calls, NEW d \in Devices, Start(c, d) PROVE UNCHANGED profile
    BY <1>1 DEF Start, Restore, CreateNewIdentity, GetOrCreateConfig, Update,
                UpdateConfigForReuseWarning, RefreshIdentity, UpdateConfigWithAuth,
                MakeAuthResponse, RegisterSubdomain
  <1>2. ASSUME NEW c \in Calls, Continue(c), ~ProfilePublished(c), ~ProfileForName(c)
        PROVE  UNCHANGED profile
    BY <1>2 DEF Continue, Refreshed, RestoreConfig, RestoreNoConfig, RestoreNext,
                IdentityMade, ConfigFetched, ConfigCreated, ConfigKept, ConfigUploaded,
                UploadFails, ProfileFetched, RespondFails, PublishFails, PublishRefused,
                Registered, RegisterRefused, RegisterAnswerLost
  <1>3. QED
    BY <1>1, <1>2 DEF Next, Restart, vars

\* A call that is over after a step is the one that took it.
LEMMA WhoEnded ==
    ASSUME Typed, NEW b \in Calls, NEW c \in Calls,
           Finish(b) \/ call' = [call EXCEPT ![b].phase = "register"],
           call[c].phase # "done", call'[c].phase = "done"
    PROVE  c = b /\ Finish(b)
  <1>1. \A a \in Calls \ {b} : call'[a] = call[a]
    BY DEF Typed, Finish
  <1>2. c = b
    BY <1>1
  <1>3. ASSUME call' = [call EXCEPT ![b].phase = "register"] PROVE FALSE
    <2>1. call'[b] = [call[b] EXCEPT !.phase = "register"] /\ call[b] \in CallRecord
      BY <1>3 DEF Typed
    <2>2. call'[b].phase = "register"
      BY <2>1 DEF CallRecord
    <2>3. QED
      BY <1>2, <2>2
  <1>4. QED
    BY <1>2, <1>3

\* An upload of the config removes no application its device knew when it made
\* the update (updateConfigWithAuth, getOrCreateConfig,
\* updateConfigForReuseWarning), but for a config that was fetched over another.
THEOREM UploadsKeepKnownApps == Spec => KnownAppsKept
  <1>1. ASSUME Consistent, [Next]_vars, NEW c \in Calls,
               call[c].phase = "upload", config' # config, call'[c].phase = "done",
               ~Device(c).refetched
        PROVE  AppEntries(config) \cap call[c].known \subseteq AppEntries(config')
    <2>1. PICK b \in Calls : ConfigUploaded(b)
      BY <1>1, ConfigWriter
    <2>2. c = b
      BY <1>1, <2>1, WhoEnded DEF Consistent, ConfigUploaded
    <2>3. config' = call[c].snapshot
      BY <2>1, <2>2 DEF ConfigUploaded
    <2>4. call[c].known \subseteq AppEntries(call[c].snapshot)
      BY <1>1 DEF Consistent, CallInv, Uploads
    <2>5. QED
      BY <2>3, <2>4
  <1>2. Consistent /\ [Next]_vars =>
            [\A c \in Calls :
                call[c].phase = "upload" /\ config' # config /\ call'[c].phase = "done"
                /\ ~Device(c).refetched =>
                    AppEntries(config) \cap call[c].known \subseteq AppEntries(config')]_vars
    BY <1>1
  <1>3. QED
    BY <1>2, DevicesStayConsistent, PTL DEF Spec, KnownAppsKept

\* Publishing to a profile replaces the entry of the application and keeps every
\* entry of another that was read from it (makeAuthResponse).
THEOREM PublishingKeepsWhatWasRead == Spec => EntriesReadAreKept
  <1>1. ASSUME Consistent, [Next]_vars, NEW c \in Calls, At(c, "respond", "publish"),
               profile' # profile, call'[c].phase = "done"
        PROVE  /\ profile'[call[c].index] # NoProfile
               /\ Replaces(call[c].read, profile'[call[c].index], call[c].app, call[c].index)
    <2>1. PICK b \in Calls : ProfilePublished(b) \/ ProfileForName(b)
      BY <1>1, ProfileWriter
    <2>2. call[c].phase # "done"
      BY <1>1 DEF At
    <2>3. c = b
      BY <1>1, <2>1, <2>2, WhoEnded DEF Consistent, ProfilePublished, ProfileForName
    <2>4. ProfilePublished(c)
      BY <1>1, <2>1, <2>3 DEF ProfileForName, At
    <2>5. call[c].index \in Indices
      BY <1>1, CallParts DEF Consistent
    <2>6. profile'[call[c].index] = call[c].data
      BY <1>1, <2>4, <2>5 DEF ProfilePublished, Consistent, Typed
    <2>7. call[c].data \in Profile
          /\ Replaces(call[c].read, call[c].data, call[c].app, call[c].index)
      BY <1>1 DEF Consistent, CallInv, Uploads, At
    <2>8. QED
      BY <2>6, <2>7, Bounds
  <1>2. Consistent /\ [Next]_vars =>
            [\A c \in Calls :
                At(c, "respond", "publish") /\ profile' # profile /\ call'[c].phase = "done" =>
                    /\ profile'[call[c].index] # NoProfile
                    /\ Replaces(call[c].read, profile'[call[c].index], call[c].app,
                                call[c].index)]_vars
    BY <1>1
  <1>3. QED
    BY <1>2, DevicesStayConsistent, PTL DEF Spec, EntriesReadAreKept
=============================================================================
