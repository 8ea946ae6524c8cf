---------------------------- MODULE WalletConfig ----------------------------
(***************************************************************************)
(* The wallet of the keychain package (keychain/src): one seed, opened by  *)
(* authenticators on several devices.  They share, over Gaia and a name    *)
(* registrar, the encrypted wallet-config.json and the profiles of the     *)
(* identities; each keeps identities and a copy of the config in memory.   *)
(* The calls of a device run concurrently, from await to await.            *)
(***************************************************************************)
EXTENDS Integers, Sequences, SequencesExt

CONSTANTS
    Devices,
    Calls,          \* slots for calls of the wallet's methods; only a restore gives its
                    \* slot back
    Apps,           \* origins of applications
    Names,          \* user names that can be registered
    NoName,         \* no default user name
    NoConfig,       \* walletConfig is undefined; there is no wallet-config.json
    NoProfile,      \* profile is undefined or null; there is no profile.json
    Default,        \* a profile that is the DEFAULT_PROFILE object itself
    MaxIdentities,  \* bound on the index of an identity
    MaxFailures,    \* bound on requests that fail
    MaxRestarts     \* bound on restarts of a device's process

Indices == 0..MaxIdentities
(* A profile has one entry for each application at most: whose storage the   *)
(* application is told to use.                                               *)
NoEntry == -1
Profile == [Apps -> Indices \cup {NoEntry}]
EmptyProfile == [a \in Apps |-> NoEntry]
Entries(p) == {<<a, p[a]>> : a \in {b \in Apps : p[b] # NoEntry}}

IdentityConfig == [name: Names \cup {NoName}, index: Indices, apps: SUBSET Apps]
Config == [ids: Seq(IdentityConfig), hide: BOOLEAN]
Identity == [index: Indices, name: Names \cup {NoName}, names: SUBSET Names,
             profile: {NoProfile, Default} \cup Profile]

ASSUME WalletAssumption ==
    /\ Devices # {} /\ Apps # {} /\ NoName \notin Names
    /\ NoConfig \notin Config /\ NoProfile # Default
    /\ \A p \in Profile : p \notin {NoProfile, Default}
    /\ MaxIdentities \in Nat \ {0} /\ MaxFailures \in Nat /\ MaxRestarts \in Nat

VARIABLES
    config,     \* wallet-config.json
    profile,    \* index |-> profile.json of the identity
    owner,      \* name |-> the index of the identity it is registered to, or -1
    dev,        \* what a device's process has in memory
    call,
    mishaps     \* failures and restarts so far; an identity was made twice

vars == <<config, profile, owner, dev, call, mishaps>>

(* known, refetched and shared are history: the app entries the config has    *)
(* had; a config that was there has been replaced; the entries that were ever *)
(* put into the device's default profile, which a restart clears.             *)
Closed == [open |-> FALSE, ids |-> <<>>, config |-> NoConfig,
           default |-> EmptyProfile,
           known |-> {}, refetched |-> FALSE, shared |-> {}]

Ended(d) == [Closed EXCEPT !.shared = dev[d].shared]

NewCall ==
    [kind |-> "none", phase |-> "idle", dev |-> CHOOSE d \in Devices : TRUE, pos |-> 1,
     app |-> CHOOSE a \in Apps : TRUE, name |-> NoName, index |-> 0, found |-> <<>>,
     publish |-> FALSE, fallback |-> FALSE, snapshot |-> NoConfig, data |-> NoProfile,
     known |-> {}, read |-> EmptyProfile]

Phases == {"idle", "fetch", "refresh", "derive", "upload", "profile", "publish",
           "register", "done"}
Kinds == {"none", "restore", "create", "config", "auth", "warn", "respond", "register",
          "refresh"}

TypeOK ==
    /\ config \in {NoConfig} \cup Config
    /\ profile \in [Indices -> {NoProfile} \cup Profile]
    /\ owner \in [Names -> Indices \cup {-1}]
    /\ DOMAIN dev = Devices /\ DOMAIN call = Calls
    /\ \A d \in Devices :
        /\ ToSet(dev[d].ids) \subseteq Identity
        /\ dev[d].config \in {NoConfig} \cup Config
        /\ dev[d].default \in Profile /\ dev[d].shared \subseteq Apps \X Indices
    /\ \A c \in Calls :
        /\ DOMAIN call[c] = DOMAIN NewCall
        /\ call[c].kind \in Kinds /\ call[c].phase \in Phases
        /\ ToSet(call[c].found) \subseteq Identity
        /\ call[c].snapshot \in {NoConfig} \cup Config
        /\ call[c].data \in {NoProfile, Default} \cup Profile /\ call[c].read \in Profile
    /\ mishaps \in [failures: 0..MaxFailures, restarts: 0..MaxRestarts,
                    doubled: BOOLEAN]

Init ==
    /\ config = NoConfig
    /\ profile = [i \in Indices |-> NoProfile]
    /\ owner = [n \in Names |-> -1]
    /\ dev = [d \in Devices |-> Closed]
    /\ call = [c \in Calls |-> NewCall]
    /\ mishaps = [failures |-> 0, restarts |-> 0, doubled |-> FALSE]

----------------------------------------------------------------------------
MakeIdentity(i) == [index |-> i, name |-> NoName, names |-> {}, profile |-> NoProfile]

AppEntries(cfg) ==
    IF cfg = NoConfig THEN {}
    ELSE UNION {{k} \X cfg.ids[k].apps : k \in DOMAIN cfg.ids}

At(c, kind, phase) == call[c].kind = kind /\ call[c].phase = phase
Device(c) == dev[call[c].dev]
Busy(d) == \E c \in Calls : call[c].dev = d /\ call[c].phase \notin {"idle", "done"}

(* What a finished call kept is garbage. *)
Done(c) == [NewCall EXCEPT !.kind = call[c].kind, !.phase = "done", !.dev = call[c].dev]
Finish(c) == call' = [call EXCEPT ![c] = Done(c)]
Free(c) == call' = [call EXCEPT ![c] = NewCall]
Begin(c, kind, d, phase) ==
    [NewCall EXCEPT !.kind = kind, !.dev = d, !.phase = phase]

Fails == /\ mishaps.failures < MaxFailures
         /\ mishaps' = [mishaps EXCEPT !.failures = @ + 1]

(* this.walletConfig = cfg *)
SetConfig(d, cfg) ==
    dev' = [dev EXCEPT ![d].config = cfg, ![d].known = @ \cup AppEntries(cfg),
                       ![d].refetched = @ \/ dev[d].config # NoConfig]

(* updateConfig: what is uploaded is the config as it is when it is called.   *)
Uploading(c, cfg, k) == [c EXCEPT !.phase = "upload", !.snapshot = cfg, !.known = k]

Idle(c, d) == call[c].phase = "idle" /\ dev[d].open

----------------------------------------------------------------------------
(* refresh: the names of the identity's address and its profile; it fails    *)
(* silently, before or after it has the names.                               *)
NamesOf(i) == {n \in Names : owner[n] = i}

WithNames(id) ==
    LET owned == NamesOf(id.index) IN
    {[id EXCEPT !.names = @ \cup owned, !.name = n] :
        n \in IF id.name # NoName \/ owned = {} THEN {id.name} ELSE owned}

WithProfile(id) ==
    [id EXCEPT !.profile = IF profile[id.index] = NoProfile THEN @ ELSE profile[id.index]]

Refreshes(id, new) ==
    \/ new \in {WithProfile(named) : named \in WithNames(id)} /\ UNCHANGED mishaps
    \/ new \in {id} \cup WithNames(id) /\ Fails

Refreshable(id) ==
    {id} \cup WithNames(id) \cup {WithProfile(named) : named \in WithNames(id)}

RefreshIdentity(c, d, k) ==
    /\ Idle(c, d) /\ k \in DOMAIN dev[d].ids
    /\ call' = [call EXCEPT ![c] = [Begin(c, "refresh", d, "refresh") EXCEPT !.pos = k]]
    /\ UNCHANGED <<config, profile, owner, dev, mishaps>>

Refreshed(c) ==
    /\ At(c, "refresh", "refresh")
    /\ \E new \in Refreshable(Device(c).ids[call[c].pos]) :
        /\ Refreshes(Device(c).ids[call[c].pos], new)
        /\ dev' = [dev EXCEPT ![call[c].dev].ids[call[c].pos] = new]
    /\ Finish(c)
    /\ UNCHANGED <<config, profile, owner>>

----------------------------------------------------------------------------
(* Wallet.restore: a wallet with one identity, and then restoreIdentities.   *)

Restore(c, d) ==
    /\ call[c].phase = "idle" /\ ~Busy(d)
    /\ dev' = [dev EXCEPT ![d] =
                [Ended(d) EXCEPT !.ids = <<MakeIdentity(0)>>, !.default = dev[d].default]]
    /\ call' = [call EXCEPT ![c] = Begin(c, "restore", d, "fetch")]
    /\ UNCHANGED <<config, profile, owner, mishaps>>

(* With a config, its identities; the first is the one that is there.        *)
RestoredFrom(cfg) ==
    [k \in DOMAIN cfg.ids |->
        LET n == cfg.ids[k].name IN
        [MakeIdentity(k - 1) EXCEPT !.name = n, !.names = {n} \ {NoName}]]

RestoreConfig(c) ==
    LET d == call[c].dev IN
    /\ At(c, "restore", "fetch") /\ config # NoConfig
    /\ dev' = [dev EXCEPT ![d].open = TRUE, ![d].ids = RestoredFrom(config),
                          ![d].config = config, ![d].known = AppEntries(config)]
    /\ Free(c)
    /\ UNCHANGED <<config, profile, owner, mishaps>>

RestoreNoConfig(c) ==
    /\ At(c, "restore", "fetch")
    /\ (config = NoConfig /\ UNCHANGED mishaps) \/ Fails
    /\ call' = [call EXCEPT ![c].phase = "refresh", ![c].found = Device(c).ids]
    /\ UNCHANGED <<config, profile, owner, dev>>

(* Without one: the first identity, and as many as have a name.              *)
RestoreNext(c) ==
    LET d == call[c].dev
        id == Last(call[c].found) IN
    /\ At(c, "restore", "refresh")
    /\ \E new \in Refreshable(id) :
        LET refreshed == Append(Front(call[c].found), new) IN
        /\ Refreshes(id, new)
        /\ IF (id.index = 0 \/ new.name # NoName) /\ id.index < MaxIdentities
           THEN /\ call' = [call EXCEPT ![c].found =
                              Append(refreshed, MakeIdentity(id.index + 1))]
                /\ UNCHANGED dev
           ELSE /\ dev' = [dev EXCEPT ![d].open = TRUE,
                             ![d].ids = IF id.index = 0 \/ new.name # NoName
                                        THEN refreshed ELSE Front(call[c].found)]
                /\ Free(c)
    /\ UNCHANGED <<config, profile, owner>>

----------------------------------------------------------------------------
(* createNewIdentity *)

CreateNewIdentity(c, d) ==
    /\ Idle(c, d) /\ Len(dev[d].ids) < MaxIdentities
    /\ call' = [call EXCEPT ![c] =
                 [Begin(c, "create", d, "derive") EXCEPT !.index = Len(dev[d].ids)]]
    /\ UNCHANGED <<config, profile, owner, dev, mishaps>>

IdentityMade(c) ==
    LET d == call[c].dev IN
    /\ At(c, "create", "derive") /\ Len(dev[d].ids) \in Indices
    /\ dev' = [dev EXCEPT ![d].ids = Append(@, MakeIdentity(call[c].index))]
    /\ mishaps' = [mishaps EXCEPT !.doubled = @ \/ Len(dev[d].ids) # call[c].index]
    /\ Finish(c)
    /\ UNCHANGED <<config, profile, owner>>

----------------------------------------------------------------------------
(* getOrCreateConfig *)

GetOrCreateConfig(c, d) ==
    /\ Idle(c, d)
    /\ call' = [call EXCEPT ![c] =
                 Begin(c, "config", d, IF dev[d].config # NoConfig THEN "done" ELSE "fetch")]
    /\ UNCHANGED <<config, profile, owner, dev, mishaps>>

ConfigFetched(c) ==
    /\ At(c, "config", "fetch") /\ config # NoConfig
    /\ SetConfig(call[c].dev, config)
    /\ Finish(c)
    /\ UNCHANGED <<config, profile, owner, mishaps>>

NewConfig(d) ==
    [ids |-> [k \in DOMAIN dev[d].ids |->
                [name |-> dev[d].ids[k].name, index |-> dev[d].ids[k].index, apps |-> {}]],
     hide |-> FALSE]

(* Not found, not fetched and not decrypted are one.                         *)
ConfigCreated(c) ==
    LET d == call[c].dev IN
    /\ At(c, "config", "fetch")
    /\ (config = NoConfig /\ UNCHANGED mishaps) \/ Fails
    /\ SetConfig(d, NewConfig(d))
    /\ call' = [call EXCEPT ![c] = Uploading(@, NewConfig(d), dev[d].known)]
    /\ UNCHANGED <<config, profile, owner>>

(* skipUpload *)
ConfigKept(c) ==
    LET d == call[c].dev IN
    /\ At(c, "config", "fetch")
    /\ (config = NoConfig /\ UNCHANGED mishaps) \/ Fails
    /\ SetConfig(d, NewConfig(d))
    /\ Finish(c)
    /\ UNCHANGED <<config, profile, owner>>

----------------------------------------------------------------------------
(* updateConfigWithAuth, updateConfigForReuseWarning *)

\* (seeded fault: the entry of an identity is made anew, without its apps)
WithIdentitiesAnew(cfg, ids) ==
    [cfg EXCEPT !.ids =
        [k \in 1..(IF Len(ids) > Len(@) THEN Len(ids) ELSE Len(@)) |->
            IF k \notin DOMAIN ids THEN cfg.ids[k]
            ELSE [name |-> ids[k].name, index |-> ids[k].index, apps |-> {}]]]

WithIdentities(cfg, ids) ==
    [cfg EXCEPT !.ids =
        [k \in 1..(IF Len(ids) > Len(@) THEN Len(ids) ELSE Len(@)) |->
            IF k \notin DOMAIN ids THEN cfg.ids[k]
            ELSE [name |-> ids[k].name, index |-> ids[k].index,
                  apps |-> IF k \in DOMAIN cfg.ids THEN cfg.ids[k].apps ELSE {}]]]

WithAuth(cfg, ids, k, a) ==
    [WithIdentities(cfg, ids) EXCEPT !.ids[k].apps = @ \cup {a}]

WithWarning(cfg) == [cfg EXCEPT !.hide = TRUE]

Update(c, kind, d, cfg) ==
    LET known == dev[d].known \cup AppEntries(cfg) IN
    /\ dev' = [dev EXCEPT ![d].config = cfg, ![d].known = known]
    /\ call' = [call EXCEPT ![c] = Uploading(Begin(c, kind, d, "upload"), cfg, known)]
    /\ UNCHANGED <<config, profile, owner, mishaps>>

UpdateConfigWithAuth(c, d, k, a) ==
    /\ Idle(c, d) /\ dev[d].config # NoConfig /\ k \in DOMAIN dev[d].ids
    /\ Update(c, "auth", d, WithAuth(dev[d].config, dev[d].ids, k, a))

UpdateConfigForReuseWarning(c, d) ==
    /\ Idle(c, d) /\ dev[d].config # NoConfig
    /\ Update(c, "warn", d, WithWarning(dev[d].config))

ConfigUploaded(c) ==
    /\ call[c].phase = "upload"
    /\ config' = call[c].snapshot
    /\ Finish(c)
    /\ UNCHANGED <<profile, owner, dev, mishaps>>

(* No answer, or one whose status nobody looks at. *)
UploadFails(c) ==
    /\ call[c].phase = "upload" /\ Fails
    /\ Finish(c)
    /\ UNCHANGED <<config, profile, owner, dev>>

----------------------------------------------------------------------------
(* makeAuthResponse *)

MakeAuthResponse(c, d, k, a, p) ==
    /\ Idle(c, d) /\ k \in DOMAIN dev[d].ids
    /\ call' = [call EXCEPT ![c] =
                 [Begin(c, "respond", d, "profile") EXCEPT
                    !.pos = k, !.index = dev[d].ids[k].index, !.app = a, !.publish = p]]
    /\ UNCHANGED <<config, profile, owner, dev, mishaps>>

(* fetchProfile answers null for every error.  The application's entry is     *)
(* replaced in the profile that was fetched, or in the default profile: that  *)
(* is one object, what is assigned to it stays.                               *)
Fetches(i, p) ==
    \/ p = profile[i] /\ UNCHANGED mishaps
    \/ p = NoProfile /\ Fails

OrDefault(d, p) == IF p \in {NoProfile, Default} THEN dev[d].default ELSE p

ProfileFetched(c) ==
    LET d == call[c].dev
        app == call[c].app
        index == call[c].index IN
    /\ At(c, "respond", "profile")
    /\ \E p \in {profile[index], NoProfile} :
        /\ Fetches(index, p)
        /\ IF call[c].publish
           THEN /\ call' = [call EXCEPT ![c].phase = "publish",
                              ![c].fallback = (p = NoProfile),
                              ![c].read = IF p = NoProfile THEN EmptyProfile ELSE p,
                              ![c].data = [OrDefault(d, p) EXCEPT ![app] = index]]
                /\ dev' = IF p = NoProfile
                          THEN [dev EXCEPT ![d].default[app] = index,
                                           ![d].shared = @ \cup {<<app, index>>}]
                          ELSE dev
           ELSE /\ dev' = [dev EXCEPT ![d].ids[call[c].pos].profile =
                             IF p = NoProfile THEN Default ELSE p]
                /\ Finish(c)
    /\ UNCHANGED <<config, profile, owner>>

(* The hub cannot be reached. *)
RespondFails(c) ==
    /\ At(c, "respond", "profile") /\ Fails
    /\ Finish(c)
    /\ UNCHANGED <<config, profile, owner, dev>>

\* (seeded fault: the default profile is what is uploaded)
PublishedDefault(c) ==
    /\ At(c, "respond", "publish")
    /\ profile' = [profile EXCEPT ![call[c].index] = Device(c).default]
    /\ dev' = [dev EXCEPT ![call[c].dev].ids[call[c].pos].profile =
                 IF call[c].fallback THEN Default ELSE call[c].data]
    /\ Finish(c)
    /\ UNCHANGED <<config, owner, mishaps>>

\* (seeded fault: uploaded at the position of the identity, which counts from one)
PublishedByPosition(c) ==
    /\ At(c, "respond", "publish")
    /\ profile' = [profile EXCEPT ![call[c].pos] = call[c].data]
    /\ dev' = [dev EXCEPT ![call[c].dev].ids[call[c].pos].profile =
                 IF call[c].fallback THEN Default ELSE call[c].data]
    /\ Finish(c)
    /\ UNCHANGED <<config, owner, mishaps>>

ProfilePublished(c) ==
    /\ At(c, "respond", "publish")
    /\ profile' = [profile EXCEPT ![call[c].index] = call[c].data]
    /\ dev' = [dev EXCEPT ![call[c].dev].ids[call[c].pos].profile =
                 IF call[c].fallback THEN Default ELSE call[c].data]
    /\ Finish(c)
    /\ UNCHANGED <<config, owner, mishaps>>

----------------------------------------------------------------------------
(* registerSubdomain *)

RegisterSubdomain(c, d, k, n) ==
    LET id == dev[d].ids[k] IN
    /\ Idle(c, d) /\ k \in DOMAIN dev[d].ids
    /\ call' = [call EXCEPT ![c] =
                 [Begin(c, "register", d, "publish") EXCEPT
                    !.pos = k, !.index = id.index, !.name = n,
                    !.data = OrDefault(d, id.profile)]]
    /\ UNCHANGED <<config, profile, owner, dev, mishaps>>

ProfileForName(c) ==
    /\ At(c, "register", "publish")
    /\ profile' = [profile EXCEPT ![call[c].index] = call[c].data]
    /\ call' = [call EXCEPT ![c].phase = "register"]
    /\ UNCHANGED <<config, owner, dev, mishaps>>

(* The upload of a profile fails: with no answer it is an error, an answer   *)
(* that refuses it is not noticed.                                           *)
PublishFails(c) ==
    /\ call[c].phase = "publish" /\ Fails
    /\ Finish(c)
    /\ UNCHANGED <<config, profile, owner, dev>>

PublishRefused(c) ==
    /\ call[c].phase = "publish" /\ Fails
    /\ IF call[c].kind = "register"
       THEN call' = [call EXCEPT ![c].phase = "register"] /\ UNCHANGED dev
       ELSE /\ dev' = [dev EXCEPT ![call[c].dev].ids[call[c].pos].profile =
                         IF call[c].fallback THEN Default ELSE call[c].data]
            /\ Finish(c)
    /\ UNCHANGED <<config, profile, owner>>

\* (seeded fault: the answer of the registrar is not looked at)
RegisteredUnchecked(c) ==
    LET n == call[c].name IN
    /\ At(c, "register", "register")
    /\ owner' = [owner EXCEPT ![n] = IF @ = -1 THEN call[c].index ELSE @]
    /\ dev' = [dev EXCEPT ![call[c].dev].ids[call[c].pos].name = n,
                          ![call[c].dev].ids[call[c].pos].names = @ \cup {n}]
    /\ Finish(c)
    /\ UNCHANGED <<config, profile, mishaps>>

Registered(c) ==
    LET n == call[c].name IN
    /\ At(c, "register", "register") /\ owner[n] = -1
    /\ owner' = [owner EXCEPT ![n] = call[c].index]
    /\ dev' = [dev EXCEPT ![call[c].dev].ids[call[c].pos].name = n,
                          ![call[c].dev].ids[call[c].pos].names = @ \cup {n}]
    /\ Finish(c)
    /\ UNCHANGED <<config, profile, mishaps>>

RegisterRefused(c) ==
    /\ At(c, "register", "register")
    /\ (owner[call[c].name] # -1 /\ UNCHANGED mishaps) \/ Fails
    /\ Finish(c)
    /\ UNCHANGED <<config, profile, owner, dev>>

(* The registrar registers the name, its answer is lost. *)
RegisterAnswerLost(c) ==
    /\ At(c, "register", "register") /\ owner[call[c].name] = -1 /\ Fails
    /\ owner' = [owner EXCEPT ![call[c].name] = call[c].index]
    /\ Finish(c)
    /\ UNCHANGED <<config, profile, dev>>

----------------------------------------------------------------------------
(* The process of a device ends: its calls end with it. *)
Restart(d) ==
    /\ dev[d] # Ended(d) /\ mishaps.restarts < MaxRestarts
    /\ mishaps' = [mishaps EXCEPT !.restarts = @ + 1]
    /\ dev' = [dev EXCEPT ![d] = Ended(d)]
    /\ call' = [c \in Calls |-> IF call[c].dev = d /\ call[c].phase # "idle"
                                THEN Done(c) ELSE call[c]]
    /\ UNCHANGED <<config, profile, owner>>

Start(c, d) ==
    \/ Restore(c, d) \/ CreateNewIdentity(c, d) \/ GetOrCreateConfig(c, d)
    \/ UpdateConfigForReuseWarning(c, d)
    \/ \E k \in 1..MaxIdentities :
        \/ RefreshIdentity(c, d, k)
        \/ \E a \in Apps : UpdateConfigWithAuth(c, d, k, a)
        \/ \E a \in Apps, p \in BOOLEAN : MakeAuthResponse(c, d, k, a, p)
        \/ \E n \in Names : RegisterSubdomain(c, d, k, n)

Continue(c) ==
    \/ Refreshed(c) \/ RestoreConfig(c) \/ RestoreNoConfig(c) \/ RestoreNext(c)
    \/ IdentityMade(c) \/ ConfigFetched(c) \/ ConfigCreated(c) \/ ConfigKept(c)
    \/ ConfigUploaded(c) \/ UploadFails(c)
    \/ ProfileFetched(c) \/ RespondFails(c) \/ ProfilePublished(c)
    \/ ProfileForName(c) \/ PublishFails(c) \/ PublishRefused(c)
    \/ Registered(c) \/ RegisterRefused(c) \/ RegisterAnswerLost(c)

Next ==
    \/ \E c \in Calls : Continue(c) \/ \E d \in Devices : Start(c, d)
    \/ \E d \in Devices : Restart(d)

Spec == Init /\ [][Next]_vars

----------------------------------------------------------------------------
(* Properties *)

(* The user name an identity has on any device, or in the config, is          *)
(* registered to that identity's address, whatever devices register, restore  *)
(* and update concurrently; unless a wallet has made one identity twice       *)
(* (createNewIdentity), from where its names go to another position.          *)
Owned(name, i) == name # NoName => owner[name] = i

UsernamesOwned ==
    \/ mishaps.doubled
    \/ /\ \A d \in Devices : \A k \in DOMAIN dev[d].ids :
            Owned(dev[d].ids[k].name, dev[d].ids[k].index)
       /\ config # NoConfig => \A k \in DOMAIN config.ids : Owned(config.ids[k].name, k - 1)

(* An upload of the config removes no application that the uploading wallet   *)
(* knew of when it made the update (updateConfigWithAuth, getOrCreateConfig,  *)
(* updateConfigForReuseWarning), unless a slow getOrCreateConfig has replaced *)
(* the wallet's config by an older one (fetchConfig).                         *)
KnownAppsKept ==
    [][\A c \in Calls :
        call[c].phase = "upload" /\ config' # config /\ call'[c].phase = "done"
        /\ ~Device(c).refetched =>
            AppEntries(config) \cap call[c].known \subseteq AppEntries(config')]_vars

(* An app entry of one identity is in the profile of another only when some   *)
(* process put it into the profile all its identities start from              *)
(* (makeAuthResponse's use of DEFAULT_PROFILE), however often profiles are    *)
(* overwritten and processes restart between.                                 *)
Shared == UNION {dev[d].shared : d \in Devices}

ForeignAppsFromDefault ==
    \A i \in Indices : profile[i] # NoProfile =>
        \A e \in Entries(profile[i]) : e[2] # i => e \in Shared

(* Publishing to a profile replaces the entry of the application, whatever    *)
(* stood there, and keeps every entry of another that was read: what an auth  *)
(* response loses of those, its fetch did not see (it failed, or another      *)
(* upload came in between).  A registration uploads what the identity has in  *)
(* memory.  (makeAuthResponse.)                                               *)
Replaces(old, new, app, index) ==
    /\ new[app] = index
    /\ \A a \in Apps \ {app} : old[a] # NoEntry => new[a] = old[a]

EntriesReadAreKept ==
    [][\A c \in Calls :
        At(c, "respond", "publish") /\ profile' # profile /\ call'[c].phase = "done" =>
            /\ profile'[call[c].index] # NoProfile
            /\ Replaces(call[c].read, profile'[call[c].index], call[c].app,
                        call[c].index)]_vars
=============================================================================
