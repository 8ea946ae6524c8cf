--------------------------- MODULE Authenticator ---------------------------
(***************************************************************************)
(* The authenticator of the command line (cli/src/auth.ts): an HTTP server *)
(* that shows a page of identities for a sign-in request and, when one of   *)
(* its links is followed, adds the application to that identity's profile   *)
(* and redirects.  Requests run concurrently, from await to await, over one *)
(* network adapter.  The gaia_sethub command, a process of its own, writes  *)
(* the same profiles.                                                       *)
(***************************************************************************)
EXTENDS Integers, Sequences, FiniteSets, SequencesExt

CONSTANTS
    Requests,       \* HTTP requests and gaia_sethub commands
    Offered,        \* request |-> what it may be: "auth", "signin", "sethub"
    Apps,           \* origins of applications
    NamesAt,        \* key index |-> the names its address owns, as a sequence
    Zone,           \* name |-> what its record and zone file are good for
    OldLinks,       \* links of pages that are on some screen from the start
    MaxNameIndex,   \* the index the search for names gives up at (65536)
    MaxIDSearchIndex, \* how many indices the search for an address tries (-M)
    Buckets,        \* the profiles there may be at the start, by key index
    NoProfile,      \* no profile, null or undefined
    MaxFailures,    \* bound on lookups, connections and uploads that fail
    MaxRestarts     \* bound on restarts of the authenticator

Indices == DOMAIN NamesAt
Names == UNION {ToSet(NamesAt[i]) : i \in Indices}
NoName == "anonymous"
NoUrl == -1
Elsewhere == -2

(* The address in an app's entry is that of the identity's key for the app,  *)
(* at the hub that is used now or at another; or it is some other address.   *)
Profile == [own: BOOLEAN, apps: [Apps -> {"none", "own", "moved", "foreign"}],
            api: {"missing", "partial", "set"}]
NewProfile == [own |-> FALSE, apps |-> [a \in Apps |-> "none"], api |-> "partial"]

Identity == [name: Names \cup {NoName}, index: Int, url: Int]
Link == [id: Identity, app: Apps, write: BOOLEAN, nonce: Nat]

\* A named identity has the index of the address that owns its name.
Right(id) ==
    id.index \in Indices /\ (id.name # NoName => id.name \in ToSet(NamesAt[id.index]))

ASSUME AuthenticatorAssumption ==
    /\ Offered \in [Requests -> SUBSET {"auth", "signin", "sethub"}]
    /\ Indices \subseteq Nat
    /\ \A i \in Indices : NamesAt[i] \in Seq(STRING) /\ IsInjective(NamesAt[i])
    \* a name has one owner, and indices go beyond those a page may show
    /\ \A i, j \in Indices : ToSet(NamesAt[i]) \cap ToSet(NamesAt[j]) # {} => i = j
    /\ NoName \notin Names /\ IsFiniteSet(Names)
    /\ 1..(Cardinality(Names) + 1) \subseteq Indices /\ 0..MaxNameIndex \subseteq Indices
    /\ Zone \in [Names -> {"hosted", "elsewhere", "broken", "expired"}]
    /\ MaxNameIndex \in Nat /\ MaxIDSearchIndex \in Nat /\ Apps # {}
    /\ Buckets \subseteq [Indices -> Profile \cup {NoProfile}]
    /\ NoProfile \notin Profile
    /\ OldLinks \subseteq Link /\ \A link \in OldLinks : Right(link.id)
    /\ MaxFailures \in Nat /\ MaxRestarts \in Nat

IndexOf(n) == CHOOSE i \in Indices : n \in ToSet(NamesAt[i])

VARIABLES
    coerce,     \* optAlwaysCoerceAddress of the adapter all requests share
    nonce,      \* authTransitNonce of the running process
    req,        \* the requests
    profile,    \* key index |-> profile.json in its bucket
    failures

vars == <<coerce, nonce, req, profile, failures>>

NewLink == [id |-> [name |-> NoName, index |-> 0, url |-> NoUrl],
            app |-> CHOOSE a \in Apps : TRUE, write |-> FALSE, nonce |-> 0]

(* blind and raced are history: the request found no profile to change; the  *)
(* profile it read was replaced before it wrote, or before it answered.       *)
NewRequest ==
    [kind |-> "none", phase |-> "idle", link |-> NewLink, index |-> 0,
     ids |-> <<>>, looked |-> <<>>, shown |-> {}, data |-> NoProfile, page |-> {},
     status |-> 0, blind |-> FALSE, raced |-> FALSE]

Result(st, url, p) == [st |-> st, url |-> url, profile |-> p]
Pending == Result("pending", NoUrl, NoProfile)
Rejected == Result("rejected", NoUrl, NoProfile)

TypeOK ==
    /\ coerce \in BOOLEAN /\ nonce \in 0..MaxRestarts
    /\ profile \in [Indices -> Profile \cup {NoProfile}]
    /\ failures \in 0..MaxFailures
    /\ DOMAIN req = Requests
    /\ \A r \in Requests :
        /\ DOMAIN req[r] = DOMAIN NewRequest
        /\ req[r].kind \in {"none", "auth", "signin", "sethub"}
        /\ req[r].phase \in {"idle", "names", "lookups", "page", "connect", "read",
                             "upload", "answer", "answered", "dead"}
        /\ req[r].link \in Link /\ req[r].page \subseteq Link
        /\ {req[r].blind, req[r].raced} \subseteq BOOLEAN
        /\ req[r].index \in Nat /\ req[r].status \in {0, 200, 302, 400, 502}
        /\ ToSet(req[r].ids) \cup req[r].shown \subseteq Identity
        /\ ToSet(req[r].looked) \subseteq
            [st: {"pending", "rejected", "done"}, url: Int, profile: Profile \cup {NoProfile}]
        /\ req[r].data \in Profile \cup {NoProfile}

Init ==
    /\ coerce = FALSE /\ nonce = 0
    /\ req = [r \in Requests |-> NewRequest]
    /\ profile \in Buckets
    /\ failures = 0

At(r, kind, phase) == req[r].kind = kind /\ req[r].phase = phase
Become(r, phase) == req' = [req EXCEPT ![r].phase = phase]
(* What an answered request kept is garbage; its page stays on the screen.   *)
Answered(r, status, page) ==
    [NewRequest EXCEPT !.kind = req[r].kind, !.phase = "answered", !.status = status,
                       !.page = page]
Offer(r, kind) == req[r].phase = "idle" /\ kind \in Offered[r]
Answer(r, status) == req' = [req EXCEPT ![r] = Answered(r, status, {})]
Fails == failures < MaxFailures /\ failures' = failures + 1

----------------------------------------------------------------------------
(* What several handlers use. *)

(* nameLookup: it rejects for an unknown or expired name and when the name   *)
(* service fails.  A profile that cannot be fetched and a zone file that     *)
(* cannot be parsed are no errors: the profile, and the URL, are null.       *)
Url(n) == CASE Zone[n] = "hosted" -> IndexOf(n)
            [] Zone[n] = "elsewhere" -> Elsewhere
            [] OTHER -> NoUrl
Stored(n) == IF Zone[n] = "hosted" THEN profile[IndexOf(n)] ELSE NoProfile

Lookup(n, result) ==
    IF n = NoName \/ Zone[n] = "expired"
    THEN result = Rejected /\ UNCHANGED failures
    ELSE \/ result = Result("done", Url(n), Stored(n)) /\ UNCHANGED failures
         \/ result \in {Result("done", Url(n), NoProfile), Rejected} /\ Fails

LookupResults(n) ==
    {Rejected} \cup
        UNION {{Result("done", Url(m), p) : p \in {Stored(m), NoProfile}} : m \in Names \cap {n}}

(* The key index of an ID-address; and the one whose application key is      *)
(* used: an index of 0 is taken for a missing one.                           *)
FindIdentityIndex(address) == IF address < MaxIDSearchIndex THEN address ELSE -1
KeyIndex(address, index) == IF index > 0 THEN index ELSE FindIdentityIndex(address)

(* Where an identity's profile is uploaded to: the zone file must parse and  *)
(* name the bucket of the identity's own address.                            *)
ProfileFound(id) == id.name \in {NoName} \cup {n \in Names : Zone[n] \in {"hosted", "expired"}}

----------------------------------------------------------------------------
(* GET /auth: handleAuth. *)

AuthWithoutRequest(r) ==
    /\ Offer(r, "auth")
    /\ req' = [req EXCEPT ![r].kind = "auth", ![r].phase = "answered", ![r].status = 400]
    /\ UNCHANGED <<coerce, nonce, profile, failures>>

Auth(r) ==
    /\ Offer(r, "auth")
    /\ \E a \in Apps, w \in BOOLEAN :
        req' = [req EXCEPT ![r].kind = "auth", ![r].phase = "names",
                           ![r].link.app = a, ![r].link.write = w]
    /\ coerce' = TRUE
    /\ UNCHANGED <<nonce, profile, failures>>

(* One round of loadNamedIdentitiesLoop: until an address owns no name. *)
NamesOwned(r) ==
    LET i == req[r].index
        owned == [k \in DOMAIN NamesAt[i] |->
                    [name |-> NamesAt[i][k], index |-> i, url |-> NoUrl]] IN
    /\ At(r, "auth", "names") /\ i <= MaxNameIndex
    /\ req' = IF owned # <<>>
              THEN [req EXCEPT ![r].index = i + 1, ![r].ids = @ \o owned]
              ELSE [req EXCEPT ![r].phase = "lookups",
                               ![r].looked = [k \in DOMAIN req[r].ids |-> Pending]]
    /\ UNCHANGED <<coerce, nonce, profile, failures>>

\* (seeded fault: the catch block leaves the adapter coercing)
NamesFailCoerced(r) ==
    /\ At(r, "auth", "names")
    /\ (req[r].index > MaxNameIndex /\ UNCHANGED failures) \/ Fails
    /\ Answer(r, 400)
    /\ UNCHANGED <<coerce, nonce, profile>>

NamesFail(r) ==
    /\ At(r, "auth", "names")
    /\ (req[r].index > MaxNameIndex /\ UNCHANGED failures) \/ Fails
    /\ coerce' = FALSE
    /\ Answer(r, 400)
    /\ UNCHANGED <<nonce, profile>>

(* The lookups of all names run in parallel; one that rejects becomes null.  *)
NameLooked(r, k) ==
    /\ At(r, "auth", "lookups") /\ req[r].looked[k] = Pending
    /\ \E result \in LookupResults(req[r].ids[k].name) :
        /\ Lookup(req[r].ids[k].name, result)
        /\ req' = [req EXCEPT ![r].looked[k] = result]
    /\ UNCHANGED <<coerce, nonce, profile>>

Done(looked) == {j \in DOMAIN looked : looked[j].st = "done"}
Rank(looked, j) == Cardinality({m \in Done(looked) : m <= j})

\* (seeded fault: the URLs are dealt out from the second on)
FilledInFromNext(ids, looked) ==
    [k \in DOMAIN ids |->
        [ids[k] EXCEPT !.url =
            IF \E j \in Done(looked) : Rank(looked, j) = k + 1
            THEN looked[CHOOSE j \in Done(looked) : Rank(looked, j) = k + 1].url ELSE @]]

(* The nulls are dropped, and what is left is dealt out to the identities in *)
(* order: the k-th lookup that is done fills in the k-th identity.           *)
FilledIn(ids, looked) ==
    [k \in DOMAIN ids |->
        [ids[k] EXCEPT !.url =
            IF \E j \in Done(looked) : Rank(looked, j) = k
            THEN looked[CHOOSE j \in Done(looked) : Rank(looked, j) = k].url ELSE @]]

Anonymous(ids) == [name |-> NoName, index |-> Len(ids) + 1, url |-> NoUrl]

(* Identities without a URL are dropped, an anonymous one is added. *)
IdentitiesLoaded(r) ==
    LET ids == FilledIn(req[r].ids, req[r].looked) IN
    /\ At(r, "auth", "lookups")
    /\ Pending \notin ToSet(req[r].looked)
    /\ req' = [req EXCEPT ![r].phase = "page",
                          ![r].shown = {id \in ToSet(ids) : id.url # NoUrl}
                                         \cup {Anonymous(ids)}]
    /\ coerce' = FALSE
    /\ UNCHANGED <<nonce, profile, failures>>

SignInLink(r, id) == [req[r].link EXCEPT !.id = id, !.nonce = nonce]

AuthPage(r) ==
    /\ At(r, "auth", "page")
    /\ req' = [req EXCEPT ![r] =
                 Answered(r, 200, {SignInLink(r, id) : id \in req[r].shown})]
    /\ UNCHANGED <<coerce, nonce, profile, failures>>

(* The request does not verify, or the application's manifest is not there. *)
AuthRefused(r) ==
    /\ At(r, "auth", "page") /\ Fails
    /\ Answer(r, 400)
    /\ UNCHANGED <<coerce, nonce, profile>>

----------------------------------------------------------------------------
(* GET /signin: handleSignIn. *)

SignIn(r) ==
    /\ Offer(r, "signin")
    /\ \E link \in OldLinks \cup UNION {req[q].page : q \in Requests} :
        req' = [req EXCEPT ![r].kind = "signin", ![r].phase = "connect", ![r].link = link]
    /\ UNCHANGED <<coerce, nonce, profile, failures>>

Connected(r) ==
    LET link == req[r].link IN
    /\ At(r, "signin", "connect")
    /\ link.nonce = nonce /\ KeyIndex(link.id.index, link.id.index) >= 0
    /\ Become(r, "read")
    /\ UNCHANGED <<coerce, nonce, profile, failures>>

(* The response does not verify, is one of an earlier process, has no key,   *)
(* or the application's hub cannot be reached.                               *)
SignInRefused(r) ==
    LET link == req[r].link IN
    /\ At(r, "signin", "connect")
    /\ \/ (link.nonce # nonce \/ KeyIndex(link.id.index, link.id.index) < 0)
          /\ UNCHANGED failures
       \/ Fails
    /\ Answer(r, 400)
    /\ UNCHANGED <<coerce, nonce, profile>>

\* (seeded fault: a profile without API settings is instantiated anew)
WithAPISettingsAnew(p) ==
    LET base == IF p = NoProfile \/ p.api = "missing" THEN NewProfile ELSE p IN
    [profile |-> [base EXCEPT !.api = "set"],
     changed |-> p = NoProfile \/ p.api = "missing"]

(* updateProfileAPISettings and updateProfileApps work on the same object:   *)
(* what they return is the profile, and whether they say it has changed.     *)
WithAPISettings(p) ==
    LET base == IF p = NoProfile THEN NewProfile ELSE p IN
    [profile |-> [base EXCEPT !.api = "set"],
     changed |-> p = NoProfile \/ p.api = "missing"]

\* (seeded fault: an entry that is there is taken for the right one)
WithAppIfMissing(p, a) ==
    IF p.apps[a] # "none" THEN [profile |-> p, changed |-> FALSE]
    ELSE [profile |-> [p EXCEPT !.apps[a] = "own"], changed |-> TRUE]

WithApp(p, a) == [profile |-> [p EXCEPT !.apps[a] = "own"], changed |-> p.apps[a] # "own"]

ProfileRead(r) ==
    LET link == req[r].link IN
    /\ At(r, "signin", "read")
    /\ \E result \in LookupResults(link.id.name) :
        LET api == WithAPISettings(result.profile)
            app == WithApp(api.profile, link.app) IN
        /\ Lookup(link.id.name, result)
        /\ IF (app.changed /\ link.write) \/ api.changed
           THEN req' = [req EXCEPT ![r].phase = "upload", ![r].data = app.profile,
                                   ![r].blind = (result.profile = NoProfile)]
           ELSE Become(r, "answer")
    /\ UNCHANGED <<coerce, nonce, profile>>

----------------------------------------------------------------------------
(* gaia_sethub. *)

SetHub(r) ==
    /\ Offer(r, "sethub")
    /\ \E n \in Names, a \in Apps :
        req' = [req EXCEPT ![r].kind = "sethub", ![r].phase = "read", ![r].link.app = a,
                           ![r].link.id = [name |-> n, index |-> IndexOf(n), url |-> NoUrl]]
    /\ UNCHANGED <<coerce, nonce, profile, failures>>

CanSetHub(id, p, a) ==
    /\ Zone[id.name] \in {"hosted", "expired"}
    /\ p # NoProfile /\ p.apps[a] # "foreign"
    /\ FindIdentityIndex(id.index) >= 0

SetHubRead(r) ==
    LET link == req[r].link
        p == profile[link.id.index] IN
    /\ At(r, "sethub", "read")
    /\ CanSetHub(link.id, p, link.app)
    /\ req' = [req EXCEPT ![r].phase = "upload", ![r].data = WithApp(p, link.app).profile]
    /\ UNCHANGED <<coerce, nonce, profile, failures>>

SetHubFails(r) ==
    LET link == req[r].link IN
    /\ At(r, "sethub", "read")
    /\ \/ ~CanSetHub(link.id, profile[link.id.index], link.app) /\ UNCHANGED failures
       \/ Fails
    /\ Answer(r, 400)
    /\ UNCHANGED <<coerce, nonce, profile>>

----------------------------------------------------------------------------
(* gaiaUploadProfileAll, and what its callers answer. *)

(* The hub stores the profile; whoever read the old one works with that.      *)
HubStores(r) ==
    LET i == req[r].link.id.index IN
    /\ req[r].phase = "upload" /\ ProfileFound(req[r].link.id)
    /\ profile' = [profile EXCEPT ![i] = req[r].data]
    /\ req' = [q \in Requests |->
                 IF q = r THEN [req[q] EXCEPT !.phase = "answer"]
                 ELSE [req[q] EXCEPT !.raced = @ \/ (/\ req[q].phase \in {"upload", "answer"}
                                                     /\ req[q].link.id.index = i)]]
    /\ UNCHANGED <<coerce, nonce, failures>>

(* The hub's answer has come, if there was an upload at all.                 *)
Uploaded(r) ==
    /\ req[r].phase = "answer"
    /\ Answer(r, IF req[r].kind = "signin" THEN 302 ELSE 200)
    /\ UNCHANGED <<coerce, nonce, profile, failures>>

(* The hub has stored the profile, its answer is lost.                       *)
UploadAnswerLost(r) ==
    /\ req[r].phase = "answer" /\ req[r].data # NoProfile
    /\ Fails
    /\ Answer(r, 502)
    /\ UNCHANGED <<coerce, nonce, profile>>

UploadFails(r) ==
    /\ req[r].phase = "upload"
    /\ (~ProfileFound(req[r].link.id) /\ UNCHANGED failures) \/ Fails
    /\ Answer(r, 502)
    /\ UNCHANGED <<coerce, nonce, profile>>

----------------------------------------------------------------------------
(* The authenticator is stopped and started again: its requests end, and the *)
(* adapter and the nonce are new.                                            *)
Restart ==
    /\ nonce < MaxRestarts
    /\ nonce' = nonce + 1
    /\ coerce' = FALSE
    /\ req' = [r \in Requests |->
                 IF req[r].kind \in {"auth", "signin"} /\ req[r].phase # "answered"
                 THEN [NewRequest EXCEPT !.kind = req[r].kind, !.phase = "dead"]
                 ELSE req[r]]
    /\ UNCHANGED <<profile, failures>>

Continue(r) ==
    \/ NamesOwned(r) \/ NamesFail(r)
    \/ (\E k \in DOMAIN req[r].looked : NameLooked(r, k)) \/ IdentitiesLoaded(r)
    \/ AuthPage(r) \/ AuthRefused(r)
    \/ Connected(r) \/ SignInRefused(r) \/ ProfileRead(r)
    \/ SetHubRead(r) \/ SetHubFails(r)
    \/ HubStores(r) \/ Uploaded(r) \/ UploadAnswerLost(r) \/ UploadFails(r)

Begin(r) == AuthWithoutRequest(r) \/ Auth(r) \/ SignIn(r) \/ SetHub(r)

Next == (\E r \in Requests : Begin(r) \/ Continue(r)) \/ Restart

Spec == Init /\ [][Next]_vars

----------------------------------------------------------------------------
(* Properties *)

Uploads(r, i) ==
    /\ req[r].phase = "upload" /\ req[r].link.id.index = i
    /\ req'[r].phase = "answer"

Keeps(p, q, a) ==
    /\ p # NoProfile => q.own = p.own /\ (p.api # "missing" => q.api # "missing")
    /\ p # NoProfile => \A b \in Apps \ {a} : q.apps[b] = p.apps[b]

(* A sign-in or gaia_sethub adds to a profile, whatever else runs: what is in *)
(* it, other applications' entries included, is lost only to an upload that   *)
(* was made without having read it (the lookup failed, its name is expired or *)
(* it has none) or whose reading another upload outdated.  (handleSignIn,     *)
(* updateProfileApps, updateProfileAPISettings, gaiaSetHub.)                  *)
AppsSurvive ==
    [][\A i \in Indices : profile'[i] # profile[i] =>
        \E r \in Requests :
            /\ Uploads(r, i)
            /\ req[r].blind \/ req[r].raced
               \/ Keeps(profile[i], profile'[i], req[r].link.app)]_vars

(* Redirected after a request for store_write, the application finds its own  *)
(* entry in the profile, unless another upload of that profile came between   *)
(* the request's reading and its answer.  (handleSignIn, updateProfileApps.)   *)
RedirectListed ==
    [][\A r \in Requests :
        LET link == req[r].link IN
        req'[r].status = 302 /\ req[r].status # 302 /\ link.write /\ ~req[r].raced =>
            /\ profile'[link.id.index] # NoProfile
            /\ profile'[link.id.index].apps[link.app] = "own"]_vars

(* A name is shown with its own profile URL, and only if it has one, as long  *)
(* as its lookup and those of the names before it went well: one that was     *)
(* rejected shifts the URLs of the names after it, and no other               *)
(* (getIdentityInfo).                                                         *)
Loaded(r) == At(r, "auth", "lookups") /\ req'[r].phase = "page"

OwnUrlsUpToRejected ==
    [][\A r \in Requests : Loaded(r) =>
        \A k \in DOMAIN req[r].ids :
            (\A j \in 1..k : req[r].looked[j].st = "done") =>
                \A id \in req'[r].shown :
                    id.name = req[r].ids[k].name =>
                        id.url = Url(id.name) /\ id.url # NoUrl]_vars

(* The adapter goes on coercing addresses only while identities are loaded.   *)
CoercionRestored ==
    coerce => \E r \in Requests : \E ph \in {"names", "lookups"} : At(r, "auth", ph)

(* "ignore identities with no data" (auth.ts:344).                            *)
NoDataIgnored ==
    \A r \in Requests : \A link \in req[r].page :
        link.id.name # NoName => Zone[link.id.name] # "expired"
=============================================================================
