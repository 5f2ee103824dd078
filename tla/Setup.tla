-------------------------------- MODULE Setup --------------------------------
(* The set-up pages (Setup.vue, AccountStep.vue) and the start of the client
   that follows them (boot/setup-apis.ts, setupConnections of App.vue): a seed
   is chosen, a worker derives the key from it, the registry and the relay are
   asked for what they have of that identity, and in the end the identity is
   registered and its profile published.

   An identity is its seed.  Every await lets the user act (the loading overlay
   comes 100 ms after it is asked for) and the process may end anywhere.  The
   stores are written at every change.  Registry and default relay are the
   local services; an identity made elsewhere may be registered with another
   relay.  Deposits and the indexer only enable the last button. *)
EXTENDS Integers

CONSTANTS Seeds,        \* seed phrases, and the identities derived from them
          Imported,     \* those that were set up elsewhere before
          Clicks,       \* clicks on "next" whose work goes on at the same time
          MaxNext,      \* bound on the clicks on "next" that start work
          MaxStops,     \* bound on the ends of the client and of the services
          nothing

ASSUME SetupAssumption ==
    /\ Imported \subseteq Seeds /\ nothing \notin Seeds
    /\ {MaxNext, MaxStops} \subseteq Nat

VARIABLES
    wizard,      \* the page: step, action, account and the seed last used
    avatar,      \* the picture has been loaded
    relayUrl, relayData,
    work,        \* what a click on "next" is doing
    saved,       \* stores on disk: seedPhrase, xPrivKey, profile
    walletKey,   \* the key of the wallet object
    token,       \* the token of the relay client
    ready,       \* $status.setup
    heals,       \* what setupConnections still checks
    registered,  \* the registry: the relay an identity names
    profiles,    \* the relays: the profile of an identity
    begun, ends,
    published,   \* identities that have been registered and had a profile
    mixed,       \* a wallet was begun while another one's work went on
    early        \* the second step and the last went on at the same time

serverVars == <<registered, profiles, published>>
seenVars == <<mixed, early>>
setupVars == <<wizard, avatar, relayUrl, relayData, work, saved, walletKey,
               token, ready, heals, serverVars, begun, ends, seenVars>>

Urls == {"default", "other"}

\* A profile: whose it is ("own" when made here) and whether it has a picture.
Profile == [of : Seeds \cup {"own"}, picture : BOOLEAN]

ASSUME NothingAssumption == nothing \notin Profile

\* What a relay stores is signed, and checked against the address it is read
\* for; a profile without a picture is refused as well.
constructProfileMetadata(data, id) == [by |-> id, profile |-> data]

verifyProfileMetadata(p, id) == p.by = id

getRelayData(url, id) ==
    LET p == profiles[url][id]
    IN  IF p # nothing /\ verifyProfileMetadata(p, id) /\ p.profile.picture
        THEN p.profile ELSE nothing

Refused(url, id) == profiles[url][id] # nothing /\ getRelayData(url, id) = nothing

getRelayUrl(id) == registered[id]

NewPages(seed) ==
    [step |-> 1, action |-> "none", named |-> FALSE, seed |-> seed,
     valid |-> FALSE, used |-> nothing]

Job(at, id, url, tries) ==
    [at |-> at, id |-> id, url |-> url, data |-> nothing, tries |-> tries]

NoWork == Job("none", nothing, "default", 0)

SetupInit ==
    /\ \E s \in Seeds \ Imported :
         /\ wizard = NewPages(s)
         /\ saved = [phrase |-> s, key |-> nothing, profile |-> nothing]
    /\ avatar = FALSE /\ relayUrl = "default" /\ relayData = nothing
    /\ work = [c \in Clicks |-> NoWork]
    /\ walletKey = nothing /\ token = nothing /\ ready = FALSE /\ heals = {}
    /\ registered \in {f \in [Seeds -> Urls \cup {nothing}] :
                          \A s \in Seeds : f[s] = nothing <=> s \notin Imported}
    /\ \E p \in BOOLEAN :
         profiles = [u \in Urls |-> [s \in Seeds |->
            IF registered[s] = u
            THEN constructProfileMetadata([of |-> s, picture |-> p], s) ELSE nothing]]
    /\ begun = 0 /\ ends = 0 /\ mixed = FALSE /\ early = FALSE
    /\ published = [key |-> Imported, profile |-> Imported]

UnderWay(c) == work[c].at # "none"
Opening(c) == work[c].at \in {"worker", "lookup", "relay"}
Closing(c) == work[c].at \in {"metadata", "paying", "profile"}

Goes(c, at) == work' = [work EXCEPT ![c].at = at]
Over(c) == work' = [work EXCEPT ![c] = NoWork]

Starts(c, job) ==
    /\ ~ready /\ ~UnderWay(c)
    /\ begun < MaxNext /\ begun' = begun + 1
    /\ work' = [work EXCEPT ![c] = job]

-----------------------------------------------------------------------------
(* The pages.  The account page is made anew whenever it is shown. *)

\* stepper.next: the last step stays.
NextStep(w) == IF w.step = 3 THEN w
               ELSE [w EXCEPT !.step = @ + 1, !.action = "none", !.named = FALSE]

Page(w) ==
    /\ ~ready
    /\ wizard' = w
    /\ UNCHANGED <<avatar, relayUrl, relayData, work, saved, walletKey, token,
                   ready, heals, serverVars, begun, ends, seenVars>>

Agree == wizard.step = 1 /\ Page(NextStep(wizard))

previous ==
    /\ wizard.step > 1
    /\ Page([wizard EXCEPT !.step = @ - 1, !.action = "none", !.named = FALSE])

newAccount ==
    /\ wizard.step = 2 /\ wizard.action = "none"
    /\ Page([wizard EXCEPT !.action = "new", !.valid = FALSE])

importAccount ==
    /\ wizard.step = 2 /\ wizard.action = "none"
    /\ Page([wizard EXCEPT !.action = "import", !.seed = nothing, !.valid = FALSE])

isValid(w) ==
    /\ w.seed # nothing
    /\ w.action = "import" \/ (w.action = "new" /\ w.named)

TypeName ==
    /\ wizard.step = 2 /\ wizard.action = "new" /\ ~wizard.named
    /\ LET w == [wizard EXCEPT !.named = TRUE]
       IN  Page([w EXCEPT !.valid = isValid(w)])

TypeSeed(s) ==
    /\ wizard.step = 2 /\ wizard.action = "import"
    /\ Page([wizard EXCEPT !.seed = s, !.valid = TRUE])

generateMnemonic(s) ==
    /\ wizard.step = 2 /\ wizard.action = "new" /\ s \notin Imported
    /\ LET w == [wizard EXCEPT !.seed = s]
       IN  Page([w EXCEPT !.valid = isValid(w)])

\* The image of selectRandomAvatar, asked for by the first "next".
AvatarLoaded ==
    /\ wizard.used # nothing /\ ~avatar
    /\ avatar' = TRUE
    /\ UNCHANGED <<wizard, relayUrl, relayData, work, saved, walletKey, token,
                   ready, heals, serverVars, begun, ends, seenVars>>

-----------------------------------------------------------------------------
(* The second step: newWallet, setupRelayData. *)

\* The old key is kept until the worker answers.
newWalletKeeps(c) ==
    /\ wizard.step = 2 /\ wizard.valid
    /\ Starts(c, Job("worker", wizard.seed, "default", 0))
    /\ wizard' = [wizard EXCEPT !.used = wizard.seed]
    /\ saved' = [saved EXCEPT !.phrase = wizard.seed]
    /\ mixed' = (mixed \/ \E d \in Clicks : UnderWay(d) /\ work[d].id # wizard.seed)
    /\ early' = (early \/ \E d \in Clicks : Closing(d))
    /\ UNCHANGED <<avatar, relayUrl, relayData, walletKey, token, ready,
                   heals, serverVars, ends>>

\* The store forgets the key, keeps the phrase; the worker is started.
newWallet(c) ==
    /\ wizard.step = 2 /\ wizard.valid
    /\ Starts(c, Job("worker", wizard.seed, "default", 0))
    /\ wizard' = [wizard EXCEPT !.used = wizard.seed]
    /\ saved' = [saved EXCEPT !.key = nothing, !.phrase = wizard.seed]
    /\ mixed' = (mixed \/ \E d \in Clicks : UnderWay(d) /\ work[d].id # wizard.seed)
    /\ early' = (early \/ \E d \in Clicks : Closing(d))
    /\ UNCHANGED <<avatar, relayUrl, relayData, walletKey, token, ready,
                   heals, serverVars, ends>>

\* Workers answer in any order; then the registry is asked for the identity.
WorkerAnswers(c) ==
    /\ work[c].at = "worker"
    /\ Goes(c, "lookup")
    /\ saved' = [saved EXCEPT !.key = work[c].id]
    /\ walletKey' = work[c].id
    /\ UNCHANGED <<wizard, avatar, relayUrl, relayData, token, ready, heals,
                   serverVars, begun, ends, seenVars>>

\* getRelayUrl: the relay of the identity; or 404, upon which the page moves on
\* already; or another failure, which leaves the relay as it was.
LookupAnswered(c, ok) ==
    /\ work[c].at = "lookup"
    /\ LET url == getRelayUrl(work[c].id)
       IN  /\ relayUrl' = IF ~ok THEN relayUrl
                          ELSE IF url = nothing THEN "default" ELSE url
           /\ wizard' = IF ok /\ url = nothing THEN NextStep(wizard) ELSE wizard
    /\ work' = [work EXCEPT ![c].at = "relay", ![c].url = relayUrl']
    /\ UNCHANGED <<avatar, relayData, saved, walletKey, token, ready, heals,
                   serverVars, begun, ends, seenVars>>

\* The profile found, or one made here; without an answer, or with a profile
\* that is refused, the page stays.
RelayAnswered(c, ok) ==
    /\ work[c].at = "relay"
    /\ Over(c)
    /\ LET found == getRelayData(work[c].url, work[c].id)
       IN  relayData' = IF ok /\ found # nothing THEN found
                        ELSE [of |-> "own", picture |-> avatar]
    /\ wizard' = IF ok /\ ~Refused(work[c].url, work[c].id)
                 THEN NextStep(wizard) ELSE wizard
    /\ UNCHANGED <<avatar, relayUrl, saved, walletKey, token, ready, heals,
                   serverVars, begun, ends, seenVars>>

-----------------------------------------------------------------------------
(* The last step: setUpRegistry, setupRelay. *)

forwardEnabled == relayData # nothing /\ relayData.picture

setupSettings(c) ==
    /\ wizard.step = 3 /\ forwardEnabled
    /\ Starts(c, Job("metadata", walletKey, relayUrl, 3))
    /\ early' = (early \/ \E d \in Clicks : Opening(d))
    /\ UNCHANGED <<wizard, avatar, relayUrl, relayData, saved, walletKey,
                   token, ready, heals, serverVars, ends, mixed>>

\* The metadata is with the registry, and perhaps the answer is lost.
Registers(id, url, stored) ==
    /\ registered' = IF stored THEN [registered EXCEPT ![id] = url] ELSE registered
    /\ published' = IF stored THEN [published EXCEPT !.key = @ \cup {id}] ELSE published

\* updateProfile is called with the key and the profile of that moment.
Publishing(c) ==
    work' = [work EXCEPT ![c].at = "profile", ![c].id = walletKey,
                         ![c].data = relayData]

MetadataAnswered(c, stored, ok) ==
    /\ work[c].at = "metadata" /\ (ok => stored)
    /\ Registers(work[c].id, work[c].url, stored)
    /\ IF ~ok THEN Over(c) /\ UNCHANGED token
       ELSE IF relayUrl = "default" THEN Publishing(c) /\ token' = "local"
       ELSE Goes(c, "paying") /\ UNCHANGED token
    /\ UNCHANGED <<wizard, avatar, relayUrl, relayData, saved, walletKey,
                   ready, heals, profiles, begun, ends, seenVars>>

\* The profile payment, for another relay: three tries for lack of funds, after
\* which the loop ends without a token.
PaymentAnswered(c, how) ==
    /\ work[c].at = "paying"
    /\ CASE how = "token" -> Publishing(c) /\ token' = "paid"
         [] how = "failed" -> Over(c) /\ UNCHANGED token
         [] how = "insufficient funds" ->
              /\ UNCHANGED token
              /\ IF work[c].tries = 1 THEN Publishing(c)
                 ELSE work' = [work EXCEPT ![c].tries = @ - 1]
    /\ UNCHANGED <<wizard, avatar, relayUrl, relayData, saved, walletKey,
                   ready, heals, serverVars, begun, ends, seenVars>>

\* PUT of a profile at the client's relay, the default one: it takes the local
\* token only.
isAuthorized == token = "local"

\* The profile is stored, and the answer arrives.
putProfile(stored, ok) == (ok => stored) /\ (stored => isAuthorized)

Publishes(id, data, stored) ==
    /\ profiles' = IF stored
                   THEN [profiles EXCEPT !["default"][id] =
                            constructProfileMetadata(data, id)]
                   ELSE profiles
    /\ published' = IF stored THEN [published EXCEPT !.profile = @ \cup {id}] ELSE published

\* setupConnections: connected once, with a key and a token.
Connected(id) ==
    /\ ready' = TRUE
    /\ heals' = [what : {"key", "profile"}, id : {id}, at : {"get"}]

\* The profile is kept whatever the relay answered.
ProfileAnsweredAnyhow(c, stored, ok) ==
    /\ work[c].at = "profile"
    /\ stored => isAuthorized
    /\ Publishes(work[c].id, work[c].data, stored)
    /\ Over(c)
    /\ saved' = [saved EXCEPT !.profile = relayData, !.phrase = wizard.used]
    /\ IF ok /\ ~ready THEN Connected(walletKey) ELSE UNCHANGED <<ready, heals>>
    /\ UNCHANGED <<wizard, avatar, relayUrl, relayData, walletKey, token,
                   registered, begun, ends, seenVars>>

ProfileAnswered(c, stored, ok) ==
    /\ work[c].at = "profile"
    /\ putProfile(stored, ok)
    /\ Publishes(work[c].id, work[c].data, stored)
    /\ Over(c)
    /\ saved' = IF ok THEN [saved EXCEPT !.profile = relayData,
                                         !.phrase = wizard.used]
                ELSE saved
    /\ IF ok /\ ~ready THEN Connected(walletKey) ELSE UNCHANGED <<ready, heals>>
    /\ UNCHANGED <<wizard, avatar, relayUrl, relayData, walletKey, token,
                   registered, begun, ends, seenVars>>

-----------------------------------------------------------------------------
(* setupConnections asks for what is published of the identity; any failure,
   not only 404, makes it publish again, with the default relay. *)

HealGet(h, ok) ==
    /\ h \in heals /\ h.at = "get"
    /\ LET there == IF h.what = "key" THEN getRelayUrl(h.id)
                                      ELSE getRelayData("default", h.id)
       IN  heals' = (heals \ {h}) \cup
                    (IF ok /\ there # nothing THEN {} ELSE {[h EXCEPT !.at = "put"]})
    /\ UNCHANGED <<wizard, avatar, relayUrl, relayData, work, saved,
                   walletKey, token, ready, serverVars, begun, ends, seenVars>>

HealPut(h, stored) ==
    /\ h \in heals /\ h.at = "put"
    /\ heals' = heals \ {h}
    /\ IF h.what = "key"
       THEN Registers(h.id, "default", stored) /\ UNCHANGED profiles
       ELSE Publishes(h.id, saved.profile, stored /\ isAuthorized) /\ UNCHANGED registered
    /\ UNCHANGED <<wizard, avatar, relayUrl, relayData, work, saved,
                   walletKey, token, ready, begun, ends, seenVars>>

\* The client ends and starts: set up when it finds a key and a profile.
Boot ==
    /\ ends < MaxStops /\ ends' = ends + 1
    /\ wizard' = NewPages(saved.phrase)
    /\ avatar' = FALSE /\ relayUrl' = "default" /\ relayData' = nothing
    /\ work' = [c \in Clicks |-> NoWork]
    /\ IF saved.key # nothing /\ saved.profile # nothing
       THEN walletKey' = saved.key /\ token' = "local" /\ Connected(saved.key)
       ELSE walletKey' = nothing /\ token' = nothing /\ ready' = FALSE /\ heals' = {}
    /\ UNCHANGED <<saved, begun, serverVars, seenVars>>

\* The local services keep everything in memory.
ServicesRestart ==
    /\ ends < MaxStops /\ ends' = ends + 1
    /\ registered' = [s \in Seeds |-> nothing]
    /\ profiles' = [profiles EXCEPT !["default"] = [s \in Seeds |-> nothing]]
    /\ UNCHANGED <<wizard, avatar, relayUrl, relayData, work, saved,
                   walletKey, token, ready, heals, published, begun, seenVars>>

SetupNext ==
    \/ Agree \/ previous \/ newAccount \/ importAccount \/ TypeName \/ AvatarLoaded
    \/ \E s \in Seeds : TypeSeed(s) \/ generateMnemonic(s)
    \/ \E c \in Clicks : newWallet(c) \/ WorkerAnswers(c) \/ setupSettings(c)
    \/ \E c \in Clicks, ok \in BOOLEAN : LookupAnswered(c, ok) \/ RelayAnswered(c, ok)
    \/ \E c \in Clicks, stored, ok \in BOOLEAN :
         MetadataAnswered(c, stored, ok) \/ ProfileAnswered(c, stored, ok)
    \/ \E c \in Clicks : \E how \in {"token", "failed", "insufficient funds"} :
         PaymentAnswered(c, how)
    \/ \E h \in heals, ok \in BOOLEAN : HealGet(h, ok) \/ HealPut(h, ok)
    \/ Boot
    \/ ServicesRestart

SetupSpec == SetupInit /\ [][SetupNext]_setupVars

-----------------------------------------------------------------------------
\* Whenever the client stops, the seed phrase on disk is that of the key on
\* disk, and of the key the deposit page shows the address of: the coins sent
\* there can be recovered.  The exception is a wallet begun while the work for
\* another seed goes on: two workers answer in any order (Setup.vue:193).
PhraseOfKey ==
    ~mixed =>
      /\ saved.key \in {nothing, saved.phrase}
      /\ (wizard.step = 3 /\ ~ready) => walletKey = saved.phrase

\* A client that starts as set up (setup-apis.ts:132) has published its own
\* identity: it was registered, the relay had a profile for it, and the profile
\* kept is its own, however often the set-up was interrupted, repeated with
\* another seed or left without an answer.  The exceptions are work for two
\* seeds at once, and the second and the last step at once: after a 404 of the
\* registry the page moves on with the profile of the seed before
\* (Setup.vue:257), and a wallet that is begun again while the profile is being
\* published leaves, when the client ends, a profile without a key, which the
\* next seed inherits.
SetUpIsPublished ==
    (saved.key # nothing /\ saved.profile # nothing /\ ~mixed /\ ~early) =>
      /\ saved.key \in published.key \cap published.profile
      /\ saved.profile.of \in {"own", saved.key}

=============================================================================
