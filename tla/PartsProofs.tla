----------------------------- MODULE PartsProofs -----------------------------
(***************************************************************************)
(* Proofs about two parts of the client that run from their own first      *)
(* step: the set-up pages, then one message from its sender to its         *)
(* recipient.                                                              *)
(*                                                                         *)
(* The set-up pages: their types, that the seed phrase on disk is that of  *)
(* the key, and that a client that starts as set up has published its      *)
(* identity.  The argument has three layers.  Progress holds of every      *)
(* behaviour: what a page or a piece of work has behind it.  While no      *)
(* wallet was begun beside the work for another seed, all work is for the  *)
(* seed last used, which is the phrase on disk (SeedInv).  While,          *)
(* moreover, the second and the last step never went on at once, the       *)
(* profile at hand belongs to the key, and a profile is on disk only after *)
(* its identity was registered and published (PublishInv).                 *)
(*                                                                         *)
(* The message: it means the same wherever it is opened, and its coins can *)
(* be spent, for any number of transactions.  First what the code's pure   *)
(* parts compute: the entries of a message come out as the items they were *)
(* made of, the recipient derives the keys the sender paid to, a kept      *)
(* stamp is found in the group it was derived for.  EnvelopeInv then says  *)
(* what of a message can be changed on its way (HandedWell), to which keys *)
(* unspent outputs are paid (PaidWell) and what a device has of it         *)
(* (SeenWell).                                                             *)
(***************************************************************************)
EXTENDS Setup, Envelope, SequenceProofs

-----------------------------------------------------------------------------
(* The set-up pages. *)

Ids == Seeds \cup {nothing}

Wizard == [step : 1..3, action : {"none", "new", "import"}, named : BOOLEAN,
           seed : Ids, valid : BOOLEAN, used : Ids]

Stages == {"none", "worker", "lookup", "relay", "metadata", "paying", "profile"}

Work == [at : Stages, id : Ids, url : Urls, data : Profile \cup {nothing}, tries : Int]

\* What a relay keeps for an identity.
KeptProfile == [by : Seeds, profile : Profile]

\* Every variable has its type.
SetupTypeOK ==
    /\ wizard \in Wizard
    /\ avatar \in BOOLEAN
    /\ relayUrl \in Urls
    /\ relayData \in Profile \cup {nothing}
    /\ work \in [Clicks -> Work]
    /\ saved \in [phrase : Seeds, key : Ids, profile : Profile \cup {nothing}]
    /\ walletKey \in Ids
    /\ token \in {"local", "paid", nothing}
    /\ ready \in BOOLEAN
    /\ heals \in SUBSET [what : {"key", "profile"}, id : Seeds, at : {"get", "put"}]
    /\ registered \in [Seeds -> Urls \cup {nothing}]
    /\ profiles \in [Urls -> [Seeds -> KeptProfile \cup {nothing}]]
    /\ published \in [key : SUBSET Seeds, profile : SUBSET Seeds]
    /\ begun \in Nat /\ ends \in Nat
    /\ mixed \in BOOLEAN /\ early \in BOOLEAN

\* What lies behind a page or a piece of work.
Progress ==
    /\ wizard.valid => wizard.seed \in Seeds
    /\ wizard.step = 3 => walletKey \in Seeds /\ wizard.used \in Seeds
    /\ \A c \in Clicks : UnderWay(c) => work[c].id \in Seeds /\ wizard.used \in Seeds
    /\ \A c \in Clicks : work[c].at \notin {"none", "worker"} => walletKey \in Seeds
    /\ \A c \in Clicks : Closing(c) => relayData \in Profile
    /\ \A c \in Clicks : work[c].at = "profile" => work[c].data \in Profile
    /\ ready => saved.profile \in Profile
    /\ heals # {} => ready
    /\ walletKey # nothing /\ (\A c \in Clicks : work[c].at # "worker")
           => saved.key = walletKey

\* All work is for the seed last used, which is the phrase on disk.
SeedInv ==
    /\ saved.key \in {nothing, saved.phrase}
    /\ wizard.step = 3 => walletKey = saved.phrase /\ wizard.used = saved.phrase
    /\ \A c \in Clicks : UnderWay(c) => /\ work[c].id = saved.phrase
                                        /\ wizard.used = saved.phrase
    /\ \A c \in Clicks : work[c].at \notin {"none", "worker"} => walletKey = saved.phrase

\* Whose profile, as far as it was not made here.
Belongs(profile, id) == profile.of \in {"own", id}

\* The last step works with what the second has ended with, and a profile is
\* kept only by a client that is set up and published.
PublishInv ==
    /\ \A c, d \in Clicks : ~(Opening(c) /\ Closing(d))
    /\ ready => \A c \in Clicks : ~Opening(c)
    /\ saved.profile # nothing => /\ ready
                                  /\ saved.key \in published.key \cap published.profile
                                  /\ Belongs(saved.profile, saved.key)
    /\ (\A c \in Clicks : ~Opening(c)) /\ relayData # nothing => Belongs(relayData, walletKey)
    /\ \A c \in Clicks :
          /\ work[c].at \in {"paying", "profile"} => work[c].id \in published.key
          /\ work[c].at = "profile" => Belongs(work[c].data, work[c].id)
    /\ \A u \in Urls, s \in Seeds :
          profiles[u][s] # nothing => Belongs(profiles[u][s].profile, s)
    /\ \A h \in heals : h.id = saved.key

SetupInv ==
    /\ SetupTypeOK
    /\ Progress
    /\ ~mixed => SeedInv
    /\ ~mixed /\ ~early => PublishInv

-----------------------------------------------------------------------------
\* The pages before the first click.
LEMMA SetupInitInv == SetupInit => SetupInv
<1> SUFFICES ASSUME SetupInit PROVE SetupInv
  OBVIOUS
<1> USE SetupAssumption DEF SetupInit, NewPages, NoWork, Job, constructProfileMetadata
<1>1. SetupTypeOK
  <2>1. wizard \in Wizard
    BY DEF Wizard, Ids
  <2>2. work \in [Clicks -> Work]
    BY DEF Work, Stages, Ids, Urls
  <2>3. profiles \in [Urls -> [Seeds -> KeptProfile \cup {nothing}]]
    BY DEF KeptProfile, Profile
  <2>4. registered \in [Seeds -> Urls \cup {nothing}]
    OBVIOUS
  <2>5. saved \in [phrase : Seeds, key : Ids, profile : Profile \cup {nothing}]
    BY DEF Ids
  <2> QED
    BY <2>1, <2>2, <2>3, <2>4, <2>5 DEF SetupTypeOK, Urls, Ids
<1>2. Progress
  BY DEF Progress, UnderWay, Closing
<1>3. SeedInv
  BY DEF SeedInv, UnderWay
<1>4. PublishInv
  BY DEF PublishInv, Opening, Closing, Belongs
<1> QED
  BY <1>1, <1>2, <1>3, <1>4 DEF SetupInv

\* A page that keeps the seed last used and does not reach the last step.
LEMMA PageInv ==
    ASSUME SetupInv, NEW w \in Wizard, Page(w), w.used = wizard.used,
           w.valid => w.seed \in Seeds, w.step = 3 => wizard.step = 3
    PROVE  SetupInv'
<1> USE DEF SetupInv, Page, serverVars, seenVars
<1>1. SetupTypeOK'
  BY DEF SetupTypeOK
<1>2. Progress'
  BY DEF Progress, UnderWay, Closing
<1>3. ~mixed' => SeedInv'
  BY DEF SeedInv, UnderWay
<1>4. ~mixed' /\ ~early' => PublishInv'
  BY DEF PublishInv, Opening, Closing
<1> QED
  BY <1>1, <1>2, <1>3, <1>4

\* stepper.next keeps everything but the step and what the page is made with.
LEMMA NextStepPage ==
    ASSUME NEW w \in Wizard
    PROVE  /\ NextStep(w) \in Wizard
           /\ NextStep(w).used = w.used
           /\ NextStep(w).seed = w.seed
           /\ NextStep(w).valid = w.valid
           /\ NextStep(w).step = IF w.step = 3 THEN 3 ELSE w.step + 1
<1>1. w.step \in Int /\ (w.step = 3 \/ w.step + 1 \in 1..3)
  BY DEF Wizard
<1> DEFINE n == w.step + 1
<1>2. CASE w.step = 3
  BY <1>2 DEF NextStep
<1>3. CASE w.step # 3
  <2>1. n \in 1..3
    BY <1>1, <1>3
  <2>2. NextStep(w) = [w EXCEPT !.step = n, !.action = "none", !.named = FALSE]
    BY <1>3 DEF NextStep, Wizard
  <2> HIDE DEF n
  <2>3. NextStep(w) \in Wizard
    BY <2>1, <2>2 DEF Wizard
  <2>4. NextStep(w).step = n /\ NextStep(w).used = w.used
        /\ NextStep(w).seed = w.seed /\ NextStep(w).valid = w.valid
    BY <2>1, <2>2 DEF Wizard
  <2> QED
    BY <1>3, <2>3, <2>4 DEF n
<1> QED
  BY <1>2, <1>3

\* The steps of the account page and the buttons that leave it.
LEMMA PagesInv ==
    ASSUME SetupInv,
           \/ Agree \/ previous \/ newAccount \/ importAccount \/ TypeName
           \/ \E s \in Seeds : TypeSeed(s) \/ generateMnemonic(s)
    PROVE  SetupInv'
<1>1. wizard \in Wizard /\ (wizard.valid => wizard.seed \in Seeds)
  BY DEF SetupInv, SetupTypeOK, Progress
<1> USE <1>1, SetupAssumption DEF Wizard, Ids
<1>2. CASE Agree
  BY <1>2, PageInv, NextStepPage DEF Agree
<1>3. CASE previous
  <2> DEFINE n == wizard.step - 1
             w == [wizard EXCEPT !.step = n, !.action = "none", !.named = FALSE]
  <2>1. n \in 1..2 /\ Page(w)
    BY <1>3 DEF previous
  <2> HIDE DEF n
  <2>2. w \in Wizard
    <3>1. n \in 1..3
      BY <2>1
    <3> QED
      BY <3>1
  <2>3. w.used = wizard.used /\ w.valid = wizard.valid /\ w.seed = wizard.seed /\ w.step = n
    BY <2>1
  <2> HIDE DEF w
  <2> QED
    BY <2>1, <2>2, <2>3, PageInv
<1>4. CASE newAccount
  BY <1>4, PageInv DEF newAccount
<1>5. CASE importAccount
  BY <1>5, PageInv DEF importAccount
<1>6. CASE TypeName
  BY <1>6, PageInv DEF TypeName, isValid
<1>7. ASSUME NEW s \in Seeds, TypeSeed(s) PROVE SetupInv'
  BY <1>7, PageInv DEF TypeSeed
<1>8. ASSUME NEW s \in Seeds, generateMnemonic(s) PROVE SetupInv'
  BY <1>8, PageInv DEF generateMnemonic, isValid
<1> QED
  BY <1>2, <1>3, <1>4, <1>5, <1>6, <1>7, <1>8

-----------------------------------------------------------------------------
(* What the steps make of the work of a click. *)

\* A click begins its work and leaves that of the others alone.
LEMMA StartsWork ==
    ASSUME work \in [Clicks -> Work], NEW c \in Clicks, NEW at \in Stages, NEW id \in Ids,
           NEW url \in Urls, NEW n \in Int, work' = [work EXCEPT ![c] = Job(at, id, url, n)]
    PROVE  /\ work' \in [Clicks -> Work]
           /\ work'[c].at = at /\ work'[c].id = id
           /\ \A d \in Clicks \ {c} : work'[d] = work[d]
<1>1. Job(at, id, url, n) \in Work
  BY DEF Work, Job
<1>2. Job(at, id, url, n).at = at /\ Job(at, id, url, n).id = id
  BY DEF Job
<1> QED
  BY <1>1, <1>2

\* A click's work ends.
LEMMA OverWork ==
    ASSUME work \in [Clicks -> Work], NEW c \in Clicks, Over(c)
    PROVE  /\ work' \in [Clicks -> Work]
           /\ work'[c].at = "none"
           /\ \A d \in Clicks \ {c} : work'[d] = work[d]
<1>1. "none" \in Stages /\ nothing \in Ids /\ "default" \in Urls /\ 0 \in Int
  BY DEF Stages, Ids, Urls
<1>2. work' = [work EXCEPT ![c] = Job("none", nothing, "default", 0)]
  BY DEF Over, NoWork
<1> QED
  BY <1>1, <1>2, StartsWork, Zenon

\* It goes on with what it has.
LEMMA GoesWork ==
    ASSUME work \in [Clicks -> Work], NEW c \in Clicks, NEW at \in Stages, Goes(c, at)
    PROVE  /\ work' \in [Clicks -> Work]
           /\ work'[c].at = at /\ work'[c].id = work[c].id
           /\ \A d \in Clicks \ {c} : work'[d] = work[d]
BY DEF Goes, Work

\* It publishes with the key and the profile of the moment.
LEMMA PublishingWork ==
    ASSUME work \in [Clicks -> Work], NEW c \in Clicks, walletKey \in Seeds,
           relayData \in Profile, Publishing(c)
    PROVE  /\ work' \in [Clicks -> Work]
           /\ /\ work'[c].at = "profile" /\ work'[c].id = walletKey
              /\ work'[c].data = relayData
           /\ \A d \in Clicks \ {c} : work'[d] = work[d]
<1>1. /\ walletKey \in Ids /\ relayData \in Profile \cup {nothing}
      /\ "profile" \in Stages
  BY DEF Ids, Stages
<1>2. work' \in [Clicks -> Work]
  <2> DEFINE w == [work[c] EXCEPT !.at = "profile", !.id = walletKey, !.data = relayData]
  <2>1. work[c] \in Work
    OBVIOUS
  <2>2. w \in Work
    BY <1>1, <2>1 DEF Work
  <2>3. work' = [work EXCEPT ![c] = w]
    BY DEF Publishing
  <2> HIDE DEF w
  <2> QED
    BY <2>2, <2>3
<1>3. /\ /\ work'[c].at = "profile" /\ work'[c].id = walletKey
         /\ work'[c].data = relayData
      /\ \A d \in Clicks \ {c} : work'[d] = work[d]
  BY <1>1 DEF Work, Publishing
<1> QED
  BY <1>2, <1>3

\* It tries to pay once more.
LEMMA RetryWork ==
    ASSUME work \in [Clicks -> Work], NEW c \in Clicks,
           work' = [work EXCEPT ![c].tries = @ - 1]
    PROVE  /\ work' \in [Clicks -> Work]
           /\ work'[c].at = work[c].at /\ work'[c].id = work[c].id
           /\ \A d \in Clicks \ {c} : work'[d] = work[d]
<1> DEFINE n == work[c].tries - 1
<1>1. n \in Int /\ work' = [work EXCEPT ![c].tries = n]
  BY DEF Work
<1> HIDE DEF n
<1>2. work' \in [Clicks -> Work]
  BY <1>1 DEF Work
<1> QED
  BY <1>1, <1>2 DEF Work

-----------------------------------------------------------------------------
(* The second step. *)

\* The picture arrives.
LEMMA AvatarInv ==
    ASSUME SetupInv, AvatarLoaded
    PROVE  SetupInv'
<1> USE DEF SetupInv, serverVars, seenVars, AvatarLoaded
<1>1. SetupTypeOK' /\ Progress'
  BY DEF SetupTypeOK, Progress, UnderWay, Closing
<1>2. SeedInv' = SeedInv /\ PublishInv' = PublishInv
  BY DEF SeedInv, PublishInv, UnderWay, Opening, Closing
<1> QED
  BY <1>1, <1>2

\* newWallet: from here on all work is for this seed, or mixed.
LEMMA NewWalletInv ==
    ASSUME SetupInv, NEW c \in Clicks, newWallet(c)
    PROVE  SetupInv'
<1> USE SetupAssumption DEF SetupInv
<1>1. wizard.seed \in Seeds /\ wizard.seed \in Ids /\ ~ready
  BY DEF Progress, Ids, newWallet, Starts
<1>2. /\ work' = [work EXCEPT ![c] = Job("worker", wizard.seed, "default", 0)]
      /\ "worker" \in Stages /\ "default" \in Urls /\ 0 \in Int
      /\ work \in [Clicks -> Work]
  BY DEF SetupTypeOK, newWallet, Starts, Stages, Urls
<1>3. /\ wizard.step = 2 /\ begun' \in Nat
      /\ wizard' = [wizard EXCEPT !.used = wizard.seed]
      /\ saved' = [saved EXCEPT !.key = nothing, !.phrase = wizard.seed]
      /\ mixed' = (mixed \/ \E d \in Clicks : UnderWay(d) /\ work[d].id # wizard.seed)
      /\ early' = (early \/ \E d \in Clicks : Closing(d))
      /\ UNCHANGED <<avatar, relayUrl, relayData, walletKey, token, ready,
                     heals, registered, profiles, published, ends>>
  BY DEF newWallet, Starts, serverVars, SetupTypeOK
<1>4. /\ work' \in [Clicks -> Work]
      /\ work'[c].at = "worker" /\ work'[c].id = wizard.seed
      /\ \A d \in Clicks \ {c} : work'[d] = work[d]
  BY <1>1, <1>2, StartsWork, Zenon
<1>5. /\ wizard' \in Wizard /\ wizard'.used = wizard.seed /\ wizard'.step = 2
      /\ wizard'.valid = wizard.valid /\ wizard'.seed = wizard.seed
  BY <1>1, <1>3 DEF SetupTypeOK, Wizard
<1>6. /\ saved' \in [phrase : Seeds, key : Ids, profile : Profile \cup {nothing}]
      /\ saved'.phrase = wizard.seed /\ saved'.key = nothing
      /\ saved'.profile = saved.profile
  BY <1>1, <1>3 DEF SetupTypeOK, Ids
<1>7. SetupTypeOK'
  BY <1>4, <1>5, <1>6, <1>3 DEF SetupTypeOK
<1>8. Progress'
  BY <1>1, <1>4, <1>5, <1>6, <1>3 DEF Progress, UnderWay, Closing
<1>9. ~mixed' => SeedInv'
  <2> SUFFICES ASSUME ~mixed' PROVE SeedInv'
    OBVIOUS
  <2>1. \A d \in Clicks : UnderWay(d) => work[d].id = wizard.seed
    BY <1>3
  <2>2. SeedInv
    BY <1>3 DEF SetupTypeOK
  <2> QED
    BY <1>1, <1>4, <1>5, <1>6, <1>3, <2>1, <2>2 DEF SeedInv, UnderWay
<1>10. ~mixed' /\ ~early' => PublishInv'
  <2> SUFFICES ASSUME ~mixed', ~early' PROVE PublishInv'
    OBVIOUS
  <2>1. PublishInv /\ ~early /\ saved.profile = nothing /\ heals = {}
    BY <1>1, <1>3 DEF SetupTypeOK, PublishInv, Progress
  <2>2. Opening(c)' /\ \A d \in Clicks : ~Closing(d) /\ ~Closing(d)'
    BY <1>4, <1>3 DEF SetupTypeOK, Opening, Closing
  <2>3. \A d \in Clicks : work'[d].at \in {"paying", "profile"} => work'[d] = work[d]
    BY <1>4
  <2> QED
    BY <1>1, <1>6, <1>3, <2>1, <2>2, <2>3 DEF PublishInv, Belongs
<1> QED
  BY <1>7, <1>8, <1>9, <1>10

\* The worker's key is that of the phrase.
LEMMA WorkerInv ==
    ASSUME SetupInv, NEW c \in Clicks, WorkerAnswers(c)
    PROVE  SetupInv'
<1> USE SetupAssumption DEF SetupInv, serverVars, seenVars, WorkerAnswers
<1>1. work[c].id \in Seeds /\ wizard.used \in Seeds
  BY DEF Progress, UnderWay
<1>2. /\ work' \in [Clicks -> Work]
      /\ work'[c].at = "lookup" /\ work'[c].id = work[c].id
      /\ \A d \in Clicks \ {c} : work'[d] = work[d]
  BY GoesWork DEF SetupTypeOK, Stages
<1>3. /\ saved' \in [phrase : Seeds, key : Ids, profile : Profile \cup {nothing}]
      /\ saved'.phrase = saved.phrase /\ saved'.key = work[c].id
      /\ saved'.profile = saved.profile
  BY <1>1 DEF SetupTypeOK, Ids
<1>4. SetupTypeOK'
  BY <1>1, <1>2, <1>3 DEF SetupTypeOK, Ids
<1>5. Progress'
  BY <1>1, <1>2, <1>3 DEF Progress, UnderWay, Closing
<1>6. ~mixed' => SeedInv'
  BY <1>1, <1>2, <1>3 DEF SeedInv, UnderWay
<1>7. ~mixed' /\ ~early' => PublishInv'
  <2>1. saved.profile # nothing /\ ~mixed /\ ~early => FALSE
    BY DEF PublishInv, Opening
  <2>2. heals # {} => ready
    BY DEF Progress
  <2> QED
    BY <1>2, <1>3, <2>1, <2>2 DEF PublishInv, Opening, Closing
<1> QED
  BY <1>4, <1>5, <1>6, <1>7

\* The registry's answer; the page may move on.
LEMMA LookupInv ==
    ASSUME SetupInv, NEW c \in Clicks, NEW ok \in BOOLEAN, LookupAnswered(c, ok)
    PROVE  SetupInv'
<1> USE SetupAssumption DEF SetupInv, serverVars, seenVars, LookupAnswered, getRelayUrl
<1>1. /\ walletKey \in Seeds /\ work[c].id \in Seeds /\ wizard.used \in Seeds
      /\ relayUrl' \in Urls
  BY DEF SetupTypeOK, Progress, UnderWay, Urls
<1>2. /\ wizard' \in Wizard /\ wizard'.valid = wizard.valid
      /\ wizard'.seed = wizard.seed /\ wizard'.used = wizard.used
  BY NextStepPage DEF SetupTypeOK
<1>3. "relay" \in Stages
  BY DEF Stages
<1>4. work' \in [Clicks -> Work]
  <2>1. work \in [Clicks -> Work] /\ work' = [work EXCEPT ![c].at = "relay", ![c].url = relayUrl']
    BY DEF SetupTypeOK
  <2> HIDE DEF LookupAnswered, SetupInv
  <2> QED
    BY <1>1, <1>3, <2>1 DEF Work
<1>5. /\ work'[c].at = "relay" /\ work'[c].id = work[c].id
      /\ \A d \in Clicks \ {c} : work'[d] = work[d]
  BY DEF SetupTypeOK, Work
<1>6. SetupTypeOK'
  BY <1>1, <1>2, <1>4 DEF SetupTypeOK
<1>7. Progress'
  BY <1>1, <1>2, <1>5 DEF Progress, UnderWay, Closing
<1>8. ~mixed' => SeedInv'
  BY <1>2, <1>5 DEF SeedInv, UnderWay
<1>9. ~mixed' /\ ~early' => PublishInv'
  BY <1>5 DEF PublishInv, Opening, Closing
<1> QED
  BY <1>6, <1>7, <1>8, <1>9

\* The relay's answer: the profile at hand belongs to the key.
LEMMA RelayInv ==
    ASSUME SetupInv, NEW c \in Clicks, NEW ok \in BOOLEAN, RelayAnswered(c, ok)
    PROVE  SetupInv'
<1> USE SetupAssumption DEF SetupInv, serverVars, seenVars, RelayAnswered, getRelayData
<1>1. /\ walletKey \in Seeds /\ work[c].id \in Seeds /\ wizard.used \in Seeds
      /\ work[c].url \in Urls
  BY DEF SetupTypeOK, Progress, UnderWay, Work
<1>2. /\ wizard' \in Wizard /\ wizard'.valid = wizard.valid
      /\ wizard'.seed = wizard.seed /\ wizard'.used = wizard.used
  BY NextStepPage DEF SetupTypeOK
<1>3. /\ relayData' \in Profile
      /\ \/ relayData'.of = "own"
         \/ /\ profiles[work[c].url][work[c].id] # nothing
            /\ relayData' = profiles[work[c].url][work[c].id].profile
  <2> DEFINE found == getRelayData(work[c].url, work[c].id)
  <2>1. avatar \in BOOLEAN
    BY DEF SetupTypeOK
  <2>2. profiles[work[c].url][work[c].id] \in KeptProfile \cup {nothing}
    BY <1>1 DEF SetupTypeOK
  <2>3. CASE ok /\ found # nothing
    <3>1. relayData' = found
      BY <2>3
    <3>2. /\ profiles[work[c].url][work[c].id] # nothing
          /\ found = profiles[work[c].url][work[c].id].profile
      BY <2>3
    <3> QED
      BY <2>2, <3>1, <3>2 DEF KeptProfile
  <2>4. CASE ~(ok /\ found # nothing)
    <3> DEFINE own == [of |-> "own", picture |-> avatar]
    <3>1. relayData' = own
      BY <2>4
    <3>2. own \in Profile /\ own.of = "own"
      BY <2>1 DEF Profile
    <3> HIDE DEF own
    <3> QED
      BY <3>1, <3>2
  <2> QED
    BY <2>3, <2>4
<1>4. /\ work' \in [Clicks -> Work]
      /\ work'[c].at = "none"
      /\ \A d \in Clicks \ {c} : work'[d] = work[d]
  BY OverWork DEF SetupTypeOK
<1>5. SetupTypeOK'
  BY <1>2, <1>3, <1>4 DEF SetupTypeOK
<1>6. Progress'
  BY <1>1, <1>2, <1>3, <1>4 DEF Progress, UnderWay, Closing
<1>7. ~mixed' => SeedInv'
  BY <1>2, <1>4 DEF SeedInv, UnderWay
<1>8. ~mixed' /\ ~early' => PublishInv'
  <2> SUFFICES ASSUME ~mixed, ~early PROVE PublishInv'
    OBVIOUS
  <2>1. work[c].id = walletKey
    BY DEF SeedInv, UnderWay
  <2>2. Belongs(relayData', walletKey)
    BY <1>1, <1>3, <2>1 DEF PublishInv, Belongs
  <2>3. \A d \in Clicks : /\ Opening(d)' => Opening(d)
                          /\ Closing(d)' => Closing(d)
                          /\ work'[d].at # "none" => work'[d] = work[d]
    BY <1>4 DEF Opening, Closing
  <2> QED
    BY <2>2, <2>3 DEF PublishInv, Belongs
<1> QED
  BY <1>5, <1>6, <1>7, <1>8

-----------------------------------------------------------------------------
(* The last step. *)

\* It begins with the key and the relay of that moment.
LEMMA SettingsInv ==
    ASSUME SetupInv, NEW c \in Clicks, setupSettings(c)
    PROVE  SetupInv'
<1> USE SetupAssumption DEF SetupInv
<1>1. /\ walletKey \in Seeds /\ walletKey \in Ids /\ wizard.used \in Seeds
      /\ relayData \in Profile /\ ~ready /\ ~UnderWay(c)
  BY DEF SetupTypeOK, Progress, Ids, setupSettings, Starts, forwardEnabled
<1>2. /\ work' = [work EXCEPT ![c] = Job("metadata", walletKey, relayUrl, 3)]
      /\ "metadata" \in Stages /\ relayUrl \in Urls /\ 3 \in Int
      /\ work \in [Clicks -> Work]
  BY DEF SetupTypeOK, setupSettings, Starts, Stages
<1>3. /\ wizard.step = 3 /\ begun' \in Nat
      /\ early' = (early \/ \E d \in Clicks : Opening(d))
      /\ UNCHANGED <<wizard, avatar, relayUrl, relayData, saved, walletKey, token, ready,
                     heals, registered, profiles, published, ends, mixed>>
  BY DEF setupSettings, Starts, serverVars, SetupTypeOK
<1>4. /\ work' \in [Clicks -> Work]
      /\ work'[c].at = "metadata" /\ work'[c].id = walletKey
      /\ \A d \in Clicks \ {c} : work'[d] = work[d]
  BY <1>1, <1>2, StartsWork, Zenon
<1>5. SetupTypeOK'
  BY <1>4, <1>3 DEF SetupTypeOK
<1>6. Progress'
  BY <1>1, <1>4, <1>3 DEF Progress, UnderWay, Closing
<1>7. ~mixed' => SeedInv'
  BY <1>1, <1>4, <1>3 DEF SeedInv, UnderWay
<1>8. ~mixed' /\ ~early' => PublishInv'
  <2> SUFFICES ASSUME ~mixed, ~early' PROVE PublishInv'
    BY <1>3
  <2>1. ~early /\ \A d \in Clicks : ~Opening(d) /\ ~Opening(d)'
    BY <1>4, <1>3 DEF SetupTypeOK, Opening
  <2>2. \A d \in Clicks : work'[d].at \in {"paying", "profile"} => work'[d] = work[d]
    BY <1>4
  <2> QED
    BY <1>3, <2>1, <2>2 DEF PublishInv, Belongs
<1> QED
  BY <1>5, <1>6, <1>7, <1>8

\* The registry answers: what is published next was registered.
LEMMA MetadataInv ==
    ASSUME SetupInv, NEW c \in Clicks, NEW stored \in BOOLEAN, NEW ok \in BOOLEAN,
           MetadataAnswered(c, stored, ok)
    PROVE  SetupInv'
<1> USE SetupAssumption DEF SetupInv, serverVars, seenVars, MetadataAnswered
<1>1. /\ walletKey \in Seeds /\ work[c].id \in Seeds /\ wizard.used \in Seeds
      /\ relayData \in Profile /\ work[c].url \in Urls
  BY DEF SetupTypeOK, Progress, UnderWay, Closing, Work
<1>2. /\ registered' \in [Seeds -> Urls \cup {nothing}]
      /\ published' \in [key : SUBSET Seeds, profile : SUBSET Seeds]
      /\ published'.profile = published.profile
      /\ published.key \subseteq published'.key
      /\ stored => work[c].id \in published'.key
  BY <1>1 DEF SetupTypeOK, Registers
<1>3. /\ work' \in [Clicks -> Work]
      /\ \A d \in Clicks \ {c} : work'[d] = work[d]
      /\ \/ work'[c].at = "none"
         \/ work'[c].at = "paying" /\ work'[c].id = work[c].id /\ stored
         \/ /\ work'[c].at = "profile" /\ work'[c].id = walletKey
            /\ work'[c].data = relayData /\ stored
  <2>1. CASE ~ok
    BY <2>1, OverWork DEF SetupTypeOK
  <2>2. CASE ok /\ relayUrl = "default"
    BY <1>1, <2>2, PublishingWork DEF SetupTypeOK
  <2>3. CASE ok /\ relayUrl # "default"
    <3>1. Goes(c, "paying") /\ "paying" \in Stages
      BY <2>3 DEF Stages
    <3> QED
      BY <2>3, <3>1, GoesWork DEF SetupTypeOK
  <2> QED
    BY <2>1, <2>2, <2>3
<1>4. token' \in {"local", "paid", nothing}
  BY DEF SetupTypeOK
<1>5. SetupTypeOK'
  BY <1>2, <1>3, <1>4 DEF SetupTypeOK
<1>6. Progress'
  BY <1>1, <1>3 DEF Progress, UnderWay, Closing
<1>7. ~mixed' => SeedInv'
  BY <1>1, <1>3 DEF SeedInv, UnderWay
<1>8. ~mixed' /\ ~early' => PublishInv'
  <2> SUFFICES ASSUME ~mixed, ~early PROVE PublishInv'
    OBVIOUS
  <2>1. \A d \in Clicks : ~Opening(d) /\ ~Opening(d)'
    BY <1>3 DEF PublishInv, Opening, Closing
  <2>2. work[c].id = walletKey
    BY DEF SeedInv, UnderWay
  <2>3. Belongs(relayData, walletKey)
    BY <1>1, <2>1, NothingAssumption DEF PublishInv
  <2> QED
    BY <1>1, <1>2, <1>3, <2>1, <2>2, <2>3 DEF PublishInv, Belongs
<1> QED
  BY <1>5, <1>6, <1>7, <1>8

\* The relay's payment URL answers.
LEMMA PaymentInv ==
    ASSUME SetupInv, NEW c \in Clicks, NEW how \in {"token", "failed", "insufficient funds"},
           PaymentAnswered(c, how)
    PROVE  SetupInv'
<1> USE SetupAssumption DEF SetupInv, serverVars, seenVars
<1>1. /\ walletKey \in Seeds /\ work[c].id \in Seeds /\ wizard.used \in Seeds
      /\ relayData \in Profile /\ work[c].at = "paying"
  BY DEF SetupTypeOK, Progress, UnderWay, Closing, PaymentAnswered
<1>2. /\ work' \in [Clicks -> Work]
      /\ \A d \in Clicks \ {c} : work'[d] = work[d]
      /\ \/ work'[c].at = "none"
         \/ work'[c].at = "paying" /\ work'[c].id = work[c].id
         \/ /\ work'[c].at = "profile" /\ work'[c].id = walletKey
            /\ work'[c].data = relayData
  <2>1. CASE Publishing(c)
    BY <1>1, <2>1, PublishingWork DEF SetupTypeOK
  <2>2. CASE Over(c)
    BY <2>2, OverWork DEF SetupTypeOK
  <2>3. CASE work' = [work EXCEPT ![c].tries = @ - 1]
    BY <1>1, <2>3, RetryWork DEF SetupTypeOK
  <2> QED
    BY <2>1, <2>2, <2>3 DEF PaymentAnswered
<1>3. token' \in {"local", "paid", nothing}
  BY DEF SetupTypeOK, PaymentAnswered
<1>4. UNCHANGED <<wizard, avatar, relayUrl, relayData, saved, walletKey, ready, heals,
                  registered, profiles, published, begun, ends, mixed, early>>
  BY DEF PaymentAnswered
<1>5. SetupTypeOK'
  BY <1>2, <1>3, <1>4 DEF SetupTypeOK
<1>6. Progress'
  BY <1>1, <1>2, <1>4 DEF Progress, UnderWay, Closing
<1>7. ~mixed' => SeedInv'
  BY <1>1, <1>2, <1>4 DEF SeedInv, UnderWay
<1>8. ~mixed' /\ ~early' => PublishInv'
  <2> SUFFICES ASSUME ~mixed, ~early PROVE PublishInv'
    BY <1>4
  <2>1. \A d \in Clicks : ~Opening(d) /\ ~Opening(d)'
    BY <1>1, <1>2 DEF PublishInv, Opening, Closing
  <2>2. work[c].id = walletKey /\ work[c].id \in published.key
    BY <1>1 DEF SeedInv, UnderWay, PublishInv
  <2>3. Belongs(relayData, walletKey)
    BY <1>1, <2>1, NothingAssumption DEF PublishInv
  <2> QED
    BY <1>1, <1>2, <1>4, <2>1, <2>2, <2>3 DEF PublishInv, Belongs
<1> QED
  BY <1>5, <1>6, <1>7, <1>8

\* A profile that a relay is given for an identity it belongs to.
LEMMA PublishesKeeps ==
    ASSUME SetupTypeOK, NEW id \in Seeds, NEW data \in Profile, NEW stored \in BOOLEAN,
           Publishes(id, data, stored)
    PROVE  /\ profiles' \in [Urls -> [Seeds -> KeptProfile \cup {nothing}]]
           /\ \A u \in Urls, s \in Seeds :
                 profiles'[u][s] # profiles[u][s]
                     => s = id /\ profiles'[u][s].profile = data
           /\ published' \in [key : SUBSET Seeds, profile : SUBSET Seeds]
           /\ published'.key = published.key
           /\ published.profile \subseteq published'.profile
           /\ stored => id \in published'.profile
<1> DEFINE kept == constructProfileMetadata(data, id)
<1>1. kept \in KeptProfile /\ kept.profile = data /\ "default" \in Urls
  BY DEF KeptProfile, constructProfileMetadata, Urls
<1>2. profiles' = IF stored THEN [profiles EXCEPT !["default"][id] = kept] ELSE profiles
  BY DEF Publishes
<1> HIDE DEF kept
<1>3. /\ profiles' \in [Urls -> [Seeds -> KeptProfile \cup {nothing}]]
      /\ \A u \in Urls, s \in Seeds :
            profiles'[u][s] # profiles[u][s] => s = id /\ profiles'[u][s].profile = data
  BY <1>1, <1>2 DEF SetupTypeOK
<1> QED
  BY <1>3 DEF SetupTypeOK, Publishes

\* The relay answers the profile: it is kept with its own, published key.
LEMMA ProfileInv ==
    ASSUME SetupInv, NEW c \in Clicks, NEW stored \in BOOLEAN, NEW ok \in BOOLEAN,
           ProfileAnswered(c, stored, ok)
    PROVE  SetupInv'
<1> USE SetupAssumption DEF SetupInv, serverVars, seenVars, ProfileAnswered
<1>1. /\ walletKey \in Seeds /\ work[c].id \in Seeds /\ wizard.used \in Seeds
      /\ relayData \in Profile /\ work[c].data \in Profile
  BY DEF SetupTypeOK, Progress, UnderWay, Closing
<1>2. /\ profiles' \in [Urls -> [Seeds -> KeptProfile \cup {nothing}]]
      /\ \A u \in Urls, s \in Seeds :
            profiles'[u][s] # profiles[u][s]
                => s = work[c].id /\ profiles'[u][s].profile = work[c].data
      /\ published' \in [key : SUBSET Seeds, profile : SUBSET Seeds]
      /\ published'.key = published.key
      /\ published.profile \subseteq published'.profile
      /\ stored => work[c].id \in published'.profile
  BY <1>1, PublishesKeeps
<1>3. /\ work' \in [Clicks -> Work]
      /\ work'[c].at = "none"
      /\ \A d \in Clicks \ {c} : work'[d] = work[d]
  BY OverWork DEF SetupTypeOK
<1>4. /\ saved' \in [phrase : Seeds, key : Ids, profile : Profile \cup {nothing}]
      /\ saved'.key = saved.key
      /\ ok => saved'.phrase = wizard.used /\ saved'.profile = relayData /\ stored
      /\ ~ok => saved' = saved
  BY <1>1 DEF SetupTypeOK, putProfile
<1>5. /\ ready' = (ready \/ ok)
      /\ heals' \in SUBSET [what : {"key", "profile"}, id : Seeds, at : {"get", "put"}]
      /\ \A h \in heals' : h \in heals \/ h.id = walletKey
      /\ heals' # {} => ready'
  <2> DEFINE new == [what : {"key", "profile"}, id : {walletKey}, at : {"get"}]
  <2>1. /\ new \subseteq [what : {"key", "profile"}, id : Seeds, at : {"get", "put"}]
        /\ \A h \in new : h.id = walletKey
    BY <1>1
  <2>2. /\ heals \in SUBSET [what : {"key", "profile"}, id : Seeds, at : {"get", "put"}]
        /\ heals # {} => ready
        /\ ready \in BOOLEAN
    BY DEF SetupTypeOK, Progress
  <2>3. IF ok /\ ~ready THEN ready' = TRUE /\ heals' = new ELSE UNCHANGED <<ready, heals>>
    BY DEF Connected
  <2> HIDE DEF new, SetupInv, ProfileAnswered
  <2> QED
    BY <2>1, <2>2, <2>3
<1>6. SetupTypeOK'
  BY <1>2, <1>3, <1>4, <1>5 DEF SetupTypeOK
<1>7. Progress'
  BY <1>1, <1>3, <1>4, <1>5 DEF Progress, UnderWay, Closing
<1>8. ~mixed' => SeedInv'
  BY <1>1, <1>3, <1>4 DEF SeedInv, UnderWay
<1>9. ~mixed' /\ ~early' => PublishInv'
  <2> SUFFICES ASSUME ~mixed, ~early PROVE PublishInv'
    OBVIOUS
  <2>1. \A d \in Clicks : ~Opening(d) /\ ~Opening(d)'
    BY <1>3 DEF PublishInv, Opening, Closing
  <2>2. work[c].id = walletKey /\ work[c].id \in published.key
    BY DEF SeedInv, UnderWay, PublishInv
  <2>3. saved.key = walletKey
    BY <1>1, <2>1 DEF Progress, Opening
  <2>4. Belongs(relayData, walletKey) /\ Belongs(work[c].data, work[c].id)
    BY <1>1, <2>1, NothingAssumption DEF PublishInv
  <2>5. saved'.profile # nothing => /\ ready'
                                    /\ saved'.key \in published'.key \cap published'.profile
                                    /\ Belongs(saved'.profile, saved'.key)
    BY <1>2, <1>4, <1>5, <2>2, <2>3, <2>4 DEF PublishInv
  <2>6. \A d \in Clicks : work'[d].at # "none" => work'[d] = work[d]
    BY <1>3
  <2>7. \A u \in Urls, s \in Seeds :
          profiles'[u][s] # nothing => Belongs(profiles'[u][s].profile, s)
    BY <1>2, <2>4 DEF PublishInv
  <2>8. \A h \in heals' : h.id = saved'.key
    BY <1>4, <1>5, <2>3 DEF PublishInv
  <2>9. relayData' # nothing => Belongs(relayData', walletKey')
    BY <2>4
  <2> QED
    BY <1>2, <2>1, <2>5, <2>6, <2>7, <2>8, <2>9 DEF PublishInv, Belongs
<1> QED
  BY <1>6, <1>7, <1>8, <1>9

-----------------------------------------------------------------------------
(* The client that is set up, and its ends. *)

\* setupConnections looks for what is published ...
LEMMA HealGetInv ==
    ASSUME SetupInv, NEW h \in heals, NEW ok \in BOOLEAN, HealGet(h, ok)
    PROVE  SetupInv'
<1> USE DEF SetupInv, serverVars, seenVars, HealGet
<1>1. /\ heals' \in SUBSET [what : {"key", "profile"}, id : Seeds, at : {"get", "put"}]
      /\ \A g \in heals' : \E f \in heals : g.id = f.id
  <2>1. /\ h \in [what : {"key", "profile"}, id : Seeds, at : {"get", "put"}]
        /\ [h EXCEPT !.at = "put"] \in [what : {"key", "profile"}, id : Seeds,
                                         at : {"get", "put"}]
        /\ [h EXCEPT !.at = "put"].id = h.id
    BY DEF SetupTypeOK
  <2> QED
    BY <2>1 DEF SetupTypeOK
<1>2. SetupTypeOK'
  BY <1>1 DEF SetupTypeOK
<1>3. Progress'
  BY <1>1 DEF Progress, UnderWay, Closing
<1>4. ~mixed' => SeedInv'
  BY DEF SeedInv, UnderWay
<1>5. ~mixed' /\ ~early' => PublishInv'
  BY <1>1 DEF PublishInv, Opening, Closing
<1> QED
  BY <1>2, <1>3, <1>4, <1>5

\* ... and publishes it again.
LEMMA HealPutInv ==
    ASSUME SetupInv, NEW h \in heals, NEW stored \in BOOLEAN, HealPut(h, stored)
    PROVE  SetupInv'
<1> USE DEF SetupInv, serverVars, seenVars, HealPut
<1>1. h.id \in Seeds /\ saved.profile \in Profile /\ "default" \in Urls
  BY DEF SetupTypeOK, Progress, Urls
<1>2. /\ registered' \in [Seeds -> Urls \cup {nothing}]
      /\ profiles' \in [Urls -> [Seeds -> KeptProfile \cup {nothing}]]
      /\ \A u \in Urls, s \in Seeds :
            profiles'[u][s] # profiles[u][s]
                => s = h.id /\ profiles'[u][s].profile = saved.profile
      /\ published' \in [key : SUBSET Seeds, profile : SUBSET Seeds]
      /\ published.key \subseteq published'.key
      /\ published.profile \subseteq published'.profile
  <2>1. CASE h.what = "key"
    BY <1>1, <2>1 DEF SetupTypeOK, Registers
  <2>2. CASE h.what # "key"
    <3> DEFINE taken == stored /\ isAuthorized
    <3>1. taken \in BOOLEAN /\ Publishes(h.id, saved.profile, taken) /\ UNCHANGED registered
      BY <2>2 DEF isAuthorized
    <3> HIDE DEF taken
    <3>2. SetupTypeOK
      OBVIOUS
    <3> HIDE DEF SetupInv, HealPut
    <3>3. /\ profiles' \in [Urls -> [Seeds -> KeptProfile \cup {nothing}]]
          /\ \A u \in Urls, s \in Seeds :
                profiles'[u][s] # profiles[u][s]
                    => s = h.id /\ profiles'[u][s].profile = saved.profile
          /\ published' \in [key : SUBSET Seeds, profile : SUBSET Seeds]
          /\ published'.key = published.key
          /\ published.profile \subseteq published'.profile
      BY <1>1, <3>1, <3>2, PublishesKeeps
    <3> QED
      BY <3>1, <3>2, <3>3 DEF SetupTypeOK
  <2> QED
    BY <2>1, <2>2
<1>3. SetupTypeOK'
  BY <1>2 DEF SetupTypeOK
<1>4. Progress'
  BY DEF Progress, UnderWay, Closing
<1>5. ~mixed' => SeedInv'
  BY DEF SeedInv, UnderWay
<1>6. ~mixed' /\ ~early' => PublishInv'
  <2> SUFFICES ASSUME ~mixed, ~early PROVE PublishInv'
    OBVIOUS
  <2>1. h.id = saved.key /\ Belongs(saved.profile, h.id)
    BY <1>1, NothingAssumption DEF PublishInv
  <2>2. \A u \in Urls, s \in Seeds :
          profiles'[u][s] # nothing => Belongs(profiles'[u][s].profile, s)
    BY <1>2, <2>1 DEF PublishInv
  <2>3. \A d \in Clicks : Opening(d)' = Opening(d) /\ Closing(d)' = Closing(d)
    BY DEF Opening, Closing
  <2> QED
    BY <1>2, <2>2, <2>3 DEF PublishInv
<1> QED
  BY <1>3, <1>4, <1>5, <1>6

\* The client ends and starts.
LEMMA BootInv ==
    ASSUME SetupInv, Boot
    PROVE  SetupInv'
<1> USE SetupAssumption DEF SetupInv, serverVars, seenVars, Boot
<1>1. /\ wizard' \in Wizard /\ wizard'.step = 1 /\ ~wizard'.valid
      /\ wizard'.used = nothing
  BY DEF SetupTypeOK, NewPages, Wizard, Ids
<1>2. work' \in [Clicks -> Work] /\ \A d \in Clicks : work'[d].at = "none"
  <2>1. NoWork \in Work /\ NoWork.at = "none"
    BY DEF NoWork, Job, Work, Stages, Ids, Urls
  <2> QED
    BY <2>1
<1>3. /\ walletKey' \in {nothing, saved.key} /\ token' \in {nothing, "local"}
      /\ ready' = (saved.key # nothing /\ saved.profile # nothing)
      /\ heals' \in SUBSET [what : {"key", "profile"}, id : Seeds, at : {"get", "put"}]
      /\ \A h \in heals' : h.id = saved.key
      /\ heals' # {} => ready'
  <2> DEFINE new == [what : {"key", "profile"}, id : {saved.key}, at : {"get"}]
  <2>1. saved.key # nothing => new \subseteq [what : {"key", "profile"}, id : Seeds, at : {"get", "put"}]
    BY DEF SetupTypeOK, Ids
  <2>2. \A h \in new : h.id = saved.key
    OBVIOUS
  <2>3. IF saved.key # nothing /\ saved.profile # nothing
        THEN walletKey' = saved.key /\ token' = "local" /\ ready' = TRUE /\ heals' = new
        ELSE walletKey' = nothing /\ token' = nothing /\ ready' = FALSE /\ heals' = {}
    BY DEF Connected
  <2> HIDE DEF new, SetupInv, Boot
  <2> QED
    BY <2>1, <2>2, <2>3
<1>4. SetupTypeOK'
  <2>0. ends \in Nat /\ ends' = ends + 1
    BY DEF SetupTypeOK
  <2>1. ends' \in Nat
    BY <2>0
  <2>5. avatar' \in BOOLEAN /\ relayUrl' \in Urls /\ relayData' = nothing
    BY DEF Urls
  <2>2. walletKey' \in Ids /\ ready' \in BOOLEAN
    BY <1>3 DEF SetupTypeOK, Ids
  <2>3. UNCHANGED <<saved, begun, registered, profiles, published, mixed, early>>
    OBVIOUS
  <2>4. SetupTypeOK
    OBVIOUS
  <2> HIDE DEF SetupInv, Boot
  <2> QED
    BY <1>1, <1>2, <1>3, <2>1, <2>2, <2>3, <2>4, <2>5 DEF SetupTypeOK
<1>5. Progress'
  BY <1>1, <1>2, <1>3 DEF SetupTypeOK, Progress, UnderWay, Closing
<1>6. ~mixed' => SeedInv'
  BY <1>1, <1>2 DEF SeedInv, UnderWay
<1>7. ~mixed' /\ ~early' => PublishInv'
  <2> SUFFICES ASSUME ~mixed, ~early PROVE PublishInv'
    OBVIOUS
  <2>1. \A d \in Clicks : ~Opening(d)' /\ ~Closing(d)'
    BY <1>2 DEF Opening, Closing
  <2>2. saved.profile # nothing => /\ ready'
                                   /\ saved.key \in published.key \cap published.profile
                                   /\ Belongs(saved.profile, saved.key)
    BY <1>3 DEF SetupTypeOK, PublishInv
  <2>3. \A u \in Urls, s \in Seeds :
          profiles[u][s] # nothing => Belongs(profiles[u][s].profile, s)
    BY DEF PublishInv
  <2> QED
    BY <1>2, <1>3, <2>1, <2>2, <2>3 DEF PublishInv, Belongs
<1> QED
  BY <1>4, <1>5, <1>6, <1>7

\* The local services start with empty tables.
LEMMA ServicesInv ==
    ASSUME SetupInv, ServicesRestart
    PROVE  SetupInv'
<1> USE DEF SetupInv, serverVars, seenVars, ServicesRestart
<1>1. /\ profiles' \in [Urls -> [Seeds -> KeptProfile \cup {nothing}]]
      /\ \A u \in Urls, s \in Seeds : profiles'[u][s] \in {nothing, profiles[u][s]}
  BY DEF SetupTypeOK
<1>2. SetupTypeOK' /\ Progress'
  BY <1>1 DEF SetupTypeOK, Progress, UnderWay, Closing
<1>3. ~mixed' => SeedInv'
  BY DEF SeedInv, UnderWay
<1>4. ~mixed' /\ ~early' => PublishInv'
  BY <1>1 DEF PublishInv, Opening, Closing
<1> QED
  BY <1>2, <1>3, <1>4

\* Every step of the set-up keeps the invariant.
LEMMA SetupStepInv == SetupInv /\ [SetupNext]_setupVars => SetupInv'
<1> SUFFICES ASSUME SetupInv, [SetupNext]_setupVars PROVE SetupInv'
  OBVIOUS
<1>1. CASE UNCHANGED setupVars
  <2> USE <1>1 DEF setupVars, serverVars, seenVars, SetupInv
  <2>1. SetupTypeOK' /\ Progress'
    BY DEF SetupTypeOK, Progress, UnderWay, Closing
  <2>2. SeedInv' = SeedInv /\ PublishInv' = PublishInv
    BY DEF SeedInv, PublishInv, UnderWay, Opening, Closing
  <2> QED
    BY <2>1, <2>2
<1> QED
  BY <1>1, PagesInv, AvatarInv, NewWalletInv, WorkerInv, LookupInv, RelayInv, SettingsInv,
     MetadataInv, PaymentInv, ProfileInv, HealGetInv, HealPutInv, BootInv, ServicesInv
     DEF SetupNext

\* The set-up invariant holds for any seeds, any number of clicks whose work
\* goes on at once and any number of ends of the client and the services.
THEOREM SetupInvariant == SetupSpec => []SetupInv
BY SetupInitInv, SetupStepInv, PTL DEF SetupSpec

\* The types of the set-up pages and of what they leave on disk.
THEOREM SetupTypeCorrect == SetupSpec => []SetupTypeOK
<1>1. SetupInv => SetupTypeOK
  BY DEF SetupInv
<1> QED
  BY <1>1, SetupInvariant, PTL

\* The phrase on disk is that of the key on disk and of the address shown on
\* the deposit page, wherever the client stops.
THEOREM PhraseTheorem == SetupSpec => []PhraseOfKey
<1>1. SetupInv => PhraseOfKey
  BY DEF SetupInv, SeedInv, PhraseOfKey
<1> QED
  BY <1>1, SetupInvariant, PTL

\* A client that starts as set up was registered and had a profile at the
\* relay, and the profile it keeps is its own.
THEOREM SetUpTheorem == SetupSpec => []SetUpIsPublished
<1>1. SetupInv => SetUpIsPublished
  BY DEF SetupInv, PublishInv, Belongs, SetUpIsPublished
<1> QED
  BY <1>1, SetupInvariant, PTL

-----------------------------------------------------------------------------
(* One message: what the keys and entries are. *)

-----------------------------------------------------------------------------
\* A shared secret is the same from both sides.
LEMMA MulSymmetric == ASSUME NEW p, NEW q PROVE Mul(p, q) = Mul(q, p)
<1>1. \A x, y : {x, y} = {y, x}
  OBVIOUS
<1> QED
  BY <1>1 DEF Mul

\* What Bundle makes of a payment in n transactions.
IsBundle(B, n, name, hd, at) ==
    /\ DOMAIN B = 1..n /\ Len(B) = n
    /\ \A i \in 1..n : B[i].id = <<name, i>>
    /\ \A i \in 1..n : B[i].vouts = <<at[i]>>
    /\ \A i \in 1..n : B[i].outs = [k \in {at[i]} |-> Outpoint(hd, i - 1, 0)]

\* Every transaction of a payment has one output of the payee, at the place and
\* to the key it was paid to.
LEMMA BundleShape ==
    ASSUME NEW n \in Nat, NEW at, at \in [1..n -> 0..1], NEW name, NEW hd
    PROVE  IsBundle(Bundle(name, hd, at), n, name, hd, at)
  BY DEF Bundle, IsBundle

-----------------------------------------------------------------------------
\* A payment whose transactions have one output of the payee each.
Ones(B) == \A i \in DOMAIN B : DOMAIN B[i].vouts = 1..1

\* The coins of such a payment.
Firsts(kind, hd, B) ==
    [i \in DOMAIN B |-> Coin(kind, B[i], 1, Outpoint(hd, i - 1, 0))]

\* The outputs of such a payment are one for each transaction, in their order.
LEMMA OutpointsFirsts ==
    ASSUME NEW n \in Nat, NEW B, DOMAIN B = 1..n, Ones(B), NEW kind, NEW hd
    PROVE  /\ Outpoints(kind, hd, B) = Firsts(kind, hd, B)
           /\ Firsts(kind, hd, B) \in Seq(ToSet(Firsts(kind, hd, B)))
           /\ DOMAIN Firsts(kind, hd, B) = 1..n
           /\ Len(Firsts(kind, hd, B)) = n
<1> DEFINE t == Firsts(kind, hd, B)
           T == ToSet(t)
           s == [i \in DOMAIN B |->
                    [j \in DOMAIN B[i].vouts |->
                        Coin(kind, B[i], j, Outpoint(hd, i - 1, j - 1))]]
<1>1. DOMAIN t = 1..n /\ t = [i \in 1..n |-> t[i]]
  BY DEF Firsts
<1>2. \A i \in 1..n : t[i] \in T
  BY <1>1 DEF ToSet
<1>3. \A i \in 1..n : t[i] = Coin(kind, B[i], 1, Outpoint(hd, i - 1, 0))
  BY DEF Firsts
<1> HIDE DEF t, T
<1>4. t \in Seq(T) /\ Len(t) = n
  BY <1>1, <1>2
<1>5. ASSUME NEW i \in 1..n PROVE s[i] = <<t[i]>>
  <2>1. DOMAIN B[i].vouts = 1..1 /\ 1 - 1 = 0 /\ 1 \in 1..1
    BY DEF Ones
  <2> DEFINE f == [j \in 1..1 |-> Coin(kind, B[i], j, Outpoint(hd, i - 1, j - 1))]
  <2>2. s[i] = f
    BY <2>1
  <2>3. f[1] = t[i]
    BY <1>3, <2>1
  <2>4. DOMAIN f = 1..1 /\ f = [j \in 1..1 |-> f[j]]
    OBVIOUS
  <2> HIDE DEF f
  <2> QED
    BY <2>2, <2>3, <2>4, OneTuple
<1>6. DOMAIN s = 1..n /\ s = [i \in 1..n |-> s[i]]
  OBVIOUS
<1>7. Outpoints(kind, hd, B) = FlattenSeq(s)
  BY DEF Outpoints
<1> HIDE DEF s
<1>8. FlattenSeq(s) = t
  BY <1>4, <1>5, <1>6, FlattenOnes
<1> QED
  BY <1>1, <1>4, <1>7, <1>8 DEF t, T

\* What the outputs of a stamp give: those of the derived addresses.
LEMMA StampOutpointsOf ==
    ASSUME NEW n \in Nat, NEW B, DOMAIN B = 1..n, Ones(B), NEW hd, NEW outbound \in BOOLEAN
    PROVE  LET all == Firsts("stamp", hd, B)
               got == StampOutpoints(hd, B, outbound)
           IN  /\ ToSet(got) \subseteq ToSet(all)
               /\ ~outbound => \A c \in ToSet(got) : c.addr = c.key
               /\ (outbound \/ \A i \in 1..n : all[i].addr = all[i].key) => got = all
<1> DEFINE all == Firsts("stamp", hd, B)
           at == {i \in DOMAIN all : outbound \/ all[i].addr = all[i].key}
<1>1. /\ Outpoints("stamp", hd, B) = all /\ all \in Seq(ToSet(all)) /\ DOMAIN all = 1..n
  BY OutpointsFirsts
<1>2. StampOutpoints(hd, B, outbound) = Picked(all, at)
  BY <1>1 DEF StampOutpoints
<1>3. at \subseteq DOMAIN all
  OBVIOUS
<1> HIDE DEF all, at
<1>4. ToSet(Picked(all, at)) = {all[i] : i \in at}
  BY <1>1, <1>3, PickedProperties
<1>5. {all[i] : i \in at} \subseteq ToSet(all)
  BY <1>3 DEF ToSet
<1>6. ~outbound => \A i \in at : all[i].addr = all[i].key
  BY DEF at
<1>7. (outbound \/ \A i \in 1..n : all[i].addr = all[i].key) => at = DOMAIN all
  BY <1>1 DEF at
<1>8. Picked(all, DOMAIN all) = all
  BY <1>1, PickedAll
<1> QED
  BY <1>2, <1>4, <1>5, <1>6, <1>7, <1>8 DEF all

\* A payment whose outputs go to the derived addresses is accepted as a whole.
LEMMA StealthOutpointsOf ==
    ASSUME NEW n \in Nat, NEW B, DOMAIN B = 1..n, Ones(B), NEW hd, NEW outbound \in BOOLEAN,
           outbound \/ \A i \in 1..n : B[i].outs[B[i].vouts[1]] = Outpoint(hd, i - 1, 0)
    PROVE  StealthOutpoints(hd, B, outbound) = Firsts("stealth", hd, B)
<1> DEFINE all == Firsts("stealth", hd, B)
<1>1. Outpoints("stealth", hd, B) = all /\ DOMAIN all = 1..n
  BY OutpointsFirsts
<1>2. \A i \in 1..n : ~(~outbound /\ all[i].addr # all[i].key)
  BY DEF Firsts, Coin
<1>3. {i \in DOMAIN all : ~outbound /\ all[i].addr # all[i].key} = {}
  BY <1>1, <1>2
<1> HIDE DEF all
<1> QED
  BY <1>1, <1>3 DEF StealthOutpoints, all

-----------------------------------------------------------------------------
(* What is sent, and what becomes of it. *)

\* What a user can send to the recipient, and to oneself.
Sendable(dst) ==
    IF dst = Bob
    THEN {<<"text", "hi">>, <<"reply", sha256(<<"earlier">>)>>, <<"image", "pixels">>}
         \cup {<<"stealth", amount>> : amount \in Placements}
    ELSE {<<"p2pkh", "address">>}

\* A placement is a function of the numbers up to some length.
LEMMA PlacementLength ==
    ASSUME NEW at \in Placements
    PROVE  \E n \in Nat : at \in [1..n -> 0..1]
BY EnvelopeAssumption DEF Placements

\* The transactions an entry pays with.
PaidBy(e) ==
    IF e[1] = "stealth-payment" THEN {e[3][i].id : i \in DOMAIN e[3]} ELSE {}

\* The recipient derives the keys the sender has paid to.
LEMMA StealthKeyOf ==
    constructHDStealthPrivateKey(Priv("ephemeral"), Priv(Bob))
      = constructHDStealthPublicKey(Priv("ephemeral"), Priv(Bob))
BY MulSymmetric DEF constructHDStealthPrivateKey, constructHDStealthPublicKey,
   constructStealthPrivateKey, constructStealthPublicKey

\* The recipient of a stealth payment, and another device of its sender, see
\* every output of it; the recipient has the key of each.
LEMMA StealthDecoded ==
    ASSUME NEW amount \in Placements, NEW d \in Devices, NEW outbound \in BOOLEAN,
           outbound \/ d = Bob
    PROVE  LET e == constructStealthEntry(amount, Priv(Bob))
               coins == EntryCoins(e, d, outbound)
           IN  /\ e[1] = "stealth-payment"
               /\ decodeEntry(e, d, outbound) = <<<<"stealth", amount>>>>
               /\ coins \in Seq(ToSet(coins))
               /\ \A c \in ToSet(coins) : c.kind = "stealth" /\ (~outbound => c.key = c.addr)
               /\ {c.tx : c \in ToSet(coins)} = PaidBy(e)
               /\ EntrySpends(e, FALSE) \in Seq(PaidBy(e))
               /\ ToSet(EntrySpends(e, FALSE)) = PaidBy(e)
<1> DEFINE pub == constructHDStealthPublicKey(Priv("ephemeral"), Priv(Bob))
           B == Bundle("stealth", pub, amount)
           e == constructStealthEntry(amount, Priv(Bob))
           hd == StealthKey(e, d)
           t == Firsts("stealth", hd, B)
<1>1. PICK n \in Nat : amount \in [1..n -> 0..1]
  BY PlacementLength
<1>2. e[1] = "stealth-payment" /\ e[2] = Priv("ephemeral") /\ e[3] = B
  BY DEF constructStealthEntry
<1>3. d = Bob => hd = pub
  BY <1>2, StealthKeyOf DEF StealthKey
<1> HIDE DEF e, pub, hd
<1>4. /\ DOMAIN B = 1..n /\ Len(B) = n
      /\ \A i \in 1..n : /\ B[i].id = <<"stealth", i>>
                         /\ B[i].vouts = <<amount[i]>>
                         /\ B[i].outs = [k \in {amount[i]} |-> Outpoint(pub, i - 1, 0)]
  <2>1. IsBundle(B, n, "stealth", pub, amount)
    BY <1>1, BundleShape
  <2> HIDE DEF B
  <2> QED
    BY <2>1 DEF IsBundle
<1> HIDE DEF B
<1>5. Ones(B)
  <2> SUFFICES ASSUME NEW i \in DOMAIN B
               PROVE  DOMAIN B[i].vouts = 1..1
    BY Zenon DEF Ones
  <2>1. B[i].vouts = <<amount[i]>>
    BY <1>4
  <2> QED
    BY <2>1
<1>6. \A i \in 1..n : /\ B[i].vouts[1] = amount[i]
                      /\ B[i].outs[amount[i]] = Outpoint(pub, i - 1, 0)
  <2>1. \A i \in 1..n : B[i].vouts = <<amount[i]>>
    BY <1>4, Zenon
  <2>2. \A i \in 1..n : B[i].outs = [k \in {amount[i]} |-> Outpoint(pub, i - 1, 0)]
    BY <1>4, Zenon
  <2>3. \A i \in 1..n : B[i].vouts[1] = amount[i]
    BY <2>1
  <2>4. \A i \in 1..n : B[i].outs[amount[i]] = Outpoint(pub, i - 1, 0)
    BY <2>2
  <2> QED
    BY <2>3, <2>4
<1>6a. \A i \in 1..n : B[i].id = <<"stealth", i>>
  BY <1>4, Zenon
<1>7. StealthOutpoints(hd, B, outbound) = t
  BY <1>3, <1>4, <1>5, <1>6, StealthOutpointsOf
<1>8. DOMAIN t = 1..n /\ Len(t) = n /\ t \in Seq(ToSet(t))
  BY <1>4, <1>5, OutpointsFirsts
<1>9. \A i \in 1..n : /\ t[i].out = amount[i] /\ t[i].kind = "stealth" /\ t[i].tx = <<"stealth", i>>
                      /\ t[i].key = Outpoint(hd, i - 1, 0)
                      /\ t[i].addr = Outpoint(pub, i - 1, 0)
  BY <1>4, <1>6, <1>6a DEF Firsts, Coin
<1> HIDE DEF t
<1>10. EntryCoins(e, d, outbound) = t
  BY <1>2, <1>7 DEF EntryCoins, hd
<1>11. decodeEntry(e, d, outbound) = <<<<"stealth", amount>>>>
  <2>1. [i \in DOMAIN t |-> t[i].out] = amount
    BY <1>1, <1>8, <1>9
  <2>2. decodeEntry(e, d, outbound)
          = IF Len(t) = Len(B) THEN <<<<"stealth", [i \in DOMAIN t |-> t[i].out]>>>> ELSE <<>>
    BY <1>2, <1>7 DEF decodeEntry, hd
  <2> QED
    BY <1>4, <1>8, <2>1, <2>2
<1>12. ToSet(t) = {t[i] : i \in 1..n}
  BY <1>8 DEF ToSet
<1>13. PaidBy(e) = {<<"stealth", i>> : i \in 1..n}
  <2>1. PaidBy(e) = {B[i].id : i \in 1..n}
    <3>1. PaidBy(e) = {e[3][i].id : i \in DOMAIN e[3]}
      BY <1>2, Zenon DEF PaidBy
    <3>2. DOMAIN e[3] = 1..n /\ e[3] = B
      BY <1>2, <1>4
    <3> QED
      BY <3>1, <3>2, Zenon
  <2> QED
    BY <1>6a, <2>1
<1>14. {c.tx : c \in ToSet(t)} = PaidBy(e)
  <2>1. \A i \in 1..n : t[i].tx = <<"stealth", i>>
    BY <1>9, Zenon
  <2>2. {c.tx : c \in ToSet(t)} = {t[i].tx : i \in 1..n}
    BY <1>12
  <2> QED
    BY <1>13, <2>1, <2>2
<1>15. \A c \in ToSet(t) : c.kind = "stealth" /\ (~outbound => c.key = c.addr)
  BY <1>3, <1>9, <1>12
<1>16. EntrySpends(e, FALSE) = [i \in 1..n |-> <<"stealth", i>>]
  BY <1>2, <1>4, <1>6a DEF EntrySpends
<1>17. EntrySpends(e, FALSE) \in Seq(PaidBy(e)) /\ ToSet(EntrySpends(e, FALSE)) = PaidBy(e)
  <2> DEFINE f == [i \in 1..n |-> <<"stealth", i>>]
  <2>1. \A i \in 1..n : f[i] \in PaidBy(e)
    BY <1>13
  <2>2. f \in Seq(PaidBy(e)) /\ DOMAIN f = 1..n
    BY <2>1
  <2>3. ToSet(f) = {f[i] : i \in 1..n}
    BY <2>2 DEF ToSet
  <2>4. {f[i] : i \in 1..n} = PaidBy(e)
    BY <1>13
  <2> QED
    BY <1>16, <2>2, <2>3, <2>4
<1> QED
  BY <1>2, <1>8, <1>10, <1>11, <1>14, <1>15, <1>17 DEF e

\* Every item comes out of its entry as it went in.
Returned(e, item, d, outbound) ==
    LET coins == EntryCoins(e, d, outbound)
    IN  /\ e[1] \in {"text-utf8", "reply", "image", "stealth-payment"}
        /\ decodeEntry(e, d, outbound) = <<item>>
        /\ coins \in Seq(ToSet(coins))
        /\ \A c \in ToSet(coins) : c.kind = "stealth" /\ (~outbound => c.key = c.addr)
        /\ {c.tx : c \in ToSet(coins)} = PaidBy(e)
        /\ EntrySpends(e, FALSE) \in Seq(PaidBy(e))
        /\ ToSet(EntrySpends(e, FALSE)) = PaidBy(e)

\* An entry gives the item it was made of, its coins and its transactions.
LEMMA Decoded ==
    ASSUME NEW item \in Sendable(Bob), NEW d \in Devices, NEW outbound \in BOOLEAN,
           outbound \/ d = Bob
    PROVE  Returned(encodeEntry(item, Priv(Bob)), item, d, outbound)
<1> DEFINE e == encodeEntry(item, Priv(Bob))
<1>1. CASE item[1] = "stealth"
  <2>1. PICK amount \in Placements : item = <<"stealth", amount>>
    BY <1>1 DEF Sendable
  <2>2. e = constructStealthEntry(amount, Priv(Bob))
    BY <2>1 DEF encodeEntry
  <2> HIDE DEF e
  <2> QED
    BY <2>1, <2>2, StealthDecoded DEF e, Returned
<1>2. CASE item[1] # "stealth"
  <2>1. /\ item = <<item[1], item[2]>> /\ item[1] \in {"text", "reply", "image"}
    BY <1>2 DEF Sendable
  <2>2. /\ e[1] \in {"text-utf8", "reply", "image"}
        /\ decodeEntry(e, d, outbound) = <<item>>
    BY <2>1 DEF encodeEntry, decodeEntry, constructTextEntry, constructReplyEntry,
       constructImageEntry
  <2> HIDE DEF e
  <2>3. EntryCoins(e, d, outbound) = <<>> /\ EntrySpends(e, FALSE) = <<>> /\ PaidBy(e) = {}
    BY <2>2 DEF EntryCoins, EntrySpends, PaidBy
  <2>4. ToSet(<<>>) = {} /\ <<>> \in Seq({})
    BY DEF ToSet
  <2> QED
    BY <2>2, <2>3, <2>4 DEF e, Returned
<1> QED
  BY <1>1, <1>2

-----------------------------------------------------------------------------
\* A sequence of n sequences.
Parts(s, n) == /\ DOMAIN s = 1..n /\ s = [i \in 1..n |-> s[i]]
               /\ \A i \in 1..n : s[i] \in Seq(ToSet(s[i]))

\* Flattened parts have the elements of the parts, whatever their types are.
LEMMA FlattenElements ==
    ASSUME NEW n \in Nat, NEW s, Parts(s, n)
    PROVE  \A x : x \in ToSet(FlattenSeq(s)) <=> \E i \in 1..n : x \in ToSet(s[i])
<1> USE DEF Parts
<1> DEFINE T == UNION {ToSet(s[i]) : i \in 1..n}
<1>1. \A i \in 1..n : ToSet(s[i]) \subseteq T
  OBVIOUS
<1> HIDE DEF T
<1>2. \A i \in 1..n : s[i] \in Seq(T)
  <2>1. ASSUME NEW S, S \subseteq T, NEW p \in Seq(S) PROVE p \in Seq(T)
    BY <2>1
  <2> QED
    BY <1>1, <2>1
<1>3. s \in Seq(Seq(T))
  <2>1. s \in [1..n -> Seq(T)]
    BY <1>2
  <2> QED
    BY <2>1
<1>4. ToSet(FlattenSeq(s)) = UNION {ToSet(s[i]) : i \in DOMAIN s}
  BY <1>3, FlattenProperties
<1>5. \A x : x \in UNION {ToSet(s[i]) : i \in DOMAIN s} <=> \E i \in 1..n : x \in ToSet(s[i])
  OBVIOUS
<1> QED
  BY <1>4, <1>5, Zenon

\* The entries that sendMessageImpl makes of the items.
EntriesOf(items, dst) == [i \in DOMAIN items |-> encodeEntry(items[i], Priv(dst))]

\* The transactions that the entries pay with.
PaidByAll(entries) == UNION {PaidBy(entries[i]) : i \in DOMAIN entries}

\* Every entry of a message gives its item, its coins and its transactions.
LEMMA EntryFacts ==
    ASSUME NEW items \in Seq(Sendable(Bob)), NEW entries, entries = EntriesOf(items, Bob),
           NEW d \in Devices, NEW outbound \in BOOLEAN, outbound \/ d = Bob
    PROVE  /\ DOMAIN entries = 1..Len(items) /\ Len(items) \in Nat
           /\ \A i \in 1..Len(items) : Returned(entries[i], items[i], d, outbound)
<1>1. DOMAIN entries = 1..Len(items) /\ Len(items) \in Nat
  BY DEF EntriesOf
<1>2. ASSUME NEW i \in 1..Len(items)
      PROVE  items[i] \in Sendable(Bob) /\ entries[i] = encodeEntry(items[i], Priv(Bob))
  BY DEF EntriesOf
<1> QED
  BY <1>1, <1>2, Decoded

\* The items shown are those that were sent.
LEMMA ItemsDecoded ==
    ASSUME NEW items \in Seq(Sendable(Bob)), NEW entries, entries = EntriesOf(items, Bob),
           NEW d \in Devices, NEW outbound \in BOOLEAN, outbound \/ d = Bob
    PROVE  Items(entries, d, outbound) = items
<1> DEFINE s == [i \in DOMAIN entries |-> decodeEntry(entries[i], d, outbound)]
<1>1. DOMAIN entries = 1..Len(items)
  BY EntryFacts
<1>2. ASSUME NEW i \in 1..Len(items) PROVE s[i] = <<items[i]>>
  <2>1. Returned(entries[i], items[i], d, outbound)
    BY EntryFacts
  <2>2. s[i] = decodeEntry(entries[i], d, outbound)
    BY <1>1
  <2> QED
    BY <2>1, <2>2 DEF Returned
<1>3. DOMAIN s = 1..Len(items) /\ s = [i \in 1..Len(items) |-> s[i]]
  BY <1>1
<1>4. Items(entries, d, outbound) = FlattenSeq(s)
  BY DEF Items
<1> HIDE DEF s
<1> QED
  BY <1>2, <1>3, <1>4, FlattenOnes

\* The coins of the entries belong to their transactions, and a recipient has
\* the key of each.
LEMMA CoinsOfEntries ==
    ASSUME NEW items \in Seq(Sendable(Bob)), NEW entries, entries = EntriesOf(items, Bob),
           NEW d \in Devices, NEW outbound \in BOOLEAN, outbound \/ d = Bob
    PROVE  LET coins == ToSet(Coins(entries, d, outbound))
           IN  /\ \A c \in coins : c.kind = "stealth" /\ (~outbound => c.key = c.addr)
               /\ {c.tx : c \in coins} = PaidByAll(entries)
<1> DEFINE n == Len(items)
           s == [i \in DOMAIN entries |-> EntryCoins(entries[i], d, outbound)]
           coins == UNION {ToSet(s[i]) : i \in 1..n}
<1>1. DOMAIN entries = 1..n /\ n \in Nat
  BY EntryFacts
<1>2. \A i \in 1..n : /\ s[i] \in Seq(ToSet(s[i]))
                      /\ \A c \in ToSet(s[i]) : c.kind = "stealth" /\ (~outbound => c.key = c.addr)
                      /\ {c.tx : c \in ToSet(s[i])} = PaidBy(entries[i])
  <2> SUFFICES ASSUME NEW i \in 1..n
               PROVE  /\ s[i] \in Seq(ToSet(s[i]))
                      /\ \A c \in ToSet(s[i]) : c.kind = "stealth" /\ (~outbound => c.key = c.addr)
                      /\ {c.tx : c \in ToSet(s[i])} = PaidBy(entries[i])
    OBVIOUS
  <2>1. s[i] = EntryCoins(entries[i], d, outbound)
    BY <1>1
  <2>2. Returned(entries[i], items[i], d, outbound)
    BY EntryFacts
  <2> HIDE DEF s
  <2> QED
    BY <2>1, <2>2 DEF Returned
<1>3. DOMAIN s = 1..n /\ s = [i \in 1..n |-> s[i]]
  BY <1>1
<1>4. Coins(entries, d, outbound) = FlattenSeq(s)
  BY DEF Coins
<1> HIDE DEF s, n
<1>5. ToSet(Coins(entries, d, outbound)) = coins
  <2>1. \A i \in 1..n : s[i] \in Seq(ToSet(s[i]))
    BY <1>2
  <2>2. \A x : x \in ToSet(FlattenSeq(s)) <=> \E i \in 1..n : x \in ToSet(s[i])
    <3>1. Parts(s, n)
      BY <1>3, <2>1 DEF Parts
    <3> QED
      BY <1>1, <3>1, FlattenElements
  <2>3. \A x : x \in coins <=> \E i \in 1..n : x \in ToSet(s[i])
    OBVIOUS
  <2> HIDE DEF coins
  <2>4. \A x : x \in ToSet(FlattenSeq(s)) <=> x \in coins
    BY <2>2, <2>3, Zenon
  <2> QED
    BY <1>4, <2>4
<1>6. \A c \in coins : c.kind = "stealth" /\ (~outbound => c.key = c.addr)
  BY <1>2
<1>7. {c.tx : c \in coins} = PaidByAll(entries)
  <2>1. ASSUME NEW x \in {c.tx : c \in coins} PROVE x \in PaidByAll(entries)
    <3>1. PICK c \in coins : x = c.tx
      BY <2>1
    <3>2. PICK i \in 1..n : c \in ToSet(s[i])
      BY <3>1
    <3>3. x \in PaidBy(entries[i])
      BY <1>2, <3>1, <3>2
    <3> QED
      BY <1>1, <3>3 DEF PaidByAll
  <2>2. ASSUME NEW x \in PaidByAll(entries) PROVE x \in {c.tx : c \in coins}
    <3>1. PICK i \in 1..n : x \in PaidBy(entries[i])
      BY <1>1, <2>2 DEF PaidByAll
    <3>2. PICK c \in ToSet(s[i]) : x = c.tx
      BY <1>2, <3>1
    <3> QED
      BY <3>2
  <2> QED
    BY <2>1, <2>2
<1> QED
  BY <1>5, <1>6, <1>7

\* The transactions whose inputs the entries delete are those they pay with.
LEMMA SpendsOfEntries ==
    ASSUME NEW items \in Seq(Sendable(Bob)), NEW entries, entries = EntriesOf(items, Bob)
    PROVE  ToSet(Spends(entries, FALSE)) = PaidByAll(entries)
<1> DEFINE n == Len(items)
           s == [i \in DOMAIN entries |-> EntrySpends(entries[i], FALSE)]
<1>1. TRUE \in BOOLEAN /\ Bob \in Devices
  BY DEF Devices
<1>2. DOMAIN entries = 1..n /\ n \in Nat
  BY <1>1, EntryFacts
<1>3. ASSUME NEW i \in 1..n
      PROVE  s[i] \in Seq(PaidBy(entries[i])) /\ ToSet(s[i]) = PaidBy(entries[i])
  <2>1. s[i] = EntrySpends(entries[i], FALSE)
    BY <1>2
  <2>2. Returned(entries[i], items[i], Bob, TRUE)
    BY <1>1, EntryFacts
  <2> HIDE DEF s
  <2> QED
    BY <2>1, <2>2 DEF Returned
<1>4. DOMAIN s = 1..n /\ s = [i \in 1..n |-> s[i]]
  BY <1>2
<1>5. Spends(entries, FALSE) = FlattenSeq(s)
  BY DEF Spends
<1> HIDE DEF s, n
<1>6. \A x : x \in ToSet(FlattenSeq(s)) <=> \E i \in 1..n : x \in ToSet(s[i])
  <2>1. \A i \in 1..n : s[i] \in Seq(ToSet(s[i]))
    BY <1>3
  <2>2. Parts(s, n)
    BY <1>4, <2>1 DEF Parts
  <2> QED
    BY <1>2, <2>2, FlattenElements
<1>7. \A x : x \in PaidByAll(entries) <=> \E i \in 1..n : x \in PaidBy(entries[i])
  BY <1>2 DEF PaidByAll
<1>8. \A x : x \in ToSet(FlattenSeq(s)) <=> x \in PaidByAll(entries)
  BY <1>3, <1>6, <1>7
<1> QED
  BY <1>5, <1>8

\* A message to the recipient pays with its entries' transactions and its stamp's.
LEMMA TransactionsOf ==
    ASSUME NEW items \in Seq(Sendable(Bob)), NEW entries, entries = EntriesOf(items, Bob), NEW m
    PROVE  Transactions(entries, m)
             = PaidByAll(entries) \cup {m.stamp[i].id : i \in DOMAIN m.stamp}
<1>1. TRUE \in BOOLEAN /\ Bob \in Devices
  BY DEF Devices
<1>2. \A e \in ToSet(entries) : e[1] # "p2pkh"
  <2>1. DOMAIN entries = 1..Len(items)
    BY <1>1, EntryFacts
  <2>2. \A i \in 1..Len(items) : Returned(entries[i], items[i], Bob, TRUE)
    BY <1>1, EntryFacts
  <2>3. \A i \in 1..Len(items) : entries[i][1] # "p2pkh"
    BY <2>2 DEF Returned
  <2> QED
    BY <2>1, <2>3 DEF ToSet
<1>3. {e[2].id : e \in {f \in ToSet(entries) : f[1] = "p2pkh"}} = {}
  BY <1>2
<1> DEFINE A == UNION {{e[3][i].id : i \in DOMAIN e[3]} :
                          e \in {f \in ToSet(entries) : f[1] = "stealth-payment"}}
<1>4. A = PaidByAll(entries)
  <2>1. ASSUME NEW x \in A PROVE x \in PaidByAll(entries)
    <3>1. PICK e \in ToSet(entries) : /\ e[1] = "stealth-payment"
                                      /\ x \in {e[3][i].id : i \in DOMAIN e[3]}
      BY <2>1
    <3>2. PICK i \in DOMAIN entries : e = entries[i]
      BY <3>1 DEF ToSet
    <3>3. x \in PaidBy(entries[i])
      BY <3>1, <3>2 DEF PaidBy
    <3> QED
      BY <3>3 DEF PaidByAll
  <2>2. ASSUME NEW x \in PaidByAll(entries) PROVE x \in A
    <3>1. PICK i \in DOMAIN entries : x \in PaidBy(entries[i])
      BY <2>2 DEF PaidByAll
    <3> DEFINE e == entries[i]
    <3>2. e \in ToSet(entries)
      BY DEF ToSet
    <3> HIDE DEF e
    <3>3. e[1] = "stealth-payment" /\ x \in {e[3][k].id : k \in DOMAIN e[3]}
      BY <3>1 DEF PaidBy, e
    <3> QED
      BY <3>2, <3>3
  <2> QED
    BY <2>1, <2>2
<1> HIDE DEF A
<1>5. Transactions(entries, m)
        = (A \cup {e[2].id : e \in {f \in ToSet(entries) : f[1] = "p2pkh"}})
          \cup {m.stamp[i].id : i \in DOMAIN m.stamp}
  BY DEF Transactions, A
<1> QED
  BY <1>3, <1>4, <1>5

\* Of stamps with one output of a transaction each, the i-th is the first of
\* the i-th group.
LEMMA GroupOf ==
    ASSUME NEW n \in Nat, NEW stamps, DOMAIN stamps = 1..n,
           \A j, k \in 1..n : stamps[j].tx = stamps[k].tx => j = k,
           NEW i \in 1..n
    PROVE  Place(stamps, i) = 0 /\ Group(stamps, i) = i - 1
<1>1. Place(stamps, i) = 0
  <2>1. {k \in 1..(i - 1) : stamps[k].tx = stamps[i].tx} = {}
    OBVIOUS
  <2> QED
    BY <2>1, FS_EmptySet DEF Place
<1> DEFINE First(t) == Min({k \in DOMAIN stamps : stamps[k].tx = t})
           ids == {stamps[k].tx : k \in DOMAIN stamps}
           before == {t \in ids : First(t) < First(stamps[i].tx)}
<1>2. ASSUME NEW k \in 1..n PROVE First(stamps[k].tx) = k
  <2>1. {j \in DOMAIN stamps : stamps[j].tx = stamps[k].tx} = {k}
    OBVIOUS
  <2>2. Min({k}) \in {k}
    <3>1. {k} \subseteq Nat /\ {k} # {}
      OBVIOUS
    <3> QED
      BY <3>1, MinProperties
  <2> QED
    BY <2>1, <2>2
<1> DEFINE f == [k \in 1..(i - 1) |-> stamps[k].tx]
<1>3. before = {f[k] : k \in 1..(i - 1)}
  <2> HIDE DEF First
  <2>1. ASSUME NEW t \in before PROVE t \in {f[k] : k \in 1..(i - 1)}
    <3>1. PICK k \in 1..n : t = stamps[k].tx
      OBVIOUS
    <3>2. k < i
      BY <1>2, <3>1
    <3>3. k \in 1..(i - 1)
      BY <3>2
    <3> QED
      BY <3>1, <3>3
  <2>2. ASSUME NEW k \in 1..(i - 1) PROVE f[k] \in before
    <3>1. k \in 1..n /\ k < i
      OBVIOUS
    <3>2. First(stamps[k].tx) = k /\ First(stamps[i].tx) = i
      BY <1>2, <3>1
    <3> QED
      BY <3>1, <3>2
  <2> HIDE DEF f, before
  <2> QED
    BY <2>1, <2>2
<1>4. Cardinality({f[k] : k \in 1..(i - 1)}) = i - 1
  <2>1. i - 1 \in Nat /\ \A k \in 1..(i - 1) : k \in 1..n
    OBVIOUS
  <2> DEFINE T == {f[k] : k \in 1..(i - 1)}
  <2>2. f \in [1..(i - 1) -> T] /\ \A t \in T : \E k \in 1..(i - 1) : f[k] = t
    OBVIOUS
  <2>3. \A j, k \in 1..(i - 1) : f[j] = f[k] => j = k
    BY <2>1
  <2> HIDE DEF f, T
  <2>4. Cardinality(T) = i - 1
    BY <2>1, <2>2, <2>3, FiniteImage
  <2> QED
    BY <2>4 DEF T
<1>5. Group(stamps, i) = Cardinality(before)
  BY DEF Group
<1> QED
  BY <1>1, <1>3, <1>4, <1>5

-----------------------------------------------------------------------------
\* The message that sendMessageImpl makes of the items.
Made(items, dst, at) ==
    constructMessage(<<"payload", EntriesOf(items, dst)>>, Priv(Alice), Priv(dst), at)

\* The key that encrypts it.
KeyOfMade(items, dst, at) ==
    constructSharedKey(Priv(Alice), Priv(dst), Made(items, dst, at).salt)

\* The parts of the message that is made.
LEMMA MadeFacts ==
    ASSUME NEW items, NEW dst, NEW at
    PROVE  LET m == Made(items, dst, at)
               key == KeyOfMade(items, dst, at)
           IN  /\ m.source = Priv(Alice) /\ m.destination = Priv(dst)
               /\ m.scheme = 1 /\ m.payloadDigest = <<>> /\ m.payloadSize = 0
               /\ m.payload = <<"aes", key, <<"payload", EntriesOf(items, dst)>>>>
               /\ m.hmac = <<"hmac", key, sha256(m.payload)>>
               /\ m.stamp = Bundle("stamp",
                              constructStampHDPublicKey(sha256(m.payload), Priv(dst)), at)
BY DEF Made, KeyOfMade, constructMessage, encrypt, constructPayloadHmac, sha256hmac

\* The stamp's keys are the same from the recipient's side.
LEMMA ScalarKeys ==
    ASSUME NEW digest, NEW p
    PROVE  constructStampHDPrivateKey(digest, p) = constructStampHDPublicKey(digest, p)
BY DEF constructStampHDPrivateKey, constructStampHDPublicKey

-----------------------------------------------------------------------------
(* The invariant. *)

\* A coin has these fields and no others.
IsCoin(c) == c = [kind |-> c.kind, tx |-> c.tx, out |-> c.out, addr |-> c.addr, key |-> c.key]

\* The coins of the stamp, and the keys they are paid to.
KeysOf(items, dst, at) ==
    constructStampHDPublicKey(sha256(Made(items, dst, at).payload), Priv(dst))

\* The coins of the stamp of the message.
StampsOf(items, dst, at) ==
    Firsts("stamp", KeysOf(items, dst, at), Made(items, dst, at).stamp)

\* What was sent is what its sender entered.
SentWell(at) ==
    /\ sent = [to |-> sent.to, items |-> sent.items, txs |-> sent.txs]
    /\ sent.to \in Devices /\ sent.items \in Seq(Sendable(sent.to))
    /\ sent.to = Alice => at = <<>> /\ sent.items = <<<<"p2pkh", "address">>>>
    /\ sent.txs = Transactions(EntriesOf(sent.items, sent.to), Made(sent.items, sent.to, at))

\* What of the message can be changed: never the parties, nor the digest.
HandedWell(m) ==
    /\ message.source = m.source /\ message.destination = m.destination
    /\ message.payloadDigest \in {<<>>, sha256(m.payload)}
    /\ message.payload \in {m.payload, <<>>, <<"other">>}
    /\ message.hmac \in {m.hmac, <<"other">>}
    /\ message.stamp \in {m.stamp, Diverted(m.stamp)}
    /\ message.payloadDigest = <<>> => message = m /\ fault = "none"
    /\ fault = "none" =>
         /\ message.salt = m.salt /\ message.hmac = m.hmac /\ message.stamp = m.stamp
         /\ message.scheme = 1 /\ message.payloadSize = 0
         /\ message.payload \in {m.payload, <<>>}
         /\ payloads = {<<sha256(m.payload), m.payload>>}

\* Whatever is unspent has been paid to a key of the stamp.
PaidWell(at) ==
    /\ IsFiniteSet(chain)
    /\ \A o \in chain : \E i \in DOMAIN at :
         o = [tx |-> <<"stamp", i>>, out |-> o.out,
              addr |-> Outpoint(KeysOf(sent.items, sent.to, at), i - 1, 0)]

\* What the devices have: nothing before the message is handed out, and of a
\* message as it was sent the stamps it was sent with.
SeenWell(at) ==
    /\ shown = [d \in Devices |-> shown[d]]
    /\ owned = [d \in Devices |-> owned[d]]
    /\ spent = [d \in Devices |-> spent[d]]
    /\ message.payloadDigest = <<>> => \A d \in Devices : shown[d] = NotYet
    /\ \A d \in Devices : shown[d] = NotYet => owned[d] = {}
    /\ shown[Bob] = NotYet => restored = {} /\ redeemed = {}
    /\ sent.to = Alice => shown[Bob] = NotYet
    /\ Len(shown[Bob]) = 3 => \A i \in DOMAIN shown[Bob][3] : IsCoin(shown[Bob][3][i])
    /\ fault = "none" /\ shown[Bob] # NotYet =>
         /\ shown[Bob][3] = StampsOf(sent.items, sent.to, at)
         /\ StampCoins \subseteq ToSet(StampsOf(sent.items, sent.to, at))

\* A message is under way whose stamp was paid at these places.
Underway(at) ==
    /\ SentWell(at) /\ HandedWell(Made(sent.items, sent.to, at))
    /\ PaidWell(at) /\ SeenWell(at)

\* Nothing was sent yet, or a message is under way; and it means the same
\* wherever it was opened.
EnvelopeInv ==
    /\ EnvelopeInit \/ \E at \in Placements : Underway(at)
    /\ OpenedAsSent

-----------------------------------------------------------------------------
\* It holds at first.
LEMMA EnvelopeInitInv == EnvelopeInit => EnvelopeInv
<1> SUFFICES ASSUME EnvelopeInit PROVE EnvelopeInv
  OBVIOUS
<1>1. /\ \A d \in Devices : owned[d] = {} /\ shown[d] = NotYet
      /\ restored = {} /\ redeemed = {} /\ Alice \in Devices /\ Bob \in Devices
  BY DEF EnvelopeInit, Devices
<1>2. OpenedAsSent
  BY <1>1 DEF OpenedAsSent
<1> QED
  BY <1>2 DEF EnvelopeInv

\* A stamp, the changed one too: whose transactions, and where the outputs are.
StampShape(B, n, at) ==
    /\ DOMAIN B = 1..n
    /\ \A i \in 1..n : B[i].id = <<"stamp", i>>
    /\ \A i \in 1..n : B[i].vouts = <<at[i]>>

\* A stamp has the shape of a payment, and the changed one has it too.
LEMMA StampShapes ==
    ASSUME NEW n \in Nat, NEW at, at \in [1..n -> 0..1], NEW hd
    PROVE  /\ StampShape(Bundle("stamp", hd, at), n, at)
           /\ StampShape(Diverted(Bundle("stamp", hd, at)), n, at)
<1> DEFINE B == Bundle("stamp", hd, at)
           D == Diverted(B)
<1>1. /\ DOMAIN B = 1..n
      /\ \A i \in 1..n : B[i] = [id |-> <<"stamp", i>>, vouts |-> <<at[i]>>, outs |-> B[i].outs]
  BY DEF Bundle
<1> HIDE DEF B
<1>2. /\ DOMAIN D = 1..n
      /\ \A i \in 1..n : D[i] = IF i = 1 THEN [B[i] EXCEPT !.outs = [k \in DOMAIN @ |-> {<<"other">>}]]
                                         ELSE B[i]
  BY <1>1 DEF Diverted
<1>3. \A i \in 1..n : D[i].id = B[i].id /\ D[i].vouts = B[i].vouts
  BY <1>1, <1>2
<1>4. \A i \in 1..n : B[i].id = <<"stamp", i>> /\ B[i].vouts = <<at[i]>>
  BY <1>1
<1> HIDE DEF D
<1>5. StampShape(B, n, at)
  BY <1>1, <1>4, Zenon DEF StampShape
<1>6. StampShape(D, n, at)
  BY <1>2, <1>3, <1>4, Zenon DEF StampShape
<1> QED
  BY <1>5, <1>6 DEF B, D

\* Such a stamp has one output of the payee in each transaction.
LEMMA StampOnes ==
    ASSUME NEW B, NEW n, NEW at, StampShape(B, n, at)
    PROVE  Ones(B) /\ \A i \in 1..n : B[i].vouts[1] = at[i]
<1>1. \A i \in 1..n : DOMAIN <<at[i]>> = 1..1 /\ <<at[i]>>[1] = at[i]
  OBVIOUS
<1> QED
  BY <1>1, Zenon DEF StampShape, Ones

\* The coins of the stamp as it was sent.
LEMMA StampsFacts ==
    ASSUME NEW n \in Nat, NEW at, at \in [1..n -> 0..1], NEW items, NEW dst
    PROVE  LET m == Made(items, dst, at)
               coins == StampsOf(items, dst, at)
           IN  /\ IsBundle(m.stamp, n, "stamp", KeysOf(items, dst, at), at)
               /\ StampShape(m.stamp, n, at)
               /\ StampShape(Diverted(m.stamp), n, at)
               /\ DOMAIN coins = 1..n /\ Len(coins) = n
               /\ \A i \in 1..n :
                    coins[i] = [kind |-> "stamp", tx |-> <<"stamp", i>>, out |-> at[i],
                                addr |-> Outpoint(KeysOf(items, dst, at), i - 1, 0),
                                key |-> Outpoint(KeysOf(items, dst, at), i - 1, 0)]
<1> DEFINE B == Made(items, dst, at).stamp
           hd == KeysOf(items, dst, at)
           coins == StampsOf(items, dst, at)
<1>1. B = Bundle("stamp", hd, at)
  BY MadeFacts DEF KeysOf
<1>2. IsBundle(B, n, "stamp", hd, at) /\ StampShape(B, n, at) /\ StampShape(Diverted(B), n, at)
  BY <1>1, BundleShape, StampShapes
<1>3. coins = Firsts("stamp", hd, B)
  BY DEF StampsOf
<1> HIDE DEF B, hd, coins
<1>4. Ones(B) /\ DOMAIN B = 1..n
  <2>1. Ones(B)
    BY <1>2, StampOnes
  <2> QED
    BY <1>2, <2>1 DEF StampShape
<1>5. DOMAIN coins = 1..n /\ Len(coins) = n
  BY <1>3, <1>4, OutpointsFirsts
<1>6. \A i \in 1..n : B[i].id = <<"stamp", i>>
  BY <1>2 DEF StampShape
<1>7. \A i \in 1..n : B[i].vouts[1] = at[i]
  BY <1>2, StampOnes
<1>8. \A i \in 1..n : B[i].outs[at[i]] = Outpoint(hd, i - 1, 0)
  <2>1. \A i \in 1..n : B[i].outs = [k \in {at[i]} |-> Outpoint(hd, i - 1, 0)]
    BY <1>2, Zenon DEF IsBundle
  <2> QED
    BY <2>1
<1>9. \A i \in 1..n : coins[i] = Coin("stamp", B[i], 1, Outpoint(hd, i - 1, 0))
  BY <1>3, <1>4 DEF Firsts
<1>10. \A i \in 1..n : coins[i] = [kind |-> "stamp", tx |-> <<"stamp", i>>, out |-> at[i],
                                   addr |-> Outpoint(hd, i - 1, 0), key |-> Outpoint(hd, i - 1, 0)]
  <2> SUFFICES ASSUME NEW i \in 1..n
               PROVE  coins[i] = [kind |-> "stamp", tx |-> <<"stamp", i>>, out |-> at[i],
                                  addr |-> Outpoint(hd, i - 1, 0), key |-> Outpoint(hd, i - 1, 0)]
    OBVIOUS
  <2>1. /\ B[i].id = <<"stamp", i>> /\ B[i].vouts[1] = at[i]
        /\ B[i].outs[at[i]] = Outpoint(hd, i - 1, 0)
    BY <1>6, <1>7, <1>8
  <2>2. coins[i] = [kind |-> "stamp", tx |-> B[i].id, out |-> B[i].vouts[1],
                    addr |-> B[i].outs[B[i].vouts[1]], key |-> Outpoint(hd, i - 1, 0)]
    BY <1>9, Zenon DEF Coin
  <2> QED
    BY <2>1, <2>2, Zenon
<1> QED
  BY <1>2, <1>5, <1>10 DEF B, hd, coins

\* A message that is made of items a user can send is under way as it was sent.
LEMMA SendInv ==
    ASSUME EnvelopeInv, NEW dst \in Devices, NEW at \in Placements,
           NEW items \in Seq(Sendable(dst)),
           dst = Alice => at = <<>> /\ items = <<<<"p2pkh", "address">>>>,
           sendMessageImpl(dst, items, at)
    PROVE  EnvelopeInv'
<1> DEFINE m == Made(items, dst, at)
           hd == KeysOf(items, dst, at)
<1>1. EnvelopeInit
  <2>1. ASSUME NEW p \in Placements, Underway(p) PROVE FALSE
    <3>1. sent = None /\ "to" \in DOMAIN sent
      BY <2>1 DEF sendMessageImpl, Underway, SentWell
    <3>2. "to" \notin DOMAIN None
      BY DEF None
    <3> QED
      BY <3>1, <3>2
  <2> QED
    BY <2>1 DEF EnvelopeInv
<1>2. /\ sent' = [to |-> dst, items |-> items,
                  txs |-> Transactions(EntriesOf(items, dst), m)]
      /\ message' = m
      /\ payloads' = {<<sha256(m.payload), m.payload>>}
      /\ chain' = UNION {{[tx |-> t.id, out |-> k, addr |-> t.outs[k]] :
                              k \in DOMAIN t.outs} : t \in ToSet(m.stamp)}
      /\ UNCHANGED <<fault, shown, owned, spent, restored, redeemed>>
  BY Zenon DEF sendMessageImpl, Made, EntriesOf
<1> HIDE DEF m
<1>3. sent'.to = dst /\ sent'.items = items
      /\ sent'.txs = Transactions(EntriesOf(items, dst), m)
      /\ sent' = [to |-> sent'.to, items |-> sent'.items, txs |-> sent'.txs]
  BY <1>2
<1>4. SentWell(at)'
  BY <1>3 DEF SentWell, m
<1>5. /\ m.payloadDigest = <<>> /\ m.scheme = 1 /\ m.payloadSize = 0
  BY MadeFacts DEF m
<1>6. fault' = "none" /\ \A d \in Devices : shown'[d] = NotYet /\ owned'[d] = {}
  BY <1>1, <1>2 DEF EnvelopeInit
<1>7. restored' = {} /\ redeemed' = {} /\ Bob \in Devices
  BY <1>1, <1>2 DEF EnvelopeInit, Devices
<1>8. HandedWell(Made(sent.items, sent.to, at))'
  <2>1. Made(sent'.items, sent'.to, at) = m
    BY <1>3 DEF m
  <2>2. message' = m /\ payloads' = {<<sha256(m.payload), m.payload>>}
    BY <1>2
  <2> QED
    BY <1>5, <1>6, <2>1, <2>2 DEF HandedWell
<1>9. PaidWell(at)'
  <2>1. PICK n \in Nat : at \in [1..n -> 0..1]
    BY PlacementLength
  <2>2. IsBundle(m.stamp, n, "stamp", hd, at)
    BY <2>1, StampsFacts DEF m
  <2> HIDE DEF hd
  <2> DEFINE o(i) == [tx |-> <<"stamp", i>>, out |-> at[i], addr |-> Outpoint(hd, i - 1, 0)]
             f == [i \in 1..n |-> o(i)]
             T == {o(i) : i \in 1..n}
  <2>3. ASSUME NEW t \in ToSet(m.stamp)
        PROVE  \E i \in 1..n : /\ t.id = <<"stamp", i>>
                               /\ t.outs = [k \in {at[i]} |-> Outpoint(hd, i - 1, 0)]
    <3>1. PICK i \in DOMAIN m.stamp : t = m.stamp[i]
      BY DEF ToSet
    <3>2. DOMAIN m.stamp = 1..n
      BY <2>2 DEF IsBundle
    <3>3. m.stamp[i].id = <<"stamp", i>>
      BY <2>2, <3>2, Zenon DEF IsBundle
    <3>4. m.stamp[i].outs = [k \in {at[i]} |-> Outpoint(hd, i - 1, 0)]
      BY <2>2, <3>2, Zenon DEF IsBundle
    <3> QED
      BY <3>1, <3>2, <3>3, <3>4, Zenon
  <2>4. \A q \in chain' : \E i \in 1..n : q = o(i)
    <3> SUFFICES ASSUME NEW q \in chain' PROVE \E i \in 1..n : q = o(i)
      OBVIOUS
    <3>1. PICK t \in ToSet(m.stamp) :
            q \in {[tx |-> t.id, out |-> k, addr |-> t.outs[k]] : k \in DOMAIN t.outs}
      BY <1>2
    <3>2. PICK k \in DOMAIN t.outs : q = [tx |-> t.id, out |-> k, addr |-> t.outs[k]]
      BY <3>1
    <3>3. PICK i \in 1..n : /\ t.id = <<"stamp", i>>
                            /\ t.outs = [j \in {at[i]} |-> Outpoint(hd, i - 1, 0)]
      BY <2>3
    <3>4. k = at[i] /\ t.outs[k] = Outpoint(hd, i - 1, 0)
      BY <3>2, <3>3
    <3> QED
      BY <3>2, <3>3, <3>4
  <2>5. chain' \subseteq T
    BY <2>4
  <2>6. IsFiniteSet(T)
    <3>1. f \in [1..n -> T] /\ \A t \in T : \E i \in 1..n : f[i] = t
      OBVIOUS
    <3> HIDE DEF f, T
    <3> QED
      BY <3>1, FiniteImage
  <2>7. IsFiniteSet(chain')
    <3> HIDE DEF T
    <3> QED
      BY <2>5, <2>6, FS_Subset
  <2>8. \A q \in chain' : \E i \in DOMAIN at :
           q = [tx |-> <<"stamp", i>>, out |-> q.out, addr |-> Outpoint(hd, i - 1, 0)]
    BY <2>1, <2>4
  <2>9. KeysOf(sent'.items, sent'.to, at) = hd
    BY <1>3 DEF hd
  <2> QED
    BY <2>7, <2>8, <2>9 DEF PaidWell
<1>10. SeenWell(at)'
  <2>1. /\ shown' = [d \in Devices |-> shown'[d]]
        /\ owned' = [d \in Devices |-> owned'[d]]
        /\ spent' = [d \in Devices |-> spent'[d]]
    BY <1>1, <1>2 DEF EnvelopeInit
  <2>2. Len(NotYet) # 3
    BY DEF NotYet
  <2> QED
    BY <1>6, <1>7, <2>1, <2>2 DEF SeenWell
<1>11. OpenedAsSent'
  BY <1>6, <1>7 DEF OpenedAsSent, Devices
<1> QED
  BY <1>4, <1>8, <1>9, <1>10, <1>11 DEF EnvelopeInv, Underway

\* Every way of sending gives such a message.
LEMMA SendsInv ==
    ASSUME EnvelopeInv,
           \/ \E at \in Placements : sendMessage(at) \/ sendImage(at) \/ sendStealthPayment(at)
           \/ sendToPubKeyHash
    PROVE  EnvelopeInv'
<1> DEFINE S == Sendable(Bob)
<1>1. /\ <<"text", "hi">> \in S /\ <<"reply", sha256(<<"earlier">>)>> \in S
      /\ <<"image", "pixels">> \in S
      /\ \A amount \in Placements : <<"stealth", amount>> \in S
  BY DEF Sendable
<1> HIDE DEF S
<1>2. /\ \A r \in MaybeReply : r \in Seq(S)
      /\ \A t \in MaybeText : t \in Seq(S)
  BY <1>1 DEF MaybeReply, MaybeText
<1>3. \A x \in S : <<x>> \in Seq(S)
  OBVIOUS
<1>4. \A p, q \in Seq(S) : p \o q \in Seq(S)
  OBVIOUS
<1>5. Bob \in Devices /\ Alice \in Devices /\ Bob # Alice
  BY EnvelopeAssumption DEF Devices
<1>6. ASSUME NEW at \in Placements, sendMessage(at) PROVE EnvelopeInv'
  <2>1. PICK r \in MaybeReply : sendMessageImpl(Bob, r \o <<<<"text", "hi">>>>, at)
    BY <1>6 DEF sendMessage
  <2>2. r \o <<<<"text", "hi">>>> \in Seq(S)
    BY <1>1, <1>2, <1>3, <1>4
  <2> QED
    BY <1>5, <2>1, <2>2, SendInv DEF S
<1>7. ASSUME NEW at \in Placements, sendImage(at) PROVE EnvelopeInv'
  <2>1. PICK r \in MaybeReply, t \in MaybeText :
          sendMessageImpl(Bob, r \o <<<<"image", "pixels">>>> \o t, at)
    BY <1>7 DEF sendImage
  <2>2. r \o <<<<"image", "pixels">>>> \o t \in Seq(S)
    BY <1>1, <1>2, <1>3, <1>4
  <2> QED
    BY <1>5, <2>1, <2>2, SendInv DEF S
<1>8. ASSUME NEW at \in Placements, sendStealthPayment(at) PROVE EnvelopeInv'
  <2>1. PICK t \in MaybeText, amount \in Placements :
          sendMessageImpl(Bob, <<<<"stealth", amount>>>> \o t, at)
    BY <1>8 DEF sendStealthPayment
  <2>2. <<<<"stealth", amount>>>> \o t \in Seq(S)
    BY <1>1, <1>2, <1>3, <1>4
  <2> QED
    BY <1>5, <2>1, <2>2, SendInv DEF S
<1>9. ASSUME sendToPubKeyHash PROVE EnvelopeInv'
  <2>1. <<"p2pkh", "address">> \in Sendable(Alice)
    BY <1>5 DEF Sendable
  <2>2. <<<<"p2pkh", "address">>>> \in Seq(Sendable(Alice))
    BY <2>1
  <2>3. <<>> \in Placements
    <3>1. <<>> \in [1..0 -> 0..1] /\ 0 \in 0..MaxTxs
      BY EnvelopeAssumption
    <3> QED
      BY <3>1 DEF Placements
  <2> QED
    BY <1>5, <1>9, <2>2, <2>3, SendInv DEF sendToPubKeyHash
<1> QED
  BY <1>6, <1>7, <1>8, <1>9

\* What the relay or another program makes of a message stays within HandedWell.
LEMMA RelayAnswersInv ==
    ASSUME EnvelopeInv, RelayAnswers
    PROVE  EnvelopeInv'
<1>1. PICK at \in Placements : Underway(at)
  <2>1. ~EnvelopeInit
    BY DEF EnvelopeInit, RelayAnswers
  <2> QED
    BY <2>1 DEF EnvelopeInv
<1> DEFINE m == Made(sent.items, sent.to, at)
<1>2. /\ message = m /\ fault = "none" /\ \A d \in Devices : shown[d] = NotYet /\ owned[d] = {}
      /\ payloads = {<<sha256(m.payload), m.payload>>}
  BY <1>1 DEF Underway, HandedWell, SeenWell, RelayAnswers
<1>3. m = [source |-> m.source, destination |-> m.destination, scheme |-> m.scheme,
           salt |-> m.salt, payload |-> m.payload, payloadDigest |-> m.payloadDigest,
           payloadSize |-> m.payloadSize, hmac |-> m.hmac, stamp |-> m.stamp]
  BY DEF Made, constructMessage
<1>4. m.scheme = 1 /\ m.payloadSize = 0
  BY MadeFacts
<1> HIDE DEF m
<1>5. PICK f \in Faults \cup {"none"}, strip \in BOOLEAN :
        /\ fault' = f
        /\ message' = [Foreign(m, f) EXCEPT
                          !.payloadDigest = sha256(m.payload),
                          !.payload = IF strip THEN <<>> ELSE @]
        /\ f # "stored" => payloads' = payloads
  BY <1>2, Zenon DEF RelayAnswers
<1> DEFINE g == Foreign(m, f)
<1>6. /\ g = [source |-> m.source, destination |-> m.destination, scheme |-> g.scheme,
              salt |-> g.salt, payload |-> g.payload, payloadDigest |-> m.payloadDigest,
              payloadSize |-> g.payloadSize, hmac |-> g.hmac, stamp |-> g.stamp]
      /\ g.payload \in {m.payload, <<"other">>} /\ g.hmac \in {m.hmac, <<"other">>}
      /\ g.stamp \in {m.stamp, Diverted(m.stamp)}
      /\ f = "none" => g = m
  <2>1. CASE f = "payload"
    BY <1>3, <2>1 DEF Foreign
  <2>2. CASE f = "hmac"
    BY <1>3, <2>2 DEF Foreign
  <2>3. CASE f = "scheme"
    BY <1>3, <2>3 DEF Foreign
  <2>4. CASE f = "size"
    BY <1>3, <2>4 DEF Foreign
  <2>5. CASE f = "salt"
    BY <1>3, <2>5 DEF Foreign
  <2>6. CASE f = "stamp"
    BY <1>3, <2>6 DEF Foreign
  <2>7. CASE f \notin {"payload", "hmac", "scheme", "size", "salt", "stamp"}
    <3>1. g = m
      BY <2>7 DEF Foreign
    <3> QED
      BY <1>3, <3>1
  <2> QED
    BY <2>1, <2>2, <2>3, <2>4, <2>5, <2>6, <2>7
<1> HIDE DEF g
<1>7. message' = [g EXCEPT !.payloadDigest = sha256(m.payload),
                           !.payload = IF strip THEN <<>> ELSE @]
  BY <1>5 DEF g
<1>8. /\ message'.source = m.source /\ message'.destination = m.destination
      /\ message'.scheme = g.scheme /\ message'.salt = g.salt
      /\ message'.payloadSize = g.payloadSize /\ message'.hmac = g.hmac
      /\ message'.stamp = g.stamp /\ message'.payloadDigest = sha256(m.payload)
      /\ message'.payload \in {g.payload, <<>>}
  BY <1>6, <1>7
<1>9. UNCHANGED <<sent, shown, owned, spent, restored, chain, redeemed>>
  BY DEF RelayAnswers
<1>10. sha256(m.payload) # <<>>
  BY DEF sha256
<1>11. HandedWell(Made(sent.items, sent.to, at))'
  <2>1. Made(sent'.items, sent'.to, at) = m
    BY <1>9 DEF m
  <2>2. fault' = "none" => f = "none" /\ g = m /\ payloads' = payloads
    BY <1>5, <1>6
  <2>3. fault' = "none" =>
         /\ message'.salt = m.salt /\ message'.hmac = m.hmac /\ message'.stamp = m.stamp
         /\ message'.scheme = 1 /\ message'.payloadSize = 0
         /\ message'.payload \in {m.payload, <<>>}
         /\ payloads' = {<<sha256(m.payload), m.payload>>}
    BY <1>2, <1>4, <1>8, <2>2
  <2>4. /\ message'.source = m.source /\ message'.destination = m.destination
        /\ message'.payloadDigest \in {<<>>, sha256(m.payload)}
        /\ message'.payload \in {m.payload, <<>>, <<"other">>}
        /\ message'.hmac \in {m.hmac, <<"other">>}
        /\ message'.stamp \in {m.stamp, Diverted(m.stamp)}
        /\ message'.payloadDigest # <<>>
    BY <1>6, <1>8, <1>10
  <2> QED
    BY <2>1, <2>3, <2>4 DEF HandedWell
<1>12. SentWell(at)'
  BY <1>1, <1>9 DEF Underway, SentWell
<1>13. PaidWell(at)'
  BY <1>1, <1>9 DEF Underway, PaidWell
<1>14. restored = {} /\ redeemed = {} /\ Bob \in Devices
  BY <1>1, <1>2 DEF Underway, SeenWell, Devices
<1>15. SeenWell(at)'
  <2>1. Len(NotYet) # 3
    BY DEF NotYet
  <2> QED
    BY <1>1, <1>2, <1>8, <1>9, <1>10, <1>14, <2>1 DEF Underway, SeenWell
<1>16. OpenedAsSent'
  BY <1>2, <1>9, <1>14 DEF OpenedAsSent, Devices
<1> QED
  BY <1>11, <1>12, <1>13, <1>15, <1>16 DEF EnvelopeInv, Underway

\* Once something is received, a message was sent.
LEMMA ReceivedUnderway ==
    ASSUME EnvelopeInv, Len(shown[Bob]) = 3
    PROVE  /\ shown[Bob] # NotYet /\ sent.to = Bob
           /\ \E at \in Placements : Underway(at)
<1>1. shown[Bob] # NotYet
  <2>1. Len(NotYet) = 1
    BY DEF NotYet
  <2> QED
    BY <2>1
<1>2. ~EnvelopeInit
  BY <1>1 DEF EnvelopeInit, Devices
<1>3. PICK at \in Placements : Underway(at)
  BY <1>2 DEF EnvelopeInv
<1>4. sent.to = Bob
  BY <1>1, <1>3 DEF Underway, SentWell, SeenWell, Devices
<1> QED
  BY <1>1, <1>3, <1>4

\* A stamp that is found again has its key, and is one of the unspent outputs.
LEMMA ResolvedLive ==
    ASSUME NEW c, IsCoin(c), c.addr = c.key, NEW e \in resolveLiveReceivedStamp(c)
    PROVE  e.key = e.addr /\ \E o \in chain : Same(e, o)
<1>1. PICK o \in chain : e = [c EXCEPT !.tx = o.tx, !.out = o.out]
  BY DEF resolveLiveReceivedStamp
<1>2. e.tx = o.tx /\ e.out = o.out /\ e.key = c.key /\ e.addr = c.addr
  BY <1>1 DEF IsCoin
<1> QED
  BY <1>2 DEF Same

\* A coin whose output is unspent, and is the one at its address or is kept
\* with its own transaction id, is found again.
LEMMA ResolvesTo ==
    ASSUME NEW c, IsCoin(c), IsFiniteSet(chain), NEW o \in chain, o.addr = c.addr,
           \/ Same(o, c)
           \/ \A q \in chain : q.addr = o.addr => q = o
    PROVE  \E e \in resolveLiveReceivedStamp(c) : e.tx = o.tx /\ e.out = o.out
<1> DEFINE matching == {q \in chain : q.addr = c.addr}
           exact == {q \in matching : q.tx = c.tx /\ q.out = c.out}
           live == IF Cardinality(matching) = 1 THEN matching ELSE exact
<1>1. resolveLiveReceivedStamp(c) = {[c EXCEPT !.tx = q.tx, !.out = q.out] : q \in live}
  BY DEF resolveLiveReceivedStamp
<1>2. o \in matching /\ IsFiniteSet(matching)
  BY FS_Subset
<1>3. o \in live
  <2>1. CASE Same(o, c)
    BY <1>2, <2>1 DEF Same
  <2>2. CASE \A q \in chain : q.addr = o.addr => q = o
    <3>1. matching = {o}
      BY <1>2, <2>2
    <3>2. Cardinality(matching) = 1
      BY <3>1, FS_Singleton
    <3> QED
      BY <1>2, <3>2
  <2> QED
    BY <2>1, <2>2
<1> HIDE DEF live
<1> DEFINE e == [c EXCEPT !.tx = o.tx, !.out = o.out]
<1>4. e.tx = o.tx /\ e.out = o.out
  BY DEF IsCoin
<1> QED
  BY <1>1, <1>3, <1>4

\* Every key derived again belongs to the output it is kept for.
LEMMA DerivedKeys ==
    ASSUME EnvelopeInv, Len(shown[Bob]) = 3, NEW digest, NEW legacy \in BOOLEAN,
           NEW c \in deriveReceivedStampKeys(digest, Kept(legacy))
    PROVE  IsCoin(c) /\ c.addr = c.key
<1>1. \A i \in DOMAIN shown[Bob][3] : IsCoin(shown[Bob][3][i])
  BY ReceivedUnderway DEF Underway, SeenWell
<1> DEFINE s == Kept(legacy)
<1>2. /\ DOMAIN s = DOMAIN shown[Bob][3]
      /\ \A i \in DOMAIN s :
            s[i] = IF legacy THEN [shown[Bob][3][i] EXCEPT !.tx = <<"lotus", @>>]
                             ELSE shown[Bob][3][i]
  BY DEF Kept
<1>3. \A i \in DOMAIN s : IsCoin(s[i])
  <2> SUFFICES ASSUME NEW i \in DOMAIN s PROVE IsCoin(s[i])
    OBVIOUS
  <2>1. IsCoin(shown[Bob][3][i])
    BY <1>1, <1>2
  <2> DEFINE k == shown[Bob][3][i]
  <2>2. s[i] = k \/ s[i] = [k EXCEPT !.tx = <<"lotus", k.tx>>]
    BY <1>2
  <2> HIDE DEF k, s
  <2>3. IsCoin(k)
    BY <2>1 DEF k
  <2> QED
    BY <2>2, <2>3 DEF IsCoin
<1> HIDE DEF s
<1>4. PICK i, key : i \in DOMAIN s /\ c = [s[i] EXCEPT !.key = key]
  BY DEF deriveReceivedStampKeys, s
<1>5. c.addr = c.key
  BY DEF deriveReceivedStampKeys
<1>6. IsCoin(s[i])
  BY <1>3, <1>4
<1>7. IsCoin(c)
  BY <1>4, <1>6 DEF IsCoin
<1> QED
  BY <1>5, <1>7

\* The transaction id that is kept for the i-th stamp.
KeptId(legacy, i) == IF legacy THEN <<"lotus", <<"stamp", i>>>> ELSE <<"stamp", i>>

\* The kept stamps are those of the message, with the ids they are kept with.
LEMMA KeptIds ==
    ASSUME NEW legacy \in BOOLEAN, NEW i, NEW j, KeptId(legacy, i) = KeptId(legacy, j)
    PROVE  i = j
<1>1. <<"stamp", i>> = <<"stamp", j>>
  <2>1. CASE legacy
    <3>1. <<"lotus", <<"stamp", i>>>> = <<"lotus", <<"stamp", j>>>>
      BY <2>1 DEF KeptId
    <3> QED
      BY <3>1
  <2>2. CASE ~legacy
    BY <2>2 DEF KeptId
  <2> QED
    BY <2>1, <2>2
<1> QED
  BY <1>1

\* The stamps of a message as it was sent are all derived again.
LEMMA DerivedAll ==
    ASSUME EnvelopeInv, Len(shown[Bob]) = 3, NEW legacy \in BOOLEAN, fault = "none",
           NEW c \in StampCoins
    PROVE  \E k \in deriveReceivedStampKeys(message.payloadDigest, Kept(legacy)) :
             /\ IsCoin(k) /\ k.addr = c.addr /\ k.out = c.out
             /\ ~legacy => k.tx = c.tx
<1>1. PICK at \in Placements : Underway(at)
  BY ReceivedUnderway
<1>2. PICK n \in Nat : at \in [1..n -> 0..1]
  BY PlacementLength
<1> DEFINE m == Made(sent.items, sent.to, at)
           hd == KeysOf(sent.items, sent.to, at)
           coins == StampsOf(sent.items, sent.to, at)
           s == Kept(legacy)
<1>3. /\ shown[Bob] # NotYet /\ sent.to = Bob
      /\ shown[Bob][3] = coins /\ c \in ToSet(coins)
  BY <1>1, ReceivedUnderway DEF Underway, SeenWell
<1>4. message.payloadDigest = sha256(m.payload)
  BY <1>1, <1>3 DEF Underway, HandedWell, SeenWell, Devices
<1>5. constructStampHDPrivateKey(message.payloadDigest, Priv(Bob)) = hd
  BY <1>3, <1>4, ScalarKeys DEF KeysOf
<1>6. /\ DOMAIN coins = 1..n
      /\ \A i \in 1..n :
           coins[i] = [kind |-> "stamp", tx |-> <<"stamp", i>>, out |-> at[i],
                       addr |-> Outpoint(hd, i - 1, 0), key |-> Outpoint(hd, i - 1, 0)]
  BY <1>2, StampsFacts
<1> HIDE DEF m, hd, coins
<1>7. /\ DOMAIN s = 1..n
      /\ \A i \in 1..n : s[i] = IF legacy THEN [coins[i] EXCEPT !.tx = <<"lotus", @>>]
                                          ELSE coins[i]
  BY <1>3, <1>6 DEF Kept
<1> HIDE DEF s
<1>8. ASSUME NEW i \in 1..n
      PROVE  s[i] = [kind |-> "stamp", tx |-> KeptId(legacy, i), out |-> at[i],
                     addr |-> Outpoint(hd, i - 1, 0), key |-> Outpoint(hd, i - 1, 0)]
  BY <1>6, <1>7 DEF KeptId
<1>9. \A i, j \in 1..n : s[i].tx = s[j].tx => i = j
  <2> SUFFICES ASSUME NEW i \in 1..n, NEW j \in 1..n, s[i].tx = s[j].tx PROVE i = j
    OBVIOUS
  <2>1. ASSUME NEW k \in 1..n PROVE s[k].tx = KeptId(legacy, k)
    <3>1. s[k] = [kind |-> "stamp", tx |-> KeptId(legacy, k), out |-> at[k],
                  addr |-> Outpoint(hd, k - 1, 0), key |-> Outpoint(hd, k - 1, 0)]
      BY <1>8
    <3> QED
      BY <3>1
  <2> QED
    BY <2>1, KeptIds
<1>10. PICK i \in 1..n : c = coins[i]
  BY <1>3, <1>6 DEF ToSet
<1>11. Place(s, i) = 0 /\ Group(s, i) = i - 1
  BY <1>7, <1>9, GroupOf
<1> DEFINE key == Outpoint(hd, i - 1, 0)
<1>12. s[i] = [kind |-> "stamp", tx |-> KeptId(legacy, i), out |-> at[i], addr |-> key, key |-> key]
  BY <1>8
<1>13. /\ [s[i] EXCEPT !.key = Outpoint(hd, Group(s, i), Place(s, i))] = s[i]
       /\ s[i].addr = s[i].key /\ IsCoin(s[i])
       /\ s[i].addr = key /\ s[i].out = at[i] /\ s[i].tx = KeptId(legacy, i)
  <2>1. key = Outpoint(hd, Group(s, i), Place(s, i))
    BY <1>11
  <2> HIDE DEF key
  <2> QED
    BY <1>12, <2>1 DEF IsCoin
<1>14. s[i] \in deriveReceivedStampKeys(message.payloadDigest, s)
  BY <1>5, <1>7, <1>13 DEF deriveReceivedStampKeys
<1>15. /\ IsCoin(s[i]) /\ s[i].addr = c.addr /\ s[i].out = c.out
       /\ ~legacy => s[i].tx = c.tx
  <2>1. c.addr = key /\ c.out = at[i] /\ c.tx = <<"stamp", i>>
    BY <1>6, <1>10
  <2> QED
    BY <1>13, <2>1 DEF KeptId
<1> QED
  BY <1>14, <1>15 DEF s

\* An unspent output that a coin of the stamp is in pays to the coin's address.
LEMMA SameAddress ==
    ASSUME EnvelopeInv, Len(shown[Bob]) = 3, fault = "none",
           NEW c \in StampCoins, NEW o \in chain, Same(c, o)
    PROVE  o.addr = c.addr
<1>1. PICK at \in Placements : Underway(at)
  BY ReceivedUnderway
<1>2. PICK n \in Nat : at \in [1..n -> 0..1]
  BY PlacementLength
<1> DEFINE hd == KeysOf(sent.items, sent.to, at)
           coins == StampsOf(sent.items, sent.to, at)
<1>3. c \in ToSet(coins)
  BY <1>1, ReceivedUnderway DEF Underway, SeenWell
<1>4. DOMAIN at = 1..n
  BY <1>2
<1>5. PICK i \in 1..n : o = [tx |-> <<"stamp", i>>, out |-> o.out, addr |-> Outpoint(hd, i - 1, 0)]
  BY <1>1, <1>4 DEF Underway, PaidWell
<1>6. /\ DOMAIN coins = 1..n
      /\ \A j \in 1..n :
           coins[j] = [kind |-> "stamp", tx |-> <<"stamp", j>>, out |-> at[j],
                       addr |-> Outpoint(hd, j - 1, 0), key |-> Outpoint(hd, j - 1, 0)]
  BY <1>2, StampsFacts
<1> HIDE DEF hd, coins
<1>7. PICK j \in 1..n : c = coins[j]
  BY <1>3, <1>6 DEF ToSet
<1>8. c.tx = <<"stamp", j>> /\ c.addr = Outpoint(hd, j - 1, 0)
  BY <1>6, <1>7
<1>9. o.tx = <<"stamp", i>> /\ o.addr = Outpoint(hd, i - 1, 0)
  BY <1>5
<1>10. <<"stamp", i>> = <<"stamp", j>>
  BY <1>8, <1>9 DEF Same
<1>11. i = j
  BY <1>10
<1> QED
  BY <1>8, <1>9, <1>11

\* A restart brings back coins with their keys, and every one that is unspent.
LEMMA RehydrateInv ==
    ASSUME EnvelopeInv, NEW legacy \in BOOLEAN, rehydrateReceivedStampUtxos(legacy)
    PROVE  EnvelopeInv'
<1>1. Len(shown[Bob]) = 3 /\ shown[Bob] # NotYet
  BY ReceivedUnderway DEF rehydrateReceivedStampUtxos
<1>2. PICK at \in Placements : Underway(at)
  BY <1>1, ReceivedUnderway
<1> DEFINE derived == deriveReceivedStampKeys(message.payloadDigest, Kept(legacy))
           live == UNION {resolveLiveReceivedStamp(c) : c \in derived}
<1>3. /\ restored' = {[coins |-> live, chain |-> chain, legacy |-> legacy]}
      /\ UNCHANGED <<sent, message, fault, payloads, shown, owned, spent, chain, redeemed>>
  BY DEF rehydrateReceivedStampUtxos
<1>4. ASSUME NEW e \in live PROVE e.key = e.addr /\ \E o \in chain : Same(e, o)
  <2>1. PICK c \in derived : e \in resolveLiveReceivedStamp(c)
    OBVIOUS
  <2>2. IsCoin(c) /\ c.addr = c.key
    BY <1>1, <2>1, DerivedKeys
  <2> QED
    BY <2>1, <2>2, ResolvedLive
<1>5. ASSUME fault = "none", NEW c \in StampCoins,
             \E o \in chain : Same(c, o),
             legacy => \A o, q \in chain : o.addr = q.addr => o = q
      PROVE  \E e \in live : Same(c, e)
  <2>1. PICK o \in chain : Same(c, o)
    BY <1>5
  <2>2. o.addr = c.addr
    BY <1>1, <1>5, <2>1, SameAddress
  <2>3. PICK k \in derived : /\ IsCoin(k) /\ k.addr = c.addr /\ k.out = c.out
                             /\ ~legacy => k.tx = c.tx
    BY <1>1, <1>5, DerivedAll
  <2>4. Same(o, k) \/ \A q \in chain : q.addr = o.addr => q = o
    BY <1>5, <2>1, <2>3 DEF Same
  <2>5. IsFiniteSet(chain)
    BY <1>2 DEF Underway, PaidWell
  <2>6. PICK e \in resolveLiveReceivedStamp(k) : e.tx = o.tx /\ e.out = o.out
    BY <2>2, <2>3, <2>4, <2>5, ResolvesTo
  <2>7. e \in live
    BY <2>3, <2>6
  <2> QED
    BY <2>1, <2>6, <2>7 DEF Same
<1> HIDE DEF live
<1>6. OpenedAsSent'
  <2>1. \A r \in restored' : r.coins = live /\ r.chain = chain /\ r.legacy = legacy
    BY <1>3
  <2>2. StampCoins' = StampCoins
    BY <1>3 DEF StampCoins
  <2>3. \A r \in restored' : \A c \in r.coins :
          c.key = c.addr /\ \E o \in r.chain : Same(c, o)
    BY <1>4, <2>1
  <2>4. fault' = "none" => \A r \in restored', c \in StampCoins' :
          (/\ \E o \in r.chain : Same(c, o)
           /\ r.legacy => \A o, q \in r.chain : o.addr = q.addr => o = q)
          => \E e \in r.coins : Same(c, e)
    BY <1>3, <1>5, <2>1, <2>2
  <2>5. OpenedAsSent
    BY DEF EnvelopeInv
  <2> QED
    BY <1>3, <2>3, <2>4, <2>5 DEF OpenedAsSent, Shows
<1>7. SentWell(at)' /\ HandedWell(Made(sent.items, sent.to, at))' /\ PaidWell(at)'
  BY <1>2, <1>3 DEF Underway, SentWell, HandedWell, PaidWell
<1>8. SeenWell(at)'
  BY <1>1, <1>2, <1>3 DEF Underway, SeenWell, StampCoins
<1> QED
  BY <1>6, <1>7, <1>8 DEF EnvelopeInv, Underway

\* Unspent outputs are spent, or one comes to an address that has one.
LEMMA ChainInv ==
    ASSUME NEW at, PaidWell(at), UNCHANGED sent,
           \/ chain' \subseteq chain
           \/ \E o \in chain : chain' = chain \cup {[o EXCEPT !.out = 9]}
    PROVE  PaidWell(at)'
<1>1. CASE chain' \subseteq chain
  <2>1. IsFiniteSet(chain')
    BY <1>1, FS_Subset DEF PaidWell
  <2> QED
    BY <1>1, <2>1 DEF PaidWell
<1>2. ASSUME NEW o \in chain, chain' = chain \cup {[o EXCEPT !.out = 9]} PROVE PaidWell(at)'
  <2> DEFINE p == [o EXCEPT !.out = 9]
             hd == KeysOf(sent.items, sent.to, at)
  <2>1. IsFiniteSet(chain')
    BY <1>2, FS_AddElement DEF PaidWell
  <2>2. PICK i \in DOMAIN at :
          o = [tx |-> <<"stamp", i>>, out |-> o.out, addr |-> Outpoint(hd, i - 1, 0)]
    BY <1>2 DEF PaidWell
  <2> HIDE DEF hd
  <2>3. p = [tx |-> <<"stamp", i>>, out |-> p.out, addr |-> Outpoint(hd, i - 1, 0)]
    BY <2>2
  <2> HIDE DEF p
  <2>4. \A q \in chain' : q \in chain \/ q = p
    BY <1>2 DEF p
  <2> QED
    BY <2>1, <2>3, <2>4 DEF PaidWell, hd
<1> QED
  BY <1>1, <1>2

\* What redeemStampForProof spends has its keys.
LEMMA RedeemInv ==
    ASSUME EnvelopeInv, NEW legacy \in BOOLEAN, redeemStampForProof(legacy)
    PROVE  EnvelopeInv'
<1>1. Len(shown[Bob]) = 3 /\ shown[Bob] # NotYet
  BY ReceivedUnderway DEF redeemStampForProof
<1>2. PICK at \in Placements : Underway(at)
  BY <1>1, ReceivedUnderway
<1> DEFINE derived == deriveReceivedStampKeys(message.payloadDigest, Kept(legacy))
           live == UNION {resolveLiveReceivedStamp(c) : c \in derived}
<1>3. /\ redeemed' = live /\ chain' \subseteq chain
      /\ UNCHANGED <<sent, message, fault, payloads, shown, owned, spent, restored>>
  BY DEF redeemStampForProof
<1>4. ASSUME NEW e \in live PROVE e.key = e.addr
  <2>1. PICK c \in derived : e \in resolveLiveReceivedStamp(c)
    OBVIOUS
  <2>2. IsCoin(c) /\ c.addr = c.key
    BY <1>1, <2>1, DerivedKeys
  <2> QED
    BY <2>1, <2>2, ResolvedLive
<1> HIDE DEF live
<1>5. OpenedAsSent'
  <2>1. OpenedAsSent /\ StampCoins' = StampCoins
    BY <1>3 DEF EnvelopeInv, StampCoins
  <2>2. \A c \in redeemed' : c.key = c.addr
    BY <1>3, <1>4
  <2> QED
    BY <1>3, <2>1, <2>2 DEF OpenedAsSent, Shows
<1>6. SentWell(at)' /\ HandedWell(Made(sent.items, sent.to, at))'
  BY <1>2, <1>3 DEF Underway, SentWell, HandedWell
<1>7. PaidWell(at)'
  BY <1>2, <1>3, ChainInv DEF Underway
<1>8. SeenWell(at)'
  BY <1>1, <1>2, <1>3 DEF Underway, SeenWell, StampCoins
<1> QED
  BY <1>5, <1>6, <1>7, <1>8 DEF EnvelopeInv, Underway

\* Spending elsewhere and paying an address once more keep the invariant.
LEMMA ChainMovesInv ==
    ASSUME EnvelopeInv, ChainMoves
    PROVE  EnvelopeInv'
<1>1. PICK at \in Placements : Underway(at)
  BY ReceivedUnderway DEF ChainMoves
<1>2. UNCHANGED <<sent, message, fault, payloads, shown, owned, spent, restored, redeemed>>
  BY DEF ChainMoves
<1>3. \/ chain' \subseteq chain
      \/ \E o \in chain : chain' = chain \cup {[o EXCEPT !.out = 9]}
  BY DEF ChainMoves
<1>4. PaidWell(at)'
  BY <1>1, <1>2, <1>3, ChainInv DEF Underway
<1>5. SentWell(at)' /\ HandedWell(Made(sent.items, sent.to, at))' /\ SeenWell(at)'
  BY <1>1, <1>2 DEF Underway, SentWell, HandedWell, SeenWell, StampCoins
<1>6. OpenedAsSent'
  BY <1>2 DEF EnvelopeInv, OpenedAsSent, Shows, StampCoins
<1> QED
  BY <1>4, <1>5, <1>6 DEF EnvelopeInv, Underway

\* Two parties have two keys.
LEMMA PrivInjective == ASSUME NEW a, NEW b, Priv(a) = Priv(b) PROVE a = b
<1>1. <<"key", a>> = <<"key", b>>
  BY DEF Priv
<1> QED
  BY <1>1

\* A device tells a message of its own by the source, one to itself by both.
LEMMA Parties ==
    ASSUME NEW at, Underway(at), NEW d \in Devices
    PROVE  /\ message.source = Priv(Alice) /\ message.destination = Priv(sent.to)
           /\ (message.source = Priv(d)) = (d = Alice)
           /\ (message.destination = Priv(d)) = (d = sent.to)
<1>1. message.source = Priv(Alice) /\ message.destination = Priv(sent.to)
  BY MadeFacts DEF Underway, HandedWell
<1> QED
  BY <1>1, PrivInjective

\* Whoever opens the message has the sender's key and payload.
LEMMA Opened ==
    ASSUME NEW at, Underway(at), NEW d, NEW out \in BOOLEAN, ~OpenThrows(message, d, out)
    PROVE  decrypt(SharedKey(message, d, out), Payload(message))[2]
             = EntriesOf(sent.items, sent.to)
<1> DEFINE m == Made(sent.items, sent.to, at)
           key == KeyOfMade(sent.items, sent.to, at)
           entries == EntriesOf(sent.items, sent.to)
           mine == SharedKey(message, d, out)
           got == Payload(message)
<1>1. /\ m.payload = <<"aes", key, <<"payload", entries>>>>
      /\ m.hmac = <<"hmac", key, sha256(m.payload)>>
  BY MadeFacts
<1>2. message.hmac \in {m.hmac, <<"other">>}
  BY DEF Underway, HandedWell
<1>3. message.hmac = <<"hmac", mine, sha256(got)>>
  BY DEF OpenThrows, constructPayloadHmac, sha256hmac
<1> HIDE DEF m, key, entries, mine, got
<1>4. <<"hmac", mine, sha256(got)>> = <<"hmac", key, sha256(m.payload)>>
  <2>1. <<"hmac", mine, sha256(got)>> # <<"other">>
    OBVIOUS
  <2> QED
    BY <1>1, <1>2, <1>3, <2>1
<1>5. mine = key /\ sha256(got) = sha256(m.payload)
  BY <1>4
<1>6. got = m.payload
  BY <1>5 DEF sha256
<1>7. decrypt(mine, got) = <<"payload", entries>>
  BY <1>1, <1>5, <1>6 DEF decrypt
<1> QED
  BY <1>7 DEF mine, got, entries

\* A message as it was sent is parsed and opened.
LEMMA FaultFree ==
    ASSUME NEW at, Underway(at), fault = "none", message.payloadDigest # <<>>
    PROVE  /\ ~ParseThrows(message)
           /\ sha256(Payload(message)) = message.payloadDigest
           /\ \A d \in {Alice, sent.to} : ~OpenThrows(message, d, d = Alice)
           /\ message.stamp = Made(sent.items, sent.to, at).stamp
<1> DEFINE m == Made(sent.items, sent.to, at)
           key == KeyOfMade(sent.items, sent.to, at)
           P == m.payload
<1>1. /\ message.payloadDigest = sha256(P) /\ message.payload \in {P, <<>>}
      /\ payloads = {<<sha256(P), P>>}
      /\ message.salt = m.salt /\ message.hmac = m.hmac /\ message.stamp = m.stamp
      /\ message.scheme = 1 /\ message.payloadSize = 0
  BY DEF Underway, HandedWell
<1>2. m.hmac = <<"hmac", key, sha256(P)>> /\ sent.to \in Devices
  BY MadeFacts DEF Underway, SentWell
<1>3. key = constructSharedKey(Priv(Alice), Priv(sent.to), m.salt)
  BY DEF KeyOfMade
<1> HIDE DEF m, key, P
<1>4. getRawPayload(message.payloadDigest) = P
  <2>1. {q[2] : q \in payloads} = {P}
    BY <1>1
  <2>2. <<message.payloadDigest, P>> \in payloads
    BY <1>1
  <2> QED
    BY <2>1, <2>2 DEF getRawPayload
<1>5. Payload(message) = P
  BY <1>1, <1>4 DEF Payload
<1>6. ~ParseThrows(message)
  BY <1>1 DEF ParseThrows
<1>7. ASSUME NEW d \in {Alice, sent.to} PROVE ~OpenThrows(message, d, d = Alice)
  <2>1. SharedKey(message, d, d = Alice) = key
    <3>1. message.source = Priv(Alice) /\ message.destination = Priv(sent.to)
      BY <1>2, Parties
    <3>2. CASE d = Alice
      BY <1>1, <1>3, <3>1, <3>2 DEF SharedKey
    <3>3. CASE d # Alice
      <4>1. /\ d = sent.to
            /\ SharedKey(message, d, d = Alice) = constructSharedKey(Priv(sent.to), Priv(Alice), m.salt)
        BY <1>1, <3>1, <3>3 DEF SharedKey
      <4>2. Mul(Priv(Alice), Priv(sent.to)) = Mul(Priv(sent.to), Priv(Alice))
        BY MulSymmetric
      <4> QED
        BY <1>3, <4>1, <4>2 DEF constructSharedKey, constructMergedKey
    <3> QED
      BY <3>2, <3>3
  <2> QED
    BY <1>1, <1>2, <1>5, <2>1 DEF OpenThrows, constructPayloadHmac, sha256hmac
<1> QED
  BY <1>1, <1>5, <1>6, <1>7 DEF m

\* A payment to oneself pays with its one transaction.
LEMMA SelfSend ==
    ASSUME NEW entries, entries = EntriesOf(<<<<"p2pkh", "address">>>>, Alice),
           NEW m, DOMAIN m.stamp = {}
    PROVE  /\ ToSet(Spends(entries, TRUE)) = {<<"p2pkh", 1>>}
           /\ Transactions(entries, m) = {<<"p2pkh", 1>>}
<1> DEFINE tx == [id |-> <<"p2pkh", 1>>, outs |-> <<"address">>]
           e == <<"p2pkh", tx>>
           id == <<"p2pkh", 1>>
<1>1. encodeEntry(<<"p2pkh", "address">>, Priv(Alice)) = e
  BY DEF encodeEntry, constructP2PKHEntry
<1>2. e[1] = "p2pkh" /\ e[2].id = id
  OBVIOUS
<1> HIDE DEF e
<1>3. DOMAIN entries = 1..1 /\ entries[1] = e /\ ToSet(entries) = {e}
  <2>1. DOMAIN entries = 1..1 /\ entries[1] = e
    BY <1>1 DEF EntriesOf
  <2>2. \A i \in 1..1 : i = 1
    OBVIOUS
  <2> QED
    BY <2>1, <2>2 DEF ToSet
<1> DEFINE s == [i \in DOMAIN entries |-> EntrySpends(entries[i], TRUE)]
<1> HIDE DEF id
<1>4. s[1] = <<id>> /\ DOMAIN s = 1..1 /\ s = [i \in 1..1 |-> s[i]]
  BY <1>2, <1>3 DEF EntrySpends
<1>5. Spends(entries, TRUE) = FlattenSeq(s)
  BY DEF Spends
<1> HIDE DEF s
<1>6. FlattenSeq(s) = <<id>>
  <2> DEFINE t == <<id>>
             T == {id}
  <2>1. t \in Seq(T) /\ Len(t) = 1 /\ t[1] = id
    OBVIOUS
  <2> HIDE DEF t, T
  <2>2. \A i \in 1..Len(t) : s[i] = <<t[i]>>
    BY <1>4, <2>1
  <2>3. FlattenSeq(s) = t
    BY <1>4, <2>1, <2>2, FlattenOnes
  <2> QED
    BY <2>3 DEF t
<1>7. ToSet(<<id>>) = {id}
  BY DEF ToSet
<1>8. Transactions(entries, m) = {id}
  <2>1. {f \in ToSet(entries) : f[1] = "stealth-payment"} = {}
    BY <1>2, <1>3
  <2>2. {f \in ToSet(entries) : f[1] = "p2pkh"} = {e}
    BY <1>2, <1>3
  <2>3. {f[2].id : f \in {e}} = {id}
    BY <1>2
  <2>4. {m.stamp[i].id : i \in {}} = {} /\ UNION {{f[3][i].id : i \in DOMAIN f[3]} : f \in {}} = {}
    OBVIOUS
  <2> QED
    BY <2>1, <2>2, <2>3, <2>4 DEF Transactions
<1> QED
  BY <1>5, <1>6, <1>7, <1>8 DEF id

\* What a device of the sender makes of the message.
LEMMA ReceiveOwn ==
    ASSUME NEW at \in Placements, Underway(at), receiveMessage(Alice)
    PROVE  /\ owned'[Alice] = {}
           /\ \/ shown'[Alice] = Nothing
              \/ sent.to = Bob /\ shown'[Alice] = <<Priv(Bob), sent.items, <<>>>>
           /\ fault = "none" =>
                /\ spent'[Alice] = sent.txs
                /\ sent.to = Bob => shown'[Alice] # Nothing
<1> DEFINE out == message.source = Priv(Alice)
           self == out /\ message.destination = Priv(Alice)
           entries == EntriesOf(sent.items, sent.to)
           found == decrypt(SharedKey(message, Alice, out), Payload(message))[2]
           stamps == StampOutpoints(constructStampHDPrivateKey(message.payloadDigest, Priv(Alice)),
                                    message.stamp, out)
           opened == ~OpenThrows(message, Alice, out)
           paid == {message.stamp[i].id : i \in DOMAIN message.stamp}
           bad == ParseThrows(message) \/ sha256(Payload(message)) # message.payloadDigest
<1>1. /\ message.payloadDigest # <<>> /\ shown[Alice] = NotYet
      /\ IF bad
         THEN shown' = [shown EXCEPT ![Alice] = Nothing] /\ UNCHANGED <<owned, spent>>
         ELSE /\ shown' = [shown EXCEPT ![Alice] =
                    IF ~opened \/ self THEN Nothing
                    ELSE finalizedMessage(message, out, Items(found, Alice, out), stamps)]
              /\ owned' = [owned EXCEPT ![Alice] =
                    IF out THEN {}
                    ELSE ToSet(stamps) \cup
                         IF opened THEN ToSet(Coins(found, Alice, out)) ELSE {}]
              /\ spent' = [spent EXCEPT ![Alice] =
                    IF ~out THEN {}
                    ELSE paid \cup
                         IF opened THEN ToSet(Spends(found, self)) ELSE {}]
  BY Zenon DEF receiveMessage
<1>2. Alice \in Devices /\ sent.to \in Devices /\ Alice # Bob
  BY EnvelopeAssumption DEF Devices, Underway, SentWell
<1>3. /\ shown = [d \in Devices |-> shown[d]] /\ owned = [d \in Devices |-> owned[d]]
      /\ spent = [d \in Devices |-> spent[d]] /\ owned[Alice] = {}
  BY <1>1, <1>2 DEF Underway, SeenWell
<1>4. out = TRUE /\ self = (sent.to = Alice) /\ message.destination = Priv(sent.to)
  BY <1>2, Parties
<1>5. opened => found = entries
  BY <1>4, Opened
<1>6. fault = "none" => ~bad /\ opened /\ message.stamp = Made(sent.items, sent.to, at).stamp
  <2> SUFFICES ASSUME fault = "none"
               PROVE  ~bad /\ opened /\ message.stamp = Made(sent.items, sent.to, at).stamp
    OBVIOUS
  <2>1. (Alice = Alice) = TRUE
    OBVIOUS
  <2> QED
    BY <1>1, <1>4, <2>1, FaultFree
<1> HIDE DEF out, self, found, stamps, opened, paid, bad, entries
<1>7. owned'[Alice] = {}
  BY <1>1, <1>2, <1>3, <1>4
<1>8. CASE sent.to = Alice
  <2>1. shown'[Alice] = Nothing
    BY <1>1, <1>2, <1>3, <1>4, <1>8
  <2>2. ASSUME fault = "none" PROVE spent'[Alice] = sent.txs
    <3>1. spent'[Alice] = paid \cup ToSet(Spends(entries, TRUE))
      <4>1. ~bad /\ opened /\ found = entries /\ out /\ self = TRUE
        BY <1>4, <1>5, <1>6, <1>8, <2>2
      <4>2. spent' = [spent EXCEPT ![Alice] =
                        IF ~out THEN {}
                        ELSE paid \cup IF opened THEN ToSet(Spends(found, self)) ELSE {}]
        BY <1>1, <4>1
      <4> QED
        BY <1>2, <1>3, <4>1, <4>2
    <3> DEFINE m == Made(sent.items, sent.to, at)
    <3>2. at = <<>> /\ entries = EntriesOf(<<<<"p2pkh", "address">>>>, Alice)
          /\ sent.txs = Transactions(entries, m)
      BY <1>8 DEF Underway, SentWell, entries
    <3>3. DOMAIN m.stamp = {}
      <4>1. m.stamp = Bundle("stamp", constructStampHDPublicKey(sha256(m.payload), Priv(sent.to)), at)
        BY MadeFacts
      <4> HIDE DEF m
      <4>2. DOMAIN m.stamp = DOMAIN at
        BY <4>1 DEF Bundle
      <4> QED
        BY <3>2, <4>2
    <3>4. paid = {}
      <4>1. DOMAIN message.stamp = {}
        BY <1>6, <2>2, <3>3
      <4> QED
        BY <4>1 DEF paid
    <3> HIDE DEF m
    <3> QED
      BY <3>1, <3>2, <3>3, <3>4, SelfSend
  <2> QED
    BY <1>2, <1>7, <1>8, <2>1, <2>2
<1>9. CASE sent.to = Bob
  <2>1. sent.items \in Seq(Sendable(Bob)) /\ entries = EntriesOf(sent.items, Bob)
    BY <1>9 DEF Underway, SentWell, entries
  <2>2. Items(entries, Alice, TRUE) = sent.items
    BY <1>2, <2>1, ItemsDecoded
  <2>3. finalizedMessage(message, TRUE, sent.items, stamps) = <<Priv(Bob), sent.items, <<>>>>
    BY <1>4, <1>9 DEF finalizedMessage
  <2>4. ~bad /\ opened => shown'[Alice] = <<Priv(Bob), sent.items, <<>>>>
    <3> SUFFICES ASSUME ~bad, opened PROVE shown'[Alice] = <<Priv(Bob), sent.items, <<>>>>
      OBVIOUS
    <3>1. finalizedMessage(message, out, Items(found, Alice, out), stamps)
            = <<Priv(Bob), sent.items, <<>>>>
      BY <1>4, <1>5, <2>2, <2>3
    <3>2. self = FALSE
      BY <1>2, <1>4, <1>9
    <3> QED
      BY <1>1, <1>2, <1>3, <3>1, <3>2
  <2>5. bad \/ ~opened => shown'[Alice] = Nothing
    BY <1>1, <1>2, <1>3
  <2>6. ASSUME fault = "none" PROVE spent'[Alice] = sent.txs
    <3>1. spent'[Alice] = paid \cup ToSet(Spends(entries, FALSE))
      BY <1>1, <1>2, <1>3, <1>4, <1>5, <1>6, <1>9, <2>6
    <3> DEFINE m == Made(sent.items, sent.to, at)
    <3>2. sent.txs = Transactions(entries, m)
      BY DEF Underway, SentWell, entries
    <3>3. message.stamp = m.stamp
      BY <1>6, <2>6
    <3> HIDE DEF m
    <3>4. Transactions(entries, m) = PaidByAll(entries) \cup {m.stamp[i].id : i \in DOMAIN m.stamp}
      BY <2>1, TransactionsOf
    <3>5. paid = {m.stamp[i].id : i \in DOMAIN m.stamp}
      BY <3>3 DEF paid
    <3>6. ToSet(Spends(entries, FALSE)) = PaidByAll(entries)
      BY <2>1, SpendsOfEntries
    <3> QED
      BY <3>1, <3>2, <3>4, <3>5, <3>6
  <2>7. Len(<<Priv(Bob), sent.items, <<>>>>) # Len(Nothing)
    BY DEF Nothing
  <2> QED
    BY <1>6, <1>7, <1>9, <2>4, <2>5, <2>6, <2>7
<1> QED
  BY <1>2, <1>8, <1>9 DEF Devices

\* What the recipient's device makes of it.
LEMMA ReceiveOther ==
    ASSUME NEW at \in Placements, Underway(at), sent.to = Bob, receiveMessage(Bob)
    PROVE  /\ \A c \in owned'[Bob] : c.key = c.addr
           /\ \/ shown'[Bob] = Nothing
              \/ \E stamps : /\ shown'[Bob] = <<Priv(Alice), sent.items, stamps>>
                             /\ \A i \in DOMAIN stamps : IsCoin(stamps[i])
           /\ fault = "none" =>
                /\ shown'[Bob] = <<Priv(Alice), sent.items, StampsOf(sent.items, sent.to, at)>>
                /\ {c.tx : c \in owned'[Bob]} = sent.txs
                /\ {c \in owned'[Bob] : c.kind = "stamp"}
                     \subseteq ToSet(StampsOf(sent.items, sent.to, at))
<1> DEFINE out == message.source = Priv(Bob)
           self == out /\ message.destination = Priv(Bob)
           entries == EntriesOf(sent.items, sent.to)
           found == decrypt(SharedKey(message, Bob, out), Payload(message))[2]
           hd == constructStampHDPrivateKey(message.payloadDigest, Priv(Bob))
           stamps == StampOutpoints(hd, message.stamp, out)
           all == Firsts("stamp", hd, message.stamp)
           opened == ~OpenThrows(message, Bob, out)
           paid == {message.stamp[i].id : i \in DOMAIN message.stamp}
           bad == ParseThrows(message) \/ sha256(Payload(message)) # message.payloadDigest
<1>1. /\ message.payloadDigest # <<>> /\ shown[Bob] = NotYet
      /\ IF bad
         THEN shown' = [shown EXCEPT ![Bob] = Nothing] /\ UNCHANGED <<owned, spent>>
         ELSE /\ shown' = [shown EXCEPT ![Bob] =
                    IF ~opened \/ self THEN Nothing
                    ELSE finalizedMessage(message, out, Items(found, Bob, out), stamps)]
              /\ owned' = [owned EXCEPT ![Bob] =
                    IF out THEN {}
                    ELSE ToSet(stamps) \cup
                         IF opened THEN ToSet(Coins(found, Bob, out)) ELSE {}]
              /\ spent' = [spent EXCEPT ![Bob] =
                    IF ~out THEN {}
                    ELSE paid \cup
                         IF opened THEN ToSet(Spends(found, self)) ELSE {}]
  BY Zenon DEF receiveMessage
<1>2. Bob \in Devices /\ Alice # Bob
  BY EnvelopeAssumption DEF Devices
<1>3. /\ shown = [d \in Devices |-> shown[d]] /\ owned = [d \in Devices |-> owned[d]]
      /\ owned[Bob] = {}
  BY <1>1, <1>2 DEF Underway, SeenWell
<1>4. out = FALSE /\ self = FALSE /\ message.source = Priv(Alice)
  BY <1>2, Parties
<1>5. opened => found = entries
  BY <1>4, Opened
<1>6. fault = "none" => ~bad /\ opened /\ message.stamp = Made(sent.items, sent.to, at).stamp
  <2> SUFFICES ASSUME fault = "none"
               PROVE  ~bad /\ opened /\ message.stamp = Made(sent.items, sent.to, at).stamp
    OBVIOUS
  <2>1. (Bob = Alice) = FALSE /\ Bob \in {Alice, sent.to}
    BY <1>2
  <2> QED
    BY <1>1, <1>4, <2>1, FaultFree
<1>7. PICK n \in Nat : at \in [1..n -> 0..1]
  BY PlacementLength
<1>8. StampShape(message.stamp, n, at)
  <2>1. message.stamp \in {Made(sent.items, sent.to, at).stamp,
                           Diverted(Made(sent.items, sent.to, at).stamp)}
    BY DEF Underway, HandedWell
  <2> QED
    BY <1>7, <2>1, StampsFacts
<1>9. DOMAIN message.stamp = 1..n /\ Ones(message.stamp)
  <2>1. Ones(message.stamp)
    BY <1>8, StampOnes
  <2> QED
    BY <1>8, <2>1 DEF StampShape
<1>10. hd = KeysOf(sent.items, sent.to, at)
  <2>1. message.payloadDigest = sha256(Made(sent.items, sent.to, at).payload)
    BY <1>1 DEF Underway, HandedWell
  <2> QED
    BY <2>1, ScalarKeys DEF KeysOf
<1>11. sent.items \in Seq(Sendable(Bob)) /\ entries = EntriesOf(sent.items, Bob)
  BY DEF Underway, SentWell
<1> HIDE DEF hd
<1>12. /\ ToSet(stamps) \subseteq ToSet(all)
       /\ \A c \in ToSet(stamps) : c.addr = c.key
       /\ (\A i \in 1..n : all[i].addr = all[i].key) => stamps = all
  BY <1>4, <1>9, StampOutpointsOf
<1>13. \A c \in ToSet(all) : IsCoin(c)
  BY DEF Firsts, Coin, ToSet, IsCoin
<1>14. \A i \in DOMAIN stamps : IsCoin(stamps[i])
  <2> HIDE DEF stamps, all
  <2>1. \A i \in DOMAIN stamps : stamps[i] \in ToSet(stamps)
    BY DEF ToSet
  <2> QED
    BY <1>12, <1>13, <2>1
<1> HIDE DEF out, self, found, stamps, opened, paid, bad, entries, all
<1>15. /\ \A c \in ToSet(Coins(entries, Bob, FALSE)) : c.kind = "stealth" /\ c.key = c.addr
       /\ {c.tx : c \in ToSet(Coins(entries, Bob, FALSE))} = PaidByAll(entries)
       /\ Items(entries, Bob, FALSE) = sent.items
  <2>1. Items(entries, Bob, FALSE) = sent.items
    BY <1>2, <1>11, ItemsDecoded
  <2>2. /\ \A c \in ToSet(Coins(entries, Bob, FALSE)) : c.kind = "stealth" /\ c.key = c.addr
        /\ {c.tx : c \in ToSet(Coins(entries, Bob, FALSE))} = PaidByAll(entries)
    <3> DEFINE coins == ToSet(Coins(entries, Bob, FALSE))
    <3>1. /\ \A c \in coins : c.kind = "stealth" /\ (~FALSE => c.key = c.addr)
          /\ {c.tx : c \in coins} = PaidByAll(entries)
      BY <1>2, <1>11, CoinsOfEntries, Zenon
    <3> HIDE DEF coins
    <3>2. /\ \A c \in coins : c.kind = "stealth" /\ c.key = c.addr
          /\ {c.tx : c \in coins} = PaidByAll(entries)
      BY <3>1
    <3> QED
      BY <3>2 DEF coins
  <2> QED
    BY <2>1, <2>2
<1>16. owned'[Bob] = IF bad THEN {}
                     ELSE ToSet(stamps) \cup
                          IF opened THEN ToSet(Coins(entries, Bob, FALSE)) ELSE {}
  BY <1>1, <1>2, <1>3, <1>4, <1>5
<1>17. shown'[Bob] = IF bad \/ ~opened THEN Nothing ELSE <<Priv(Alice), sent.items, stamps>>
  <2>1. finalizedMessage(message, FALSE, sent.items, stamps) = <<Priv(Alice), sent.items, stamps>>
    BY <1>4 DEF finalizedMessage
  <2>2. CASE bad \/ ~opened
    BY <1>1, <1>2, <1>3, <2>2
  <2>3. CASE ~bad /\ opened
    <3>1. finalizedMessage(message, out, Items(found, Bob, out), stamps)
            = <<Priv(Alice), sent.items, stamps>>
      BY <1>4, <1>5, <1>15, <2>1, <2>3
    <3> QED
      BY <1>1, <1>2, <1>3, <1>4, <2>3, <3>1
  <2> QED
    BY <2>2, <2>3
<1>18. \A c \in owned'[Bob] : c.key = c.addr
  BY <1>12, <1>15, <1>16
<1>19. ASSUME fault = "none"
       PROVE  /\ stamps = StampsOf(sent.items, sent.to, at)
              /\ {c.tx : c \in owned'[Bob]} = sent.txs
              /\ {c \in owned'[Bob] : c.kind = "stamp"} \subseteq ToSet(stamps)
  <2> DEFINE coins == StampsOf(sent.items, sent.to, at)
             m == Made(sent.items, sent.to, at)
  <2>1. message.stamp = m.stamp /\ ~bad /\ opened
    BY <1>6, <1>19
  <2>2. all = coins
    BY <1>10, <2>1 DEF StampsOf, all
  <2>3. /\ DOMAIN coins = 1..n
        /\ \A i \in 1..n :
             coins[i] = [kind |-> "stamp", tx |-> <<"stamp", i>>, out |-> at[i],
                         addr |-> Outpoint(hd, i - 1, 0), key |-> Outpoint(hd, i - 1, 0)]
    BY <1>7, <1>10, StampsFacts
  <2> HIDE DEF coins, m
  <2>4. \A i \in 1..n : coins[i].addr = coins[i].key /\ coins[i].tx = <<"stamp", i>>
    BY <2>3
  <2>5. stamps = coins
    BY <1>12, <2>2, <2>4
  <2>6. owned'[Bob] = ToSet(stamps) \cup ToSet(Coins(entries, Bob, FALSE))
    BY <1>16, <2>1
  <2>7. {c \in owned'[Bob] : c.kind = "stamp"} \subseteq ToSet(stamps)
    BY <1>15, <2>6
  <2>8. {c.tx : c \in ToSet(stamps)} = {m.stamp[i].id : i \in DOMAIN m.stamp}
    <3>1. {c.tx : c \in ToSet(stamps)} = {<<"stamp", i>> : i \in 1..n}
      <4>1. ToSet(stamps) = {coins[i] : i \in 1..n}
        BY <2>3, <2>5 DEF ToSet
      <4> QED
        BY <2>4, <4>1
    <3>2. DOMAIN m.stamp = 1..n /\ \A i \in 1..n : m.stamp[i].id = <<"stamp", i>>
      BY <1>8, <2>1 DEF StampShape
    <3> QED
      BY <3>1, <3>2
  <2>9. sent.txs = PaidByAll(entries) \cup {m.stamp[i].id : i \in DOMAIN m.stamp}
    <3>1. sent.txs = Transactions(entries, m)
      BY DEF Underway, SentWell, entries, m
    <3> QED
      BY <1>11, <3>1, TransactionsOf
  <2>10. {c.tx : c \in owned'[Bob]}
           = {c.tx : c \in ToSet(stamps)} \cup {c.tx : c \in ToSet(Coins(entries, Bob, FALSE))}
    BY <2>6
  <2> QED
    BY <1>15, <2>5, <2>7, <2>8, <2>9, <2>10 DEF coins
<1>20. fault = "none" => ~bad /\ opened
  BY <1>6
<1> QED
  BY <1>14, <1>17, <1>18, <1>19, <1>20

\* Receiving keeps the invariant, on a device of the sender and of the recipient.
LEMMA ReceiveInv ==
    ASSUME EnvelopeInv, NEW d \in Devices, receiveMessage(d)
    PROVE  EnvelopeInv'
<1>1. PICK at \in Placements : Underway(at)
  <2>1. ~EnvelopeInit
    BY DEF EnvelopeInit, receiveMessage
  <2> QED
    BY <2>1 DEF EnvelopeInv
<1>2. /\ message.payloadDigest # <<>> /\ d \in {Alice, sent.to}
      /\ shown[d] = NotYet /\ shown[Bob] = NotYet
      /\ UNCHANGED <<sent, message, fault, payloads, restored, chain, redeemed>>
  BY Zenon DEF receiveMessage
<1>3. \E u, v, w : /\ shown' = [shown EXCEPT ![d] = u]
                   /\ owned' = [owned EXCEPT ![d] = v]
                   /\ spent' = [spent EXCEPT ![d] = w]
  <2>1. spent = [spent EXCEPT ![d] = spent[d]] /\ owned = [owned EXCEPT ![d] = owned[d]]
    BY <1>1 DEF Underway, SeenWell
  <2>2. CASE ParseThrows(message) \/ sha256(Payload(message)) # message.payloadDigest
    <3>1. shown' = [shown EXCEPT ![d] = Nothing] /\ owned' = owned /\ spent' = spent
      BY <2>2, Zenon DEF receiveMessage
    <3> QED
      BY <2>1, <3>1
  <2>3. CASE ~(ParseThrows(message) \/ sha256(Payload(message)) # message.payloadDigest)
    <3> DEFINE out == message.source = Priv(d)
               self == out /\ message.destination = Priv(d)
               found == decrypt(SharedKey(message, d, out), Payload(message))[2]
               stamps == StampOutpoints(constructStampHDPrivateKey(message.payloadDigest, Priv(d)),
                                        message.stamp, out)
               opened == ~OpenThrows(message, d, out)
               paid == {message.stamp[i].id : i \in DOMAIN message.stamp}
               bad == ParseThrows(message) \/ sha256(Payload(message)) # message.payloadDigest
               u == IF ~opened \/ self THEN Nothing
                    ELSE finalizedMessage(message, out, Items(found, d, out), stamps)
               v == IF out THEN {}
                    ELSE ToSet(stamps) \cup
                         IF opened THEN ToSet(Coins(found, d, out)) ELSE {}
               w == IF ~out THEN {}
                    ELSE paid \cup IF opened THEN ToSet(Spends(found, self)) ELSE {}
    <3>1. IF bad
          THEN shown' = [shown EXCEPT ![d] = Nothing] /\ UNCHANGED <<owned, spent>>
          ELSE /\ shown' = [shown EXCEPT ![d] = u]
               /\ owned' = [owned EXCEPT ![d] = v]
               /\ spent' = [spent EXCEPT ![d] = w]
      BY Zenon DEF receiveMessage
    <3>2. ~bad
      BY <2>3
    <3> HIDE DEF bad, u, v, w
    <3> QED
      BY <3>1, <3>2
  <2> QED
    BY <2>2, <2>3
<1>4. /\ shown' = [e \in Devices |-> shown'[e]]
      /\ owned' = [e \in Devices |-> owned'[e]]
      /\ spent' = [e \in Devices |-> spent'[e]]
      /\ \A e \in Devices : e # d =>
            shown'[e] = shown[e] /\ owned'[e] = owned[e] /\ spent'[e] = spent[e]
  <2>1. PICK u, v, w : /\ shown' = [shown EXCEPT ![d] = u]
                       /\ owned' = [owned EXCEPT ![d] = v]
                       /\ spent' = [spent EXCEPT ![d] = w]
    BY <1>3
  <2>2. /\ shown = [e \in Devices |-> shown[e]] /\ owned = [e \in Devices |-> owned[e]]
        /\ spent = [e \in Devices |-> spent[e]]
    BY <1>1 DEF Underway, SeenWell
  <2>3. shown' = [e \in Devices |-> shown'[e]] /\ \A e \in Devices : e # d => shown'[e] = shown[e]
    BY <2>1, <2>2
  <2>4. owned' = [e \in Devices |-> owned'[e]] /\ \A e \in Devices : e # d => owned'[e] = owned[e]
    BY <2>1, <2>2
  <2>5. spent' = [e \in Devices |-> spent'[e]] /\ \A e \in Devices : e # d => spent'[e] = spent[e]
    BY <2>1, <2>2
  <2> QED
    BY <2>3, <2>4, <2>5
<1>5. SentWell(at)' /\ HandedWell(Made(sent.items, sent.to, at))' /\ PaidWell(at)'
  BY <1>1, <1>2 DEF Underway, SentWell, HandedWell, PaidWell
<1>6. /\ Alice \in Devices /\ Bob \in Devices /\ Alice # Bob /\ Devices = {Alice, Bob}
      /\ sent.to \in Devices
  BY <1>1, EnvelopeAssumption DEF Devices, Underway, SentWell
<1>7. restored' = {} /\ redeemed' = {} /\ owned[Bob] = {}
  BY <1>1, <1>2, <1>6 DEF Underway, SeenWell
<1>8. Nothing # NotYet /\ Len(Nothing) = 1 /\ Len(NotYet) = 1
  BY DEF Nothing, NotYet
<1>9. CASE d = Alice
  <2>1. /\ owned'[Alice] = {}
        /\ \/ shown'[Alice] = Nothing
           \/ sent.to = Bob /\ shown'[Alice] = <<Priv(Bob), sent.items, <<>>>>
        /\ fault = "none" =>
             /\ spent'[Alice] = sent.txs
             /\ sent.to = Bob => shown'[Alice] # Nothing
    BY <1>1, <1>9, ReceiveOwn
  <2>2. shown'[Bob] = NotYet /\ owned'[Bob] = {}
    BY <1>2, <1>4, <1>6, <1>7, <1>9
  <2>3. SeenWell(at)'
    BY <1>1, <1>2, <1>4, <1>6, <1>7, <1>8, <2>1, <2>2 DEF Underway, SeenWell
  <2>4. Shows(Alice, Bob)' \/ shown'[Alice] = Nothing
    BY <1>2, <2>1 DEF Shows
  <2>5. \A e \in Devices : \A c \in owned'[e] : c.key = c.addr
    BY <1>6, <2>1, <2>2
  <2>6. \A e \in Devices : shown'[e] \notin {NotYet, Nothing} =>
          Shows(e, IF e = Alice THEN Bob ELSE Alice)'
    BY <1>6, <2>2, <2>4
  <2>7. fault' = "none" => /\ spent'[Alice] = sent'.txs
                           /\ sent'.to = Bob => Shows(Alice, Bob)'
    BY <1>2, <2>1, <2>4
  <2>8. OpenedAsSent'
    BY <1>7, <2>1, <2>2, <2>5, <2>6, <2>7 DEF OpenedAsSent
  <2> QED
    BY <1>5, <2>3, <2>8 DEF EnvelopeInv, Underway
<1>10. CASE d # Alice
  <2>1. d = Bob /\ sent.to = Bob
    BY <1>2, <1>6, <1>10
  <2> DEFINE coins == StampsOf(sent.items, sent.to, at)
  <2>2. /\ \A c \in owned'[Bob] : c.key = c.addr
        /\ \/ shown'[Bob] = Nothing
           \/ \E stamps : /\ shown'[Bob] = <<Priv(Alice), sent.items, stamps>>
                          /\ \A i \in DOMAIN stamps : IsCoin(stamps[i])
        /\ fault = "none" =>
             /\ shown'[Bob] = <<Priv(Alice), sent.items, coins>>
             /\ {c.tx : c \in owned'[Bob]} = sent.txs
             /\ {c \in owned'[Bob] : c.kind = "stamp"} \subseteq ToSet(coins)
    BY <1>1, <2>1, ReceiveOther
  <2> HIDE DEF coins
  <2>3. shown'[Bob] # NotYet
    <3>1. \A stamps : Len(<<Priv(Alice), sent.items, stamps>>) = 3
      OBVIOUS
    <3> QED
      BY <1>8, <2>2, <3>1
  <2>4. shown'[Alice] = shown[Alice] /\ owned'[Alice] = owned[Alice] /\ spent'[Alice] = spent[Alice]
    BY <1>4, <1>6, <2>1
  <2>5. Len(shown'[Bob]) = 3 => \A i \in DOMAIN shown'[Bob][3] : IsCoin(shown'[Bob][3][i])
    <3>1. CASE shown'[Bob] = Nothing
      BY <1>8, <3>1
    <3>2. ASSUME NEW stamps, shown'[Bob] = <<Priv(Alice), sent.items, stamps>>,
                 \A i \in DOMAIN stamps : IsCoin(stamps[i])
          PROVE  \A i \in DOMAIN shown'[Bob][3] : IsCoin(shown'[Bob][3][i])
      <4>1. shown'[Bob][3] = stamps
        BY <3>2
      <4> QED
        BY <3>2, <4>1
    <3> QED
      BY <2>2, <3>1, <3>2
  <2>6. fault' = "none" =>
          /\ shown'[Bob][3] = coins /\ Shows(Bob, Alice)'
          /\ StampCoins' \subseteq ToSet(coins)
          /\ {c.tx : c \in owned'[Bob]} = sent'.txs
    BY <1>2, <2>2 DEF Shows, StampCoins
  <2>7. coins = StampsOf(sent'.items, sent'.to, at)
    BY <1>2 DEF coins
  <2>8. SeenWell(at)'
    <3>1. \A e \in Devices : shown'[e] = NotYet => owned'[e] = {}
      BY <1>1, <1>6, <2>3, <2>4 DEF Underway, SeenWell
    <3> QED
      BY <1>2, <1>4, <1>6, <2>1, <2>3, <2>5, <2>6, <2>7, <3>1 DEF SeenWell
  <2>9. shown'[Bob] = Nothing \/ Shows(Bob, Alice)'
    BY <1>2, <2>2 DEF Shows
  <2>10. OpenedAsSent
    BY DEF EnvelopeInv
  <2>11. Shows(Alice, Bob)' = Shows(Alice, Bob)
    BY <1>2, <2>4 DEF Shows
  <2>12. \A e \in Devices : \A c \in owned'[e] : c.key = c.addr
    BY <1>6, <2>2, <2>4, <2>10 DEF OpenedAsSent
  <2>13. \A e \in Devices : shown'[e] \notin {NotYet, Nothing} =>
           Shows(e, IF e = Alice THEN Bob ELSE Alice)'
    BY <1>6, <2>4, <2>9, <2>10, <2>11 DEF OpenedAsSent
  <2>14. fault' = "none" /\ shown'[Alice] # NotYet =>
           /\ owned'[Alice] = {} /\ spent'[Alice] = sent'.txs
           /\ sent'.to = Bob => Shows(Alice, Bob)'
    BY <1>2, <2>4, <2>10, <2>11 DEF OpenedAsSent
  <2>15. OpenedAsSent'
    BY <1>7, <2>6, <2>12, <2>13, <2>14 DEF OpenedAsSent
  <2> QED
    BY <1>5, <2>8, <2>15 DEF EnvelopeInv, Underway
<1> QED
  BY <1>9, <1>10

\* Every step keeps the invariant.
LEMMA EnvelopeStepInv == EnvelopeInv /\ [EnvelopeNext]_envelopeVars => EnvelopeInv'
<1> SUFFICES ASSUME EnvelopeInv, [EnvelopeNext]_envelopeVars PROVE EnvelopeInv'
  OBVIOUS
<1>1. CASE UNCHANGED envelopeVars
  <2>1. EnvelopeInit' = EnvelopeInit
    BY <1>1 DEF envelopeVars, EnvelopeInit
  <2>2. ASSUME NEW at, Underway(at) PROVE Underway(at)'
    BY <1>1, <2>2 DEF envelopeVars, Underway, SentWell, HandedWell, PaidWell, SeenWell, StampCoins
  <2>3. OpenedAsSent'
    BY <1>1 DEF EnvelopeInv, envelopeVars, OpenedAsSent, Shows, StampCoins
  <2> QED
    BY <2>1, <2>2, <2>3 DEF EnvelopeInv
<1> QED
  BY <1>1, SendsInv, RelayAnswersInv, ReceiveInv, RehydrateInv, RedeemInv, ChainMovesInv
     DEF EnvelopeNext

\* The invariant holds in every state, for every number of transactions of a
\* payment and every set of faults.
THEOREM EnvelopeInvariant == EnvelopeSpec => []EnvelopeInv
BY EnvelopeInitInv, EnvelopeStepInv, PTL DEF EnvelopeSpec

\* Messages mean the same on every device, their coins can be spent by the
\* recipient and come back after a restart (sendMessageImpl, receiveMessage,
\* rehydrateReceivedStampUtxos and redeemStampForProof).
THEOREM EnvelopeTheorem == EnvelopeSpec => []OpenedAsSent
<1>1. EnvelopeInv => OpenedAsSent
  BY DEF EnvelopeInv
<1> QED
  BY <1>1, EnvelopeInvariant, PTL

=============================================================================
