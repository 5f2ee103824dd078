------------------------------- MODULE Forum -------------------------------
(***************************************************************************)
(* Forum posts: the registry's table of signed items (local-services/      *)
(* server.js), the requests of the registry handler that read it, and the  *)
(* topic store (stores/topics.ts) with one topic, over the payments of     *)
(* RegistryPayments.                                                       *)
(*                                                                         *)
(* A post of ours is named by the call that creates it.  The amount burnt  *)
(* is counted in offerings.  The local registry stores an offering as an   *)
(* item of its own, which a client parses as a message without payload:    *)
(* Empty is its digest.  A remote registry adds the offering to the post.  *)
(* An answer is computed at the server and applied by the client later, or *)
(* never when the read fails.                                              *)
(***************************************************************************)
EXTENDS RegistryPayments, Sequences, SequencesExt, Subsequence

CONSTANTS
    Others,       \* posts of other users
    Parent,       \* the post that a post replies to, or NoPost
    Target,       \* the post that an offering is for
    Empty, NoPost,
    MaxFetches    \* bound on reads

Posts == PostJobs \cup Others
Digests == Posts \cup {Empty}

ASSUME ForumAssumption ==
    /\ Parent \in [Posts -> Posts \cup {NoPost}]
    /\ Target \in [OfferJobs -> Posts]
    /\ NoPost \notin Digests
    /\ Empty \notin Posts
    /\ IsFiniteSet(Others)
    /\ MaxFetches \in Nat

VARIABLES
    items,      \* the registry's items: satoshis per digest, 0 if there is none
    answers,    \* answers on their way to the client: sequences of messages
    index,      \* messageIndex: satoshis per digest, 0 if it is not there
    listed,     \* the messages of the topic
    replies,    \* the replies of each message of the index
    early,      \* history: replies that were indexed before their parent
    fetches

forumVars == <<items, answers, index, listed, replies, early, fetches>>
allForumVars == <<payVars, forumVars>>

Message == [digest : Digests, satoshis : Nat \ {0}]

ForumTypeOK ==
    /\ PayTypeOK
    /\ items \in [Digests -> Nat]
    /\ \A a \in answers : a.kind \in {"page", "one"} /\ a.msgs \in Seq(Message)
    /\ index \in [Digests -> Nat]
    /\ listed \in Seq(Digests)
    /\ replies \in [Posts -> Seq(Posts)]
    /\ early \in SUBSET Posts
    /\ fetches \in 0..MaxFetches

ForumInit ==
    /\ PayInit
    /\ items = [d \in Digests |-> 0]
    /\ answers = {}
    /\ index = [d \in Digests |-> 0]
    /\ listed = <<>>
    /\ replies = [p \in Posts |-> <<>>]
    /\ early = {}
    /\ fetches = 0

-----------------------------------------------------------------------------
(* The registry *)

\* PUT /messages: a post is stored under its digest.
PutPost(p) ==
    /\ p \in PostJobs
    /\ ServerTakes(p)
    /\ items' = [items EXCEPT ![p] = 1]
    /\ UNCHANGED <<answers, index, listed, replies, early, fetches>>

\* Another user posts.
OthersPost(q) ==
    /\ items[q] = 0
    /\ items' = [items EXCEPT ![q] = 1]
    /\ UNCHANGED <<payVars, answers, index, listed, replies, early, fetches>>

\* An offering of a post the registry holds.
PutOffering(o) ==
    /\ o \in OfferJobs
    /\ registry = "remote" => items[Target[o]] > 0
    /\ ServerTakes(o)
    /\ items' = [items EXCEPT ![IF registry = "local" THEN Empty ELSE Target[o]] = @ + 1]
    /\ UNCHANGED <<answers, index, listed, replies, early, fetches>>

\* The payment URL of a registry or relay.
TakePayment(j) ==
    /\ j \in MetadataJobs \cup MailboxJobs
    /\ ServerTakes(j)
    /\ UNCHANGED forumVars

Msg(d) == [digest |-> d, satoshis |-> IF d = Empty THEN 1 ELSE items[d]]

\* GET /messages: every item, in any order of the map; each offering of the
\* local registry is a message of its own.
Pages ==
    LET rows == ({d \in Posts : items[d] > 0} \X {1}) \cup ({Empty} \X (1..items[Empty]))
    IN  {[k \in DOMAIN o |-> Msg(o[k][1])] : o \in SetToSeqs(rows)}

getBroadcastMessages == {[kind |-> "page", msgs |-> page] : page \in Pages}

getBroadcastMessage(d) == [kind |-> "one", msgs |-> <<Msg(d)>>]

Asked(answer) ==
    /\ fetches < MaxFetches
    /\ fetches' = fetches + 1
    /\ answers' = answers \cup {answer}
    /\ UNCHANGED <<payVars, items, index, listed, replies, early>>

\* The store asks for a page, or for one message, as after an own post.
refreshMessages == \E a \in getBroadcastMessages : Asked(a)

fetchMessage(d) ==
    /\ items[d] > 0 /\ d # Empty
    /\ Asked(getBroadcastMessage(d))

-----------------------------------------------------------------------------
(* stores/topics.ts *)

DigestsOf(msgs) == [i \in DOMAIN msgs |-> msgs[i].digest]
Known == {d \in Digests : index[d] > 0}

\* messageIndex after msgs: known messages get new votes, new ones enter.
Indexed(msgs) ==
    [d \in Digests |-> LET at == {i \in DOMAIN msgs : msgs[i].digest = d}
                       IN  IF at = {} THEN index[d]
                           ELSE msgs[CHOOSE i \in at : TRUE].satoshis]

\* The positions, among at, of the messages that become replies of p: each
\* message that is not among them yet, once.
Adopted(p, msgs, at) ==
    {i \in at : LET d == msgs[i].digest
                IN  /\ d \in Posts /\ Parent[d] = p /\ d \notin ToSet(replies[p])
                    /\ \A j \in at : j < i => msgs[j].digest # d}

\* Mutant of Replies: one loop indexes each message and looks for its parent.
RepliesInOrder(msgs, at) ==
    [p \in Posts |->
        LET found == {i \in Adopted(p, msgs, at) :
                         p \in Known \cup {msgs[j].digest : j \in 1..i}}
        IN  replies[p] \o Picked(DigestsOf(msgs), found)]

\* The replies after msgs are in the index: those of a message that is known
\* then are joined by the messages at the positions at that reply to it.
Replies(msgs, at) ==
    [p \in Posts |->
        IF p \in Known \cup ToSet(DigestsOf(msgs))
        THEN replies[p] \o Picked(DigestsOf(msgs), Adopted(p, msgs, at))
        ELSE replies[p]]

\* Replies that are indexed while their parent is not.
Orphans == {p \in Posts : index'[p] > 0 /\ index[p] = 0 /\ Parent[p] # NoPost
                                /\ index'[Parent[p]] = 0}

\* Mutant of NewToTopic: the messages of the topic are not looked up.
NewToTopicAll(msgs) == DOMAIN msgs

\* The positions of the messages of an answer that the topic does not list.
NewToTopic(msgs) == {i \in DOMAIN msgs : msgs[i].digest \notin ToSet(listed)}

\* An answer is applied; the messages at the positions at look for their parents.
Applied(a, at) ==
    /\ answers' = answers \ {a}
    /\ index' = Indexed(a.msgs)
    /\ replies' = Replies(a.msgs, at)
    /\ listed' = listed \o Picked(DigestsOf(a.msgs), NewToTopic(a.msgs))
    /\ early' = early \cup Orphans
    /\ UNCHANGED <<payVars, items, fetches>>

\* setEntries applies a page, whose new messages are looked at ...
setEntries(a) ==
    /\ a.kind = "page"
    /\ Applied(a, {i \in DOMAIN a.msgs : a.msgs[i].digest \notin Known})

\* ... and setMessage one message, known or new.
setMessage(a) ==
    /\ a.kind = "one"
    /\ Applied(a, DOMAIN a.msgs)

\* The topic is deleted; the index keeps its messages, and an answer that
\* arrives later creates the topic again.
deleteTopic ==
    /\ listed # <<>>
    /\ listed' = <<>>
    /\ UNCHANGED <<payVars, items, answers, index, replies, early, fetches>>

ForumNext ==
    \/ \E j \in Jobs : \/ (ClientStep(j) \/ Acknowledged(j) \/ RequestLost(j))
                            /\ UNCHANGED forumVars
                       \/ PutPost(j) \/ PutOffering(j) \/ TakePayment(j)
    \/ ChainStep /\ UNCHANGED forumVars
    \/ \E q \in Others : OthersPost(q)
    \/ refreshMessages
    \/ \E d \in Digests : fetchMessage(d)
    \/ \E a \in answers : setEntries(a) \/ setMessage(a)
    \/ deleteTopic

ForumSpec == ForumInit /\ [][ForumNext]_allForumVars

-----------------------------------------------------------------------------
\* A post is listed once in its topic and once among the replies of its
\* parent, whatever pages and single reads are applied in whatever order.
PostsListedOnce ==
    /\ \A i, j \in DOMAIN listed : listed[i] = listed[j] /\ listed[i] # Empty => i = j
    /\ \A p \in Posts : IsInjective(replies[p])

\* A known reply to a known post is shown under it, unless the reply was known
\* first; the order of the messages in an answer does not matter.
RepliesAttached ==
    \A p \in Posts \ early :
        p \in Known /\ Parent[p] # NoPost /\ Parent[p] \in Known
            => p \in ToSet(replies[Parent[p]])
=============================================================================
