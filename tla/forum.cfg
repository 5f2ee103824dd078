\* Two coins; one call of each kind, of which three are made and two under way
\* at once; a post, the reply to it and an offering for it; two reads.
SPECIFICATION ForumSpec
CONSTANTS
    Coins = {coin1, coin2}
    MetadataJobs = {meta}
    PostJobs = {post}
    OfferJobs = {offer}
    Others = {root}
    MailboxJobs = {fee}
    MaxRetries = 1
    MaxBusy = 2
    MaxBegun = 3
    Parent <- MCParent
    Target <- MCTarget
    Empty = Empty
    NoPost = NoPost
    MaxFetches = 2
    coin1 = coin1
    coin2 = coin2
    post = post
    root = root
    offer = offer
    meta = meta
    fee = fee
INVARIANTS
    
    
    MailboxBounded
    PostsListedOnce
    RepliesAttached
SYMMETRY Symmetry
\* Every call and read is bounded.
CHECK_DEADLOCK FALSE
